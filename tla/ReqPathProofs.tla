--------------------------- MODULE ReqPathProofs ----------------------------
(***************************************************************************)
(* Proofs about module ReqPath, for every set of hosts, every stream a     *)
(* client may send and every way of cutting requests and answers into      *)
(* pieces.                                                                 *)
(***************************************************************************)
EXTENDS ReqPath, SequenceTheorems, WellFoundedInduction, TLAPS

-----------------------------------------------------------------------------
(***************************************************************************)
(* Recursive functions                                                     *)
(***************************************************************************)

\* A set of natural numbers that is not empty has a least one.
LEMMA LeastNumber ==
    ASSUME NEW S \in SUBSET Nat, S # {}
    PROVE  \E m \in S : \A k \in S : m <= k
<1> DEFINE R == {ss \in Nat \X Nat : ss[1] < ss[2]}
<1>1. IsWellFoundedOn(R, Nat)
  BY NatLessThanWellFounded DEF OpToRel
<1> HIDE DEF R
<1>2. PICK m \in S : \A k \in S : ~ (<<k, m>> \in R)
  BY <1>1, WFMin, Zenon
<1>3. \A k \in S : ~ (k < m)
  BY <1>2 DEF R
<1> QED
  BY <1>3

\* Induction, for a set.
LEMMA SetInduction ==
    ASSUME NEW S \in SUBSET Nat, 0 \in S, \A m \in S : m + 1 \in S
    PROVE  S = Nat
<1> SUFFICES ASSUME Nat \ S # {}
             PROVE  FALSE
  OBVIOUS
<1>1. PICK m \in Nat \ S : \A k \in Nat \ S : m <= k
  BY LeastNumber
<1>2. m - 1 \in Nat /\ m - 1 \in S
  BY <1>1
<1> QED
  BY <1>1, <1>2

\* What B makes of a function f at p depends only on f at points of a lower
\* rank.
Recursive(D, R, rank, N, B) ==
    /\ R # {} /\ N \in Nat
    /\ rank \in [D -> Nat] /\ \A p \in D : rank[p] < N
    /\ B \in [[D -> R] \X D -> R]
    /\ \A f, g \in [D -> R] : \A p \in D :
          (\A q \in D : rank[q] < rank[p] => f[q] = g[q]) => B[<<f, p>>] = B[<<g, p>>]

\* Then the function that B defines by recursion exists.
LEMMA Recursion ==
    ASSUME NEW D, NEW R, NEW rank, NEW N, NEW B, Recursive(D, R, rank, N, B)
    PROVE  \E f \in [D -> R] : \A p \in D : f[p] = B[<<f, p>>]
<1> USE DEF Recursive
<1> DEFINE Upto(f, m) == \A p \in D : rank[p] < m => f[p] = B[<<f, p>>]
           S == {m \in Nat : \E f \in [D -> R] : Upto(f, m)}
<1>1. 0 \in S
  <2>1. PICK r \in R : TRUE
    OBVIOUS
  <2>2. [p \in D |-> r] \in [D -> R] /\ \A p \in D : ~ (rank[p] < 0)
    BY <2>1
  <2>3. Upto([p \in D |-> r], 0)
    BY <2>2
  <2> QED
    BY <2>2, <2>3
<1>2. ASSUME NEW m \in S
      PROVE  m + 1 \in S
  <2>1. PICK f \in [D -> R] : Upto(f, m)
    OBVIOUS
  <2> DEFINE g == [p \in D |-> IF rank[p] < m THEN f[p] ELSE B[<<f, p>>]]
  <2>2. g \in [D -> R]
    OBVIOUS
  <2>3. ASSUME NEW p \in D, rank[p] < m + 1
        PROVE  g[p] = B[<<g, p>>]
    <3>1. \A q \in D : rank[q] < rank[p] => rank[q] < m
      BY <2>3
    <3>2. \A q \in D : rank[q] < rank[p] => f[q] = g[q]
      BY <3>1
    <3> HIDE DEF g
    <3>3. B[<<f, p>>] = B[<<g, p>>]
      BY <2>2, <3>2
    <3>4. g[p] = B[<<f, p>>]
      BY <2>1 DEF g
    <3> QED
      BY <3>3, <3>4
  <2> HIDE DEF g
  <2>4. Upto(g, m + 1)
    BY <2>3
  <2> HIDE DEF Upto
  <2> QED
    BY <2>2, <2>4
<1>3. N \in S
  <2> HIDE DEF S
  <2>1. S \in SUBSET Nat
    BY DEF S
  <2> QED
    BY <1>1, <1>2, <2>1, SetInduction
<1> QED
  BY <1>3

\* Induction over the rank, for a set.
LEMMA RankInduction ==
    ASSUME NEW D, NEW rank \in [D -> Nat], NEW S,
           \A p \in D : (\A q \in D : rank[q] < rank[p] => q \in S) => p \in S
    PROVE  D \subseteq S
<1> SUFFICES ASSUME NEW x \in D, x \notin S
             PROVE  FALSE
  OBVIOUS
<1> DEFINE T == {rank[p] : p \in D \ S}
<1>1. T \in SUBSET Nat /\ T # {}
  OBVIOUS
<1>2. PICK m \in T : \A k \in T : m <= k
  <2> HIDE DEF T
  <2> QED
    BY <1>1, LeastNumber
<1>3. PICK p \in D \ S : m = rank[p]
  OBVIOUS
<1>4. \A q \in D : rank[q] < rank[p] => q \in S
  BY <1>2, <1>3
<1> QED
  BY <1>3, <1>4

\* A function on 1 .. n is a sequence.
LEMMA FunctionIsSeq ==
    ASSUME NEW n \in Nat, NEW S, NEW f \in [1 .. n -> S]
    PROVE  f \in Seq(S) /\ Len(f) = n
BY SeqDef

\* FlattenSeq of sequences in a set that is closed under concatenation, step by
\* step: f[p] is what the first p of them make.
Flattens(f, ss, W) ==
    /\ f \in [1 .. Len(ss) -> W]
    /\ FlattenSeq(ss) = f[Len(ss)]
    /\ \A p \in 1 .. Len(ss) : f[p] = IF p = 1 THEN ss[p] ELSE f[p - 1] \o ss[p]

\* There is such a function.
LEMMA FlattenSteps ==
    ASSUME NEW W, \A a, b \in W : a \o b \in W, NEW ss \in Seq(W), Len(ss) # 0
    PROVE  \E f : Flattens(f, ss, W)
<1> DEFINE n == Len(ss)
           D == 1 .. n
           Solves(f) == f = [i \in D |-> IF i = 1 THEN ss[i] ELSE f[i - 1] \o ss[i]]
           rank == [p \in D |-> p]
           B == [x \in [D -> W] \X D |->
                   IF x[2] = 1 THEN ss[x[2]] ELSE x[1][x[2] - 1] \o ss[x[2]]]
<1>1. n \in Nat /\ n > 0 /\ \A i \in D : ss[i] \in W
  OBVIOUS
<1>2. rank \in [D -> Nat] /\ \A p \in D : rank[p] < n + 1
  BY <1>1
<1>3. \A p \in D : p # 1 => p - 1 \in D
  BY <1>1
<1>4. B \in [[D -> W] \X D -> W]
  <2>1. ASSUME NEW f \in [D -> W], NEW p \in D
        PROVE  (IF p = 1 THEN ss[p] ELSE f[p - 1] \o ss[p]) \in W
    <3>1. p # 1 => f[p - 1] \in W
      BY <1>3
    <3> QED
      BY <1>1, <3>1
  <2> HIDE DEF D
  <2> QED
    BY <2>1
<1>5. ASSUME NEW f \in [D -> W], NEW g \in [D -> W], NEW p \in D,
             \A q \in D : rank[q] < rank[p] => f[q] = g[q]
      PROVE  B[<<f, p>>] = B[<<g, p>>]
  <2>1. p # 1 => f[p - 1] = g[p - 1]
    BY <1>3, <1>5
  <2> QED
    BY <2>1
<1>6. \E f \in [D -> W] : Solves(f)
  <2>1. PICK f \in [D -> W] : \A p \in D : f[p] = B[<<f, p>>]
    <3> HIDE DEF n, D, B, rank
    <3>1. n + 1 \in Nat /\ W # {}
      BY <1>1 DEF D, n
    <3>2. PICK N : N = n + 1
      OBVIOUS
    <3>3. N \in Nat /\ \A p \in D : rank[p] < N
      BY <1>2, <3>1, <3>2
    <3>4. \A f, g \in [D -> W] : \A p \in D :
             (\A q \in D : rank[q] < rank[p] => f[q] = g[q]) => B[<<f, p>>] = B[<<g, p>>]
      BY <1>5
    <3>5. Recursive(D, W, rank, N, B)
      BY <1>2, <1>4, <3>1, <3>3, <3>4 DEF Recursive
    <3> QED
      BY <3>5, Recursion
  <2>2. \A p \in D : f[p] = IF p = 1 THEN ss[p] ELSE f[p - 1] \o ss[p]
    BY <2>1
  <2> QED
    BY <2>2
<1> DEFINE flatten == CHOOSE f : Solves(f)
<1>7. FlattenSeq(ss) = flatten[n]
  BY DEF FlattenSeq
<1>8. Solves(flatten)
  <2> HIDE DEF Solves
  <2> QED
    BY <1>6
<1>9. \A p \in D : flatten[p] = IF p = 1 THEN ss[p] ELSE flatten[p - 1] \o ss[p]
  <2> HIDE DEF flatten
  <2> QED
    BY <1>8
<1> HIDE DEF flatten
<1>10. flatten = [p \in D |-> flatten[p]]
  BY <1>8
<1> DEFINE S == {p \in D : flatten[p] \in W}
<1>11. ASSUME NEW p \in D, \A q \in D : rank[q] < rank[p] => q \in S
       PROVE  p \in S
  BY <1>1, <1>3, <1>9, <1>11
<1>12. D \subseteq S
  <2> HIDE DEF S, rank, D
  <2> QED
    BY <1>2, <1>11, RankInduction
<1>13. flatten \in [D -> W]
  BY <1>10, <1>12
<1> QED
  BY <1>7, <1>9, <1>13 DEF Flattens

\* FlattenSeq stays in a set of sequences that is closed under concatenation.
LEMMA FlattenIn ==
    ASSUME NEW W, << >> \in W, \A a, b \in W : a \o b \in W, NEW ss \in Seq(W)
    PROVE  FlattenSeq(ss) \in W
<1>1. CASE Len(ss) = 0
  <2>1. ss = << >>
    BY <1>1, EmptySeq
  <2> QED
    BY <1>1, <2>1 DEF FlattenSeq
<1>2. CASE Len(ss) # 0
  <2>1. PICK f : Flattens(f, ss, W)
    BY <1>2, FlattenSteps
  <2> QED
    BY <1>2, <2>1 DEF Flattens
<1> QED
  BY <1>1, <1>2

\* So FlattenSeq of sequences over T is a sequence over T.
LEMMA FlattenType ==
    ASSUME NEW T, NEW ss \in Seq(Seq(T))
    PROVE  FlattenSeq(ss) \in Seq(T)
<1>1. << >> \in Seq(T) /\ \A a, b \in Seq(T) : a \o b \in Seq(T)
  OBVIOUS
<1>2. PICK W : W = Seq(T)
  OBVIOUS
<1> QED
  BY <1>1, <1>2, FlattenIn

\* Only picks elements of its sequence.
LEMMA OnlyType ==
    ASSUME NEW T, NEW seq \in Seq(T), NEW S
    PROVE  Only(seq, S) \in Seq(T)
<1> DEFINE ss == [n \in DOMAIN seq |-> IF seq[n] \in S THEN <<seq[n]>> ELSE << >>]
<1>1. \A n \in DOMAIN seq : (IF seq[n] \in S THEN <<seq[n]>> ELSE << >>) \in Seq(T)
  OBVIOUS
<1>2. ss \in Seq(Seq(T))
  <2>1. PICK k \in Nat : DOMAIN seq = 1 .. k
    OBVIOUS
  <2>2. PICK W : W = Seq(T)
    OBVIOUS
  <2>3. ss = [n \in 1 .. k |-> ss[n]] /\ \A n \in 1 .. k : ss[n] \in W
    BY <1>1, <2>1, <2>2
  <2> HIDE DEF ss
  <2> QED
    BY <2>2, <2>3, FunctionIsSeq
<1> HIDE DEF ss
<1>3. FlattenSeq(ss) \in Seq(T)
  BY <1>2, FlattenType
<1> QED
  BY <1>3 DEF Only, ss

\* A function whose value at p has type R when those at lower ranks have it.
LEMMA SolutionType ==
    ASSUME NEW D, NEW R, NEW rank \in [D -> Nat], NEW g,
           \A p \in D : (\A q \in D : rank[q] < rank[p] => g[q] \in R) => g[p] \in R
    PROVE  \A p \in D : g[p] \in R
<1> DEFINE S == {p \in D : g[p] \in R}
<1>1. \A p \in D : (\A q \in D : rank[q] < rank[p] => q \in S) => p \in S
  OBVIOUS
<1>2. D \subseteq S
  <2> HIDE DEF S
  <2> QED
    BY <1>1, RankInduction
<1> QED
  BY <1>2

-----------------------------------------------------------------------------
(***************************************************************************)
(* PARSE_REQ                                                               *)
(***************************************************************************)

\* The client speaks one of the protocols.
StreamOK == proto \in DOMAIN Streams /\ stream \in Streams[proto]

\* What the assumptions say of its stream.
LEMMA StreamType ==
    ASSUME StreamOK
    PROVE  /\ stream \in Seq([op : Ops[proto], key : DOMAIN Owner])
           /\ proto \in {"binary", "text"}
           /\ Len(stream) \in Nat /\ DOMAIN stream = 1 .. Len(stream)
<1>1. proto \in DOMAIN Ops
  BY StreamsAssumption DEF StreamOK
<1>2. stream \in Seq([op : Ops[proto], key : DOMAIN Owner])
  BY StreamsAssumption DEF StreamOK
<1>3. PICK T : stream \in Seq(T)
  BY <1>2
<1>4. Len(stream) \in Nat /\ DOMAIN stream = 1 .. Len(stream)
  BY <1>3
<1> QED
  BY <1>1, <1>2, <1>4 DEF Ops

\* What PARSE_REQ returns: a result, and items of the stream.
ReqResult == [ret : {"AGAIN", "ERROR", "IGNORE", "SUCCESS"}, list : Seq(DOMAIN stream)]

\* One round of its loop, and the loop.
ReqRound(buf, f, pos) ==
    LET result(ret, list) == [ret |-> ret, list |-> list]
        i == buf[pos + 1][1]
        rest == f[pos + RequestLen(i)]
    IN  IF pos >= Len(buf) THEN result("AGAIN", << >>)
        ELSE IF IsBinary(buf[pos + 1]) # (proto = "binary") THEN result("ERROR", << >>)
        ELSE IF stream[i].op = "quit" THEN result("IGNORE", << >>)
        ELSE IF BadOpcode(i) THEN result("ERROR", << >>)
        ELSE IF TooShort(Len(buf), RequestLen(i)) THEN result("AGAIN", << >>)
        ELSE IF stream[i].op # "getkq" THEN result("SUCCESS", <<i>>)
        ELSE [rest EXCEPT !.list = <<i>> \o @]
ReqLoop(buf) == CHOOSE f : f = [pos \in 0 .. (Len(buf) + 1) |-> ReqRound(buf, f, pos)]

\* PARSE_REQ is the loop, which returns for every input, and the items it finds
\* are the client's.
LEMMA ReqLoopType ==
    ASSUME StreamOK, NEW buf \in Seq((DOMAIN stream) \X {0, 1})
    PROVE  /\ PARSE_REQ(buf) = ReqLoop(buf)[0]
           /\ \A p \in 0 .. (Len(buf) + 1) : /\ ReqLoop(buf)[p] \in ReqResult
                                             /\ ReqLoop(buf)[p] = ReqRound(buf, ReqLoop(buf), p)
<1> DEFINE n == Len(buf)
           D == 0 .. (Len(buf) + 1)
           result(ret, list) == [ret |-> ret, list |-> list]
           Body(f, pos) == ReqRound(buf, f, pos)
           rank == [p \in D |-> n + 1 - p]
           parse == ReqLoop(buf)
<1>1. n \in Nat /\ 0 \in D
  OBVIOUS
<1>2. rank \in [D -> Nat] /\ \A p \in D : rank[p] < n + 2
  BY <1>1
<1>3. ASSUME NEW p \in D, ~ (p >= n)
      PROVE  /\ buf[p + 1][1] \in DOMAIN stream
             /\ p + RequestLen(buf[p + 1][1]) \in D
             /\ rank[p + RequestLen(buf[p + 1][1])] < rank[p]
  <2>1. p + 1 \in 1 .. n
    BY <1>1, <1>3
  <2>2. buf[p + 1] \in (DOMAIN stream) \X {0, 1}
    BY <2>1
  <2>3. PICK k \in {1, 2} : k = RequestLen(buf[p + 1][1])
    BY DEF RequestLen
  <2>4. p + k \in D /\ rank[p + k] < rank[p]
    BY <1>1, <1>3
  <2> QED
    BY <2>2, <2>3, <2>4
<1>4. ASSUME NEW f, NEW p \in D, \A q \in D : rank[q] < rank[p] => f[q] \in ReqResult
      PROVE  Body(f, p) \in ReqResult
  <2>1. CASE p >= n
    BY <2>1 DEF ReqResult, ReqRound
  <2>2. CASE ~ (p >= n)
    <3> DEFINE i == buf[p + 1][1]
               rest == f[p + RequestLen(i)]
    <3>1. i \in DOMAIN stream
      BY <1>3, <2>2
    <3>2. rest \in ReqResult
      BY <1>3, <1>4, <2>2
    <3> HIDE DEF i, rest
    <3>3. [rest EXCEPT !.list = <<i>> \o @] \in ReqResult
      <4>1. PICK T : T = DOMAIN stream
        OBVIOUS
      <4>2. PICK l : l = rest.list
        OBVIOUS
      <4>3. l \in Seq(T) /\ i \in T
        BY <3>1, <3>2, <4>1, <4>2 DEF ReqResult
      <4>4. PICK m : m = <<i>> \o l
        OBVIOUS
      <4>5. m \in Seq(T)
        BY <4>3, <4>4
      <4>6. [rest EXCEPT !.list = m] \in ReqResult
        BY <3>2, <4>1, <4>5 DEF ReqResult
      <4> QED
        BY <4>2, <4>4, <4>6
    <3>4. /\ result("AGAIN", << >>) \in ReqResult
          /\ result("ERROR", << >>) \in ReqResult
          /\ result("IGNORE", << >>) \in ReqResult
          /\ result("SUCCESS", <<i>>) \in ReqResult
      BY <3>1 DEF ReqResult
    <3> HIDE DEF result
    <3>5. Body(f, p) \in {result("AGAIN", << >>), result("ERROR", << >>), result("IGNORE", << >>),
                          result("SUCCESS", <<i>>), [rest EXCEPT !.list = <<i>> \o @]}
      BY <2>2, Zenon DEF i, rest, result, ReqRound
    <3> HIDE DEF Body
    <3> QED
      BY <3>3, <3>4, <3>5
  <2> QED
    BY <2>1, <2>2
<1>5. ASSUME NEW f, NEW g, NEW p \in D, \A q \in D : rank[q] < rank[p] => f[q] = g[q]
      PROVE  Body(f, p) = Body(g, p)
  <2>1. CASE p >= n
    BY <2>1 DEF ReqRound
  <2>2. CASE ~ (p >= n)
    <3>1. f[p + RequestLen(buf[p + 1][1])] = g[p + RequestLen(buf[p + 1][1])]
      BY <1>3, <1>5, <2>2
    <3> HIDE DEF result
    <3> QED
      BY <3>1 DEF ReqRound
  <2> QED
    BY <2>1, <2>2
<1> HIDE DEF Body
<1>6. \E f : f = [pos \in D |-> Body(f, pos)]
  <2> DEFINE B == [x \in [D -> ReqResult] \X D |-> Body(x[1], x[2])]
  <2>1. B \in [[D -> ReqResult] \X D -> ReqResult]
    BY <1>4
  <2>2. \A f, g \in [D -> ReqResult] : \A p \in D :
           (\A q \in D : rank[q] < rank[p] => f[q] = g[q]) => B[<<f, p>>] = B[<<g, p>>]
    <3>1. \A f \in [D -> ReqResult] : \A p \in D : B[<<f, p>>] = Body(f, p)
      OBVIOUS
    <3> HIDE DEF D, rank, B
    <3> QED
      BY <1>5, <3>1
  <2>3. ReqResult # {} /\ n + 2 \in Nat
    <3>1. result("AGAIN", << >>) \in ReqResult
      BY DEF ReqResult
    <3> QED
      BY <1>1, <3>1
  <2>4. Recursive(D, ReqResult, rank, n + 2, B)
    <3> HIDE DEF D, rank, B, n
    <3> QED
      BY <1>2, <2>1, <2>2, <2>3 DEF Recursive
  <2>5. PICK f \in [D -> ReqResult] : \A p \in D : f[p] = B[<<f, p>>]
    <3> HIDE DEF D, rank, B, n
    <3> QED
      BY <2>4, Recursion
  <2>6. \A p \in D : f[p] = Body(f, p)
    BY <2>5
  <2> QED
    BY <2>6
<1>7. parse = [pos \in D |-> Body(parse, pos)]
  BY <1>6 DEF ReqLoop, Body
<1>8. \A p \in D : parse[p] \in ReqResult
  <2> HIDE DEF parse
  <2>1. \A p \in D : parse[p] = Body(parse, p)
    BY <1>7
  <2>2. \A p \in D : (\A q \in D : rank[q] < rank[p] => parse[q] \in ReqResult) => parse[p] \in ReqResult
    BY <1>4, <2>1
  <2> HIDE DEF D, rank
  <2> QED
    BY <1>2, <2>2, SolutionType
<1>9. PARSE_REQ(buf) = parse[0]
  BY DEF PARSE_REQ, ReqLoop, ReqRound
<1>10. \A p \in D : parse[p] = ReqRound(buf, parse, p)
  <2> HIDE DEF parse
  <2> QED
    BY <1>7 DEF Body
<1> QED
  BY <1>8, <1>9, <1>10

\* So the result of PARSE_REQ has its type.
LEMMA ParseReqType ==
    ASSUME StreamOK, NEW buf \in Seq((DOMAIN stream) \X {0, 1})
    PROVE  PARSE_REQ(buf) \in ReqResult
<1>1. 0 \in 0 .. (Len(buf) + 1)
  OBVIOUS
<1> QED
  BY <1>1, ReqLoopType

-----------------------------------------------------------------------------
(***************************************************************************)
(* PARSE_RESP                                                              *)
(***************************************************************************)

\* The units of answers and pieces of them: their parts exist, so no item is
\* without a unit.
Units == {u \in (DOMAIN stream) \X (0 .. 8) \X Hosts :
            AnswerLen(u[1]) >= 1 /\ (u[2] > 2 \/ u[2] < AnswerLen(u[1]))}

\* An answer has at most three units, in the binary protocol two.
LEMMA AnswerLenType ==
    /\ \A i : AnswerLen(i) \in 0 .. 3
    /\ StreamOK /\ proto = "binary" => \A i \in DOMAIN stream : AnswerLen(i) \in 0 .. 2
<1>1. \A i : AnswerLen(i) \in 0 .. 3
  BY DEF AnswerLen
<1>2. ASSUME StreamOK, proto = "binary", NEW i \in DOMAIN stream
      PROVE  AnswerLen(i) \in 0 .. 2
  <2>1. stream[i].op \in Ops["binary"]
    <3>1. PICK S : S = [op : Ops["binary"], key : DOMAIN Owner]
      OBVIOUS
    <3>2. stream \in Seq(S)
      BY <1>2, <3>1, StreamType
    <3>3. stream[i] \in S
      BY <1>2, <3>2
    <3> QED
      BY <3>1, <3>3
  <2>2. stream[i].op # "mget"
    BY <2>1 DEF Ops
  <2> QED
    BY <2>2 DEF AnswerLen
<1> QED
  BY <1>1, <1>2

\* Any result of the two loops of PARSE_RESP, and those whose items lie in the
\* first m units of the buffer.
AnyItem == [off : Nat, len : Int, end : BOOLEAN]
ItemsTo(m) == {x \in AnyItem : x.len >= 0 /\ x.off + x.len <= m}
Result(I, P) == [ret : SUBSET {"AGAIN", "ERROR", "SUCCESS"}, items : Seq(I), pos : P]

\* An item is put in front of the items of a result.
LEMMA PutInFront ==
    ASSUME NEW I, NEW P, NEW r \in Result(I, P), NEW x \in I
    PROVE  [r EXCEPT !.items = <<x>> \o @] \in Result(I, P)
<1>1. PICK l \in Seq(I) : l = r.items
  BY DEF Result
<1>2. PICK m : m = <<x>> \o l
  OBVIOUS
<1>3. m \in Seq(I)
  BY <1>1, <1>2
<1>4. [r EXCEPT !.items = m] \in Result(I, P)
  BY <1>3 DEF Result
<1> QED
  BY <1>1, <1>2, <1>4

\* One round of the loop for binary answers and one of that for text.
RespItem(mem, p, len) == [off |-> p, len |-> len,
                          end |-> IsBinary(mem[1]) /\ stream[mem[p + 1][1]].op = "noop"]
RespResult(ret, items, p) == [ret |-> ret, items |-> items, pos |-> p]
BinaryRound(mem, size, f, p) ==
    LET i == mem[p + 1][1]
        len == AnswerLen(i)
    IN  IF ~ IsBinary(mem[p + 1]) THEN RespResult({"ERROR"}, << >>, p)
        ELSE IF TooShort(size, len) THEN RespResult({"AGAIN"}, << >>, p)
        ELSE IF p + len < size
        THEN [f[p + len] EXCEPT !.items = <<RespItem(mem, p, len)>> \o @]
        ELSE RespResult(IF stream[i].op = "getkq" THEN {"AGAIN"} ELSE {"SUCCESS"},
                        <<RespItem(mem, p, len)>>, p + len)
TextRound(mem, size, f, p) ==
    IF p = size THEN RespResult({"SUCCESS"}, << >>, p)
    ELSE IF ~ IsValue(mem[p + 1])
    THEN RespResult({"SUCCESS"}, <<RespItem(mem, p, size - p)>>, size)
    ELSE IF TooShort(size - p, 2) THEN RespResult({"AGAIN"}, << >>, p)
    ELSE [f[p + 2] EXCEPT !.items = <<RespItem(mem, p, 2)>> \o @]

BinaryLoop(mem, size) == CHOOSE f : f = [p \in 0 .. (size + 1) |-> BinaryRound(mem, size, f, p)]
TextLoop(mem, size) == CHOOSE f : f = [p \in 0 .. (size + 1) |-> TextRound(mem, size, f, p)]

\* PARSE_RESP is one of the two loops.
LEMMA ParseRespLoops ==
    ASSUME NEW mem, NEW size \in Nat, NEW pos \in Nat
    PROVE  PARSE_RESP(mem, size, pos) =
             IF pos >= size THEN RespResult({"AGAIN", "SUCCESS"}, << >>, pos)
             ELSE IF IsBinary(mem[1]) THEN BinaryLoop(mem, size)[pos] ELSE TextLoop(mem, size)[pos]
BY DEF PARSE_RESP, BinaryLoop, TextLoop, BinaryRound, TextRound, RespItem, RespResult

\* An item at a natural offset has the type of items, whatever mem holds.
LEMMA ItemAny ==
    ASSUME NEW mem, NEW p \in Nat, NEW len \in Int
    PROVE  RespItem(mem, p, len) \in AnyItem
BY DEF RespItem, AnyItem

\* An item that ends at m or before lies in the first m units.
LEMMA ItemTo ==
    ASSUME NEW mem, NEW p \in Nat, NEW len \in Nat, NEW m \in Nat, p + len <= m
    PROVE  RespItem(mem, p, len) \in ItemsTo(m)
<1>1. RespItem(mem, p, len) \in AnyItem
  BY ItemAny
<1>2. RespItem(mem, p, len).len = len /\ RespItem(mem, p, len).off = p
  BY DEF RespItem
<1> QED
  BY <1>1, <1>2 DEF ItemsTo

\* A result without items.
LEMMA EmptyResult ==
    ASSUME NEW I, NEW P, NEW q \in P
    PROVE  /\ RespResult({"ERROR"}, << >>, q) \in Result(I, P)
           /\ RespResult({"AGAIN"}, << >>, q) \in Result(I, P)
           /\ RespResult({"SUCCESS"}, << >>, q) \in Result(I, P)
           /\ RespResult({"AGAIN", "SUCCESS"}, << >>, q) \in Result(I, P)
BY DEF RespResult, Result

\* A result with one item.
LEMMA OneResult ==
    ASSUME NEW I, NEW P, NEW q \in P, NEW x \in I
    PROVE  /\ RespResult({"AGAIN"}, <<x>>, q) \in Result(I, P)
           /\ RespResult({"SUCCESS"}, <<x>>, q) \in Result(I, P)
BY DEF RespResult, Result

\* The loop over binary answers ends for any contents of the buffer that came
\* from hosts, and finds items that lie in what has arrived (e = 0) unless the
\* last unit is the header of an answer whose body is still to come.
LEMMA BinaryLoopType ==
    ASSUME StreamOK, NEW mem \in Seq(Units), NEW size \in 1 .. Len(mem), NEW e \in {0, 1},
           e = 1 \/ size = 1 \/ AnswerLen(mem[size][1]) <= mem[size][2] + 1
    PROVE  /\ \A p \in 0 .. (size - 1) :
                 BinaryLoop(mem, size)[p] \in Result(ItemsTo(size + e), 0 .. (size + e))
           /\ \A p \in 0 .. (size + 1) :
                 BinaryLoop(mem, size)[p] = BinaryRound(mem, size, BinaryLoop(mem, size), p)
<1> DEFINE D == 0 .. (size + 1)
           L == 0 .. (size - 1)
           Loose == Result(AnyItem, Nat)
           Good == Result(ItemsTo(size + e), 0 .. (size + e))
           rank == [p \in D |-> size + 1 - p]
           rankL == [p \in L |-> size + 1 - p]
           Round(f, p) == BinaryRound(mem, size, f, p)
           loop == BinaryLoop(mem, size)
<1>1. size \in Nat /\ size >= 1 /\ size + e \in Nat /\ L \subseteq D
  OBVIOUS
<1>2. rank \in [D -> Nat] /\ (\A p \in D : rank[p] < size + 2) /\ rankL \in [L -> Nat]
  BY <1>1
<1>3. ASSUME NEW p \in L
      PROVE  /\ mem[p + 1][1] \in DOMAIN stream
             /\ mem[p + 1][2] \in 0 .. 8
             /\ AnswerLen(mem[p + 1][1]) \in 1 .. 3
             /\ IsBinary(mem[p + 1]) => AnswerLen(mem[p + 1][1]) \in 1 .. 2 /\ mem[p + 1][2] = 0
  <2>1. p + 1 \in 1 .. Len(mem)
    BY <1>1
  <2>2. mem[p + 1] \in Units
    BY <2>1
  <2>3. /\ mem[p + 1][1] \in DOMAIN stream /\ mem[p + 1][2] \in 0 .. 8
        /\ AnswerLen(mem[p + 1][1]) >= 1
    BY <2>2 DEF Units
  <2>4. AnswerLen(mem[p + 1][1]) \in 0 .. 3
    BY AnswerLenType
  <2>5. IsBinary(mem[p + 1]) => AnswerLen(mem[p + 1][1]) \in 0 .. 2 /\ mem[p + 1][2] = 0
    BY <2>3, AnswerLenType DEF IsBinary
  <2> QED
    BY <2>3, <2>4, <2>5
<1>4. ASSUME NEW f, NEW p \in D, \A q \in D : rank[q] < rank[p] => f[q] \in Loose
      PROVE  Round(f, p) \in Loose
  <2>1. PICK len \in 0 .. 3 : len = AnswerLen(mem[p + 1][1])
    BY AnswerLenType
  <2>2. p \in Nat /\ RespItem(mem, p, len) \in AnyItem
    <3>1. p \in Nat /\ len \in Int
      BY <1>1
    <3> QED
      BY <3>1, ItemAny
  <2>3. ASSUME p + len < size
        PROVE  [f[p + len] EXCEPT !.items = <<RespItem(mem, p, len)>> \o @] \in Loose
    <3>1. p \in L
      BY <1>1, <2>3
    <3>2. len >= 1
      <4>1. AnswerLen(mem[p + 1][1]) \in 1 .. 3
        BY <1>3, <3>1
      <4> QED
        BY <2>1, <4>1
    <3>3. p + len \in D /\ rank[p + len] < rank[p]
      BY <1>1, <2>3, <3>2
    <3>4. f[p + len] \in Loose
      BY <1>4, <3>3
    <3> QED
      BY <2>2, <3>4, PutInFront
  <2>4. /\ RespResult({"ERROR"}, << >>, p) \in Loose
        /\ RespResult({"AGAIN"}, << >>, p) \in Loose
        /\ RespResult({"AGAIN"}, <<RespItem(mem, p, len)>>, p + len) \in Loose
        /\ RespResult({"SUCCESS"}, <<RespItem(mem, p, len)>>, p + len) \in Loose
    <3>1. p + len \in Nat
      BY <2>2
    <3> QED
      BY <2>2, <3>1, EmptyResult, OneResult
  <2> HIDE DEF Loose
  <2> QED
    BY <2>1, <2>3, <2>4 DEF BinaryRound
<1>5. ASSUME NEW f, NEW g, NEW p \in D, \A q \in D : rank[q] < rank[p] => f[q] = g[q]
      PROVE  Round(f, p) = Round(g, p)
  <2>1. PICK len \in 0 .. 3 : len = AnswerLen(mem[p + 1][1])
    BY AnswerLenType
  <2>2. p + len < size => f[p + len] = g[p + len]
    <3> SUFFICES ASSUME p + len < size
                 PROVE  f[p + len] = g[p + len]
      OBVIOUS
    <3>1. p \in L
      BY <1>1
    <3>2. len >= 1
      <4>1. AnswerLen(mem[p + 1][1]) \in 1 .. 3
        BY <1>3, <3>1
      <4> QED
        BY <2>1, <4>1
    <3>3. p + len \in D /\ rank[p + len] < rank[p]
      BY <1>1, <3>2
    <3> QED
      BY <1>5, <3>3
  <2> QED
    BY <2>1, <2>2 DEF BinaryRound
<1> HIDE DEF Round
<1>6. \E f : f = [p \in D |-> Round(f, p)]
  <2> DEFINE B == [x \in [D -> Loose] \X D |-> Round(x[1], x[2])]
  <2> HIDE DEF Loose
  <2>1. B \in [[D -> Loose] \X D -> Loose]
    BY <1>4
  <2>2. \A f, g \in [D -> Loose] : \A p \in D :
           (\A q \in D : rank[q] < rank[p] => f[q] = g[q]) => B[<<f, p>>] = B[<<g, p>>]
    <3>1. \A f \in [D -> Loose] : \A p \in D : B[<<f, p>>] = Round(f, p)
      OBVIOUS
    <3> HIDE DEF D, rank, B
    <3> QED
      BY <1>5, <3>1
  <2>3. Loose # {} /\ size + 2 \in Nat
    <3>1. RespResult({"ERROR"}, << >>, 0) \in Loose
      BY EmptyResult DEF Loose
    <3> QED
      BY <1>1, <3>1
  <2>4. Recursive(D, Loose, rank, size + 2, B)
    <3> HIDE DEF D, rank, B
    <3> QED
      BY <1>2, <2>1, <2>2, <2>3 DEF Recursive
  <2>5. PICK f \in [D -> Loose] : \A p \in D : f[p] = B[<<f, p>>]
    <3> HIDE DEF D, rank, B
    <3> QED
      BY <2>4, Recursion
  <2>6. \A p \in D : f[p] = Round(f, p)
    BY <2>5
  <2> QED
    BY <2>6
<1>7. \A p \in D : loop[p] = Round(loop, p)
  <2>1. loop = [p \in D |-> Round(loop, p)]
    BY <1>6 DEF BinaryLoop, Round
  <2> HIDE DEF loop
  <2> QED
    BY <2>1
<1> HIDE DEF loop
<1>8. ASSUME NEW p \in L, \A q \in L : rankL[q] < rankL[p] => loop[q] \in Good
      PROVE  loop[p] \in Good
  <2>1. PICK len \in 1 .. 3 : len = AnswerLen(mem[p + 1][1])
    BY <1>3
  <2>2. p \in Nat /\ p \in 0 .. (size + e)
    BY <1>1
  <2>3. ASSUME p + len < size
        PROVE  [loop[p + len] EXCEPT !.items = <<RespItem(mem, p, len)>> \o @] \in Good
    <3>1. p + len \in L /\ rankL[p + len] < rankL[p]
      BY <1>1, <2>3
    <3>2. loop[p + len] \in Good
      BY <1>8, <3>1
    <3>3. RespItem(mem, p, len) \in ItemsTo(size + e)
      <4>1. len \in Nat /\ p + len <= size + e
        BY <1>1, <2>2, <2>3
      <4> QED
        BY <1>1, <2>2, <4>1, ItemTo
    <3> QED
      BY <3>2, <3>3, PutInFront
  <2>4. RespResult({"ERROR"}, << >>, p) \in Good /\ RespResult({"AGAIN"}, << >>, p) \in Good
    BY <2>2, EmptyResult
  <2>5. ASSUME IsBinary(mem[p + 1]), ~ TooShort(size, len), ~ (p + len < size)
        PROVE  /\ RespResult({"AGAIN"}, <<RespItem(mem, p, len)>>, p + len) \in Good
               /\ RespResult({"SUCCESS"}, <<RespItem(mem, p, len)>>, p + len) \in Good
    <3>1. len \in 1 .. 2 /\ mem[p + 1][2] = 0
      BY <1>3, <2>1, <2>5
    <3>2. p + len <= size + e
      <4> SUFFICES ASSUME p + len > size, e = 0
                   PROVE  FALSE
        BY <1>1, <2>2, <3>1
      <4>1. p + 1 = size /\ len = 2
        BY <1>1, <2>2, <3>1
      <4>2. size # 1
        BY <2>5, <4>1 DEF TooShort
      <4>3. AnswerLen(mem[size][1]) = 2 /\ mem[size][2] = 0
        BY <2>1, <3>1, <4>1
      <4> QED
        BY <4>2, <4>3
    <3>3. RespItem(mem, p, len) \in ItemsTo(size + e) /\ p + len \in 0 .. (size + e)
      <4>1. len \in Nat /\ p + len \in 0 .. (size + e)
        BY <1>1, <2>2, <3>1, <3>2
      <4> QED
        BY <1>1, <2>2, <3>2, <4>1, ItemTo
    <3>4. PICK P : P = 0 .. (size + e)
      OBVIOUS
    <3>5. PICK q : q = p + len
      OBVIOUS
    <3>6. q \in P
      BY <3>3, <3>4, <3>5
    <3> QED
      BY <3>3, <3>4, <3>5, <3>6, OneResult
  <2>6. loop[p] = Round(loop, p)
    BY <1>1, <1>7
  <2> HIDE DEF Good
  <2> QED
    BY <2>1, <2>3, <2>4, <2>5, <2>6 DEF Round, BinaryRound
<1> QED
  <2> HIDE DEF L, rankL, Good
  <2>1. \A p \in L : loop[p] \in Good
    BY <1>2, <1>8, SolutionType
  <2>2. \A p \in D : loop[p] = BinaryRound(mem, size, loop, p)
    BY <1>7 DEF Round
  <2> QED
    BY <2>1, <2>2 DEF L, Good, loop

\* The same for the loop over text answers, which never takes more than has
\* arrived.
LEMMA TextLoopType ==
    ASSUME NEW mem, NEW size \in Nat \ {0}
    PROVE  /\ \A p \in 0 .. size : TextLoop(mem, size)[p] \in Result(ItemsTo(size), 0 .. size)
           /\ \A p \in 0 .. (size + 1) :
                 TextLoop(mem, size)[p] = TextRound(mem, size, TextLoop(mem, size), p)
<1> DEFINE D == 0 .. (size + 1)
           L == 0 .. size
           Loose == Result(AnyItem, Nat)
           Good == Result(ItemsTo(size), 0 .. size)
           rank == [p \in D |-> size + 1 - p]
           rankL == [p \in L |-> size + 1 - p]
           Round(f, p) == TextRound(mem, size, f, p)
           loop == TextLoop(mem, size)
<1>1. size \in Nat /\ size >= 1 /\ L \subseteq D
  OBVIOUS
<1>2. rank \in [D -> Nat] /\ (\A p \in D : rank[p] < size + 2) /\ rankL \in [L -> Nat]
  BY <1>1
<1>3. ASSUME NEW f, NEW p \in D, \A q \in D : rank[q] < rank[p] => f[q] \in Loose
      PROVE  Round(f, p) \in Loose
  <2>1. p \in Nat /\ size - p \in Int
    BY <1>1
  <2>2. RespItem(mem, p, size - p) \in AnyItem /\ RespItem(mem, p, 2) \in AnyItem
    BY <2>1, ItemAny
  <2>3. ASSUME ~ TooShort(size - p, 2)
        PROVE  [f[p + 2] EXCEPT !.items = <<RespItem(mem, p, 2)>> \o @] \in Loose
    <3>1. p + 2 \in D /\ rank[p + 2] < rank[p]
      BY <1>1, <2>1, <2>3 DEF TooShort
    <3>2. f[p + 2] \in Loose
      BY <1>3, <3>1
    <3> QED
      BY <2>2, <3>2, PutInFront
  <2>4. /\ RespResult({"SUCCESS"}, << >>, p) \in Loose
        /\ RespResult({"AGAIN"}, << >>, p) \in Loose
        /\ RespResult({"SUCCESS"}, <<RespItem(mem, p, size - p)>>, size) \in Loose
    BY <1>1, <2>1, <2>2, EmptyResult, OneResult
  <2> HIDE DEF Loose
  <2> QED
    BY <2>3, <2>4 DEF TextRound
<1>4. ASSUME NEW f, NEW g, NEW p \in D, \A q \in D : rank[q] < rank[p] => f[q] = g[q]
      PROVE  Round(f, p) = Round(g, p)
  <2>1. ~ TooShort(size - p, 2) => f[p + 2] = g[p + 2]
    <3> SUFFICES ASSUME ~ TooShort(size - p, 2)
                 PROVE  f[p + 2] = g[p + 2]
      OBVIOUS
    <3>1. p + 2 \in D /\ rank[p + 2] < rank[p]
      BY <1>1 DEF TooShort
    <3> QED
      BY <1>4, <3>1
  <2> QED
    BY <2>1 DEF TextRound
<1> HIDE DEF Round
<1>5. \E f : f = [p \in D |-> Round(f, p)]
  <2> DEFINE B == [x \in [D -> Loose] \X D |-> Round(x[1], x[2])]
  <2> HIDE DEF Loose
  <2>1. B \in [[D -> Loose] \X D -> Loose]
    BY <1>3
  <2>2. \A f, g \in [D -> Loose] : \A p \in D :
           (\A q \in D : rank[q] < rank[p] => f[q] = g[q]) => B[<<f, p>>] = B[<<g, p>>]
    <3>1. \A f \in [D -> Loose] : \A p \in D : B[<<f, p>>] = Round(f, p)
      OBVIOUS
    <3> HIDE DEF D, rank, B
    <3> QED
      BY <1>4, <3>1
  <2>3. Loose # {} /\ size + 2 \in Nat
    <3>1. RespResult({"ERROR"}, << >>, 0) \in Loose
      BY EmptyResult DEF Loose
    <3> QED
      BY <1>1, <3>1
  <2>4. Recursive(D, Loose, rank, size + 2, B)
    <3> HIDE DEF D, rank, B
    <3> QED
      BY <1>2, <2>1, <2>2, <2>3 DEF Recursive
  <2>5. PICK f \in [D -> Loose] : \A p \in D : f[p] = B[<<f, p>>]
    <3> HIDE DEF D, rank, B
    <3> QED
      BY <2>4, Recursion
  <2>6. \A p \in D : f[p] = Round(f, p)
    BY <2>5
  <2> QED
    BY <2>6
<1>6. \A p \in D : loop[p] = Round(loop, p)
  <2>1. loop = [p \in D |-> Round(loop, p)]
    BY <1>5 DEF TextLoop, Round
  <2> HIDE DEF loop
  <2> QED
    BY <2>1
<1> HIDE DEF loop
<1>7. ASSUME NEW p \in L, \A q \in L : rankL[q] < rankL[p] => loop[q] \in Good
      PROVE  loop[p] \in Good
  <2>1. p \in Nat /\ size - p \in Nat /\ p + (size - p) <= size
    BY <1>1
  <2>2. RespItem(mem, p, size - p) \in ItemsTo(size)
    BY <1>1, <2>1, ItemTo
  <2>3. ASSUME ~ TooShort(size - p, 2)
        PROVE  [loop[p + 2] EXCEPT !.items = <<RespItem(mem, p, 2)>> \o @] \in Good
    <3>1. p + 2 \in L /\ rankL[p + 2] < rankL[p] /\ p + 2 <= size
      BY <1>1, <2>1, <2>3 DEF TooShort
    <3>2. loop[p + 2] \in Good
      BY <1>7, <3>1
    <3>3. RespItem(mem, p, 2) \in ItemsTo(size)
      BY <1>1, <2>1, <3>1, ItemTo
    <3> QED
      BY <3>2, <3>3, PutInFront
  <2>4. size \in L
    BY <1>1
  <2>5. /\ RespResult({"SUCCESS"}, << >>, p) \in Good
        /\ RespResult({"AGAIN"}, << >>, p) \in Good
        /\ RespResult({"SUCCESS"}, <<RespItem(mem, p, size - p)>>, size) \in Good
    BY <2>2, <2>4, EmptyResult, OneResult
  <2>6. loop[p] = Round(loop, p)
    BY <1>1, <1>6
  <2> HIDE DEF Good
  <2> QED
    BY <2>3, <2>5, <2>6 DEF Round, TextRound
<1> QED
  <2> HIDE DEF L, rankL, Good
  <2>1. \A p \in L : loop[p] \in Good
    BY <1>2, <1>7, SolutionType
  <2>2. \A p \in D : loop[p] = TextRound(mem, size, loop, p)
    BY <1>6 DEF Round
  <2> QED
    BY <2>1, <2>2 DEF L, Good, loop

\* What PARSE_RESP returns for a buffer that holds units of answers.
LEMMA ParseRespType ==
    ASSUME StreamOK, NEW mem \in Seq(Units), NEW size \in 1 .. Len(mem), NEW pos \in Nat,
           pos < size, NEW e \in {0, 1},
           e = 1 \/ size = 1 \/ AnswerLen(mem[size][1]) <= mem[size][2] + 1
    PROVE  PARSE_RESP(mem, size, pos) \in Result(ItemsTo(size + e), 0 .. (size + e))
<1>1. size \in Nat \ {0} /\ pos \in 0 .. size /\ pos \in 0 .. (size - 1) /\ ~ (pos >= size)
  OBVIOUS
<1>2. PARSE_RESP(mem, size, pos) =
         IF IsBinary(mem[1]) THEN BinaryLoop(mem, size)[pos] ELSE TextLoop(mem, size)[pos]
  BY <1>1, ParseRespLoops
<1>3. BinaryLoop(mem, size)[pos] \in Result(ItemsTo(size + e), 0 .. (size + e))
  BY <1>1, BinaryLoopType
<1>4. TextLoop(mem, size)[pos] \in Result(ItemsTo(size + e), 0 .. (size + e))
  <2>1. TextLoop(mem, size)[pos] \in Result(ItemsTo(size), 0 .. size)
    BY <1>1, TextLoopType
  <2>2. ItemsTo(size) \subseteq ItemsTo(size + e) /\ 0 .. size \subseteq 0 .. (size + e)
    BY <1>1 DEF ItemsTo, AnyItem
  <2>3. Seq(ItemsTo(size)) \subseteq Seq(ItemsTo(size + e))
    BY <2>2, SeqMonotonic
  <2> QED
    BY <2>1, <2>2, <2>3 DEF Result
<1> QED
  BY <1>2, <1>3, <1>4

-----------------------------------------------------------------------------
(***************************************************************************)
(* Messages and groups                                                     *)
(***************************************************************************)

\* The client's bytes are parts of its items.
LEMMA BytesType ==
    ASSUME StreamOK
    PROVE  Bytes \in Seq((DOMAIN stream) \X {0, 1})
<1>1. PICK T : T = (DOMAIN stream) \X {0, 1}
  OBVIOUS
<1>2. PICK n \in Nat : DOMAIN stream = 1 .. n
  BY StreamType
<1> DEFINE part(i) == [p \in 1 .. RequestLen(i) |-> <<i, p - 1>>]
           ss == [i \in DOMAIN stream |-> part(i)]
<1>3. ASSUME NEW i \in DOMAIN stream
      PROVE  part(i) \in Seq(T)
  <2>1. PICK k \in {1, 2} : k = RequestLen(i)
    BY DEF RequestLen
  <2>2. \A p \in 1 .. k : p - 1 \in {0, 1}
    BY <2>1
  <2>3. [p \in 1 .. k |-> <<i, p - 1>>] \in [1 .. k -> T]
    BY <1>1, <2>2
  <2>4. part(i) \in [1 .. k -> T] /\ k \in Nat
    BY <2>1, <2>3
  <2> HIDE DEF part
  <2> QED
    BY <2>4, FunctionIsSeq
<1> HIDE DEF part
<1>4. ss \in [1 .. n -> Seq(T)]
  BY <1>2, <1>3
<1> HIDE DEF ss
<1>5. PICK W : W = Seq(T)
  OBVIOUS
<1>6. ss \in Seq(W)
  BY <1>4, <1>5, FunctionIsSeq
<1>7. FlattenSeq(ss) \in Seq(T)
  BY <1>5, <1>6, FlattenType
<1> QED
  BY <1>1, <1>7 DEF Bytes, ss, part

\* An answer that has begun goes on in the next unit: what ends a sequence, or
\* comes before another answer, is the last part of its answer.
Whole(s) == \A k \in DOMAIN s :
    s[k][2] + 1 < AnswerLen(s[k][1]) => k < Len(s) /\ s[k + 1][2] # 0

WholeSeqs == {s \in Seq(Units) : Whole(s)}

\* Whole sequences one after the other are whole.
LEMMA WholeConcat ==
    ASSUME NEW a \in WholeSeqs, NEW b \in WholeSeqs
    PROVE  a \o b \in WholeSeqs
<1>1. PICK U : U = Units
  OBVIOUS
<1>2. a \in Seq(U) /\ b \in Seq(U) /\ Whole(a) /\ Whole(b)
  BY <1>1 DEF WholeSeqs
<1>3. a \o b \in Seq(U)
  BY <1>2
<1>4. ASSUME NEW k \in DOMAIN (a \o b), (a \o b)[k][2] + 1 < AnswerLen((a \o b)[k][1])
      PROVE  k < Len(a \o b) /\ (a \o b)[k + 1][2] # 0
  <2>1. /\ Len(a) \in Nat /\ Len(b) \in Nat /\ Len(a \o b) = Len(a) + Len(b)
        /\ k \in 1 .. (Len(a) + Len(b))
    BY <1>2
  <2>2. CASE k <= Len(a)
    <3>1. k \in DOMAIN a /\ (a \o b)[k] = a[k]
      BY <1>2, <2>1, <2>2
    <3>2. k < Len(a) /\ a[k + 1][2] # 0
      BY <1>2, <1>4, <3>1 DEF Whole
    <3>3. (a \o b)[k + 1] = a[k + 1]
      BY <1>2, <2>1, <3>2
    <3> QED
      BY <2>1, <3>2, <3>3
  <2>3. CASE ~ (k <= Len(a))
    <3>1. PICK j \in 1 .. Len(b) : k = Len(a) + j
      <4>1. k - Len(a) \in 1 .. Len(b) /\ k = Len(a) + (k - Len(a))
        BY <2>1, <2>3
      <4> QED
        BY <4>1
    <3>2. j \in DOMAIN b /\ (a \o b)[k] = b[j]
      BY <1>2, <2>1, <3>1
    <3>3. j < Len(b) /\ b[j + 1][2] # 0
      BY <1>2, <1>4, <3>2 DEF Whole
    <3>4. (a \o b)[k + 1] = b[j + 1]
      BY <1>2, <2>1, <3>1, <3>3
    <3> QED
      BY <2>1, <3>1, <3>3, <3>4
  <2> QED
    BY <2>2, <2>3
<1> QED
  BY <1>1, <1>3, <1>4 DEF WholeSeqs, Whole

\* What is left of a whole sequence when its first n units are gone is whole.
LEMMA WholeRest ==
    ASSUME NEW a \in WholeSeqs, NEW n \in 1 .. Len(a)
    PROVE  SubSeq(a, n + 1, Len(a)) \in WholeSeqs
<1>1. PICK U : U = Units
  OBVIOUS
<1>2. a \in Seq(U) /\ Whole(a) /\ Len(a) \in Nat
  BY <1>1 DEF WholeSeqs
<1>3. PICK b : b = SubSeq(a, n + 1, Len(a))
  OBVIOUS
<1>4. b \in Seq(U) /\ Len(b) = Len(a) - n /\ \A k \in 1 .. (Len(a) - n) : b[k] = a[n + k]
  BY <1>2, <1>3, SubSeqProperties
<1>5. ASSUME NEW k \in DOMAIN b, b[k][2] + 1 < AnswerLen(b[k][1])
      PROVE  k < Len(b) /\ b[k + 1][2] # 0
  <2>1. k \in 1 .. (Len(a) - n) /\ n + k \in DOMAIN a /\ b[k] = a[n + k]
    BY <1>2, <1>4
  <2>2. n + k < Len(a) /\ a[(n + k) + 1][2] # 0
    BY <1>2, <1>5, <2>1 DEF Whole
  <2>3. k + 1 \in 1 .. (Len(a) - n) /\ n + (k + 1) = (n + k) + 1
    BY <1>2, <2>1, <2>2
  <2>4. b[k + 1] = a[n + (k + 1)]
    BY <1>4, <2>3
  <2> QED
    BY <1>2, <1>4, <2>2, <2>3, <2>4
<1> QED
  BY <1>1, <1>3, <1>4, <1>5 DEF WholeSeqs, Whole

\* What a host answers to its items is whole.
LEMMA AnswersWhole ==
    ASSUME NEW h \in Hosts, NEW items \in Seq(DOMAIN stream)
    PROVE  Answers(h, items) \in WholeSeqs
<1>1. << >> \in WholeSeqs
  BY DEF WholeSeqs, Whole
<1>2. ASSUME NEW i \in DOMAIN stream
      PROVE  Answer(h, i) \in WholeSeqs
  <2>1. PICK len \in 0 .. 3 : len = AnswerLen(i)
    BY AnswerLenType
  <2>2. PICK U : U = Units
    OBVIOUS
  <2>3. PICK a : a = [p \in 1 .. len |-> <<i, p - 1, h>>]
    OBVIOUS
  <2>4. ASSUME NEW p \in 1 .. len
        PROVE  a[p] = <<i, p - 1, h>> /\ a[p] \in U
    <3>1. a[p] = <<i, p - 1, h>>
      BY <2>3
    <3>2. p - 1 \in 0 .. 8 /\ p - 1 < AnswerLen(i) /\ AnswerLen(i) >= 1
      BY <2>1
    <3>3. <<i, p - 1, h>> \in Units
      BY <3>2 DEF Units
    <3> QED
      BY <2>2, <3>1, <3>3
  <2>5. a \in [1 .. len -> U] /\ len \in Nat
    BY <2>3, <2>4
  <2>6. a \in Seq(U) /\ Len(a) = len
    BY <2>5, FunctionIsSeq
  <2>7. ASSUME NEW k \in DOMAIN a, a[k][2] + 1 < AnswerLen(a[k][1])
        PROVE  k < Len(a) /\ a[k + 1][2] # 0
    <3>1. k \in 1 .. len /\ a[k][2] = k - 1 /\ a[k][1] = i
      BY <2>4, <2>5
    <3>2. k < len
      BY <2>1, <2>7, <3>1
    <3>3. a[k + 1] = <<i, (k + 1) - 1, h>>
      BY <2>4, <3>1, <3>2
    <3> QED
      BY <2>6, <3>1, <3>2, <3>3
  <2>8. a \in WholeSeqs
    BY <2>2, <2>6, <2>7 DEF WholeSeqs, Whole
  <2> QED
    BY <2>1, <2>3, <2>8 DEF Answer
<1> DEFINE ss == [n \in DOMAIN items |-> Answer(h, items[n])]
<1>3. ss \in Seq(WholeSeqs)
  <2>1. PICK T : T = DOMAIN stream
    OBVIOUS
  <2>2. items \in Seq(T)
    BY <2>1
  <2>3. PICK n \in Nat : DOMAIN items = 1 .. n
    BY <2>2
  <2>4. \A k \in DOMAIN items : items[k] \in DOMAIN stream
    BY <2>1, <2>2
  <2>5. ss \in [1 .. n -> WholeSeqs]
    BY <1>2, <2>3, <2>4
  <2> HIDE DEF ss
  <2> QED
    BY <2>3, <2>5, FunctionIsSeq
<1> HIDE DEF ss
<1>4. FlattenSeq(ss) \in WholeSeqs
  <2>1. PICK W : W = WholeSeqs
    OBVIOUS
  <2>2. << >> \in W /\ ss \in Seq(W) /\ \A a, b \in W : a \o b \in W
    BY <1>1, <1>3, <2>1, WholeConcat
  <2> QED
    BY <2>1, <2>2, FlattenIn
<1> QED
  BY <1>4 DEF Answers, ss

\* The last element of a sequence.
LEMMA LastType ==
    ASSUME NEW T, NEW s \in Seq(T), s # << >>
    PROVE  <<Last(s)>> \in Seq(T) /\ Last(s) \in T
BY EmptySeq DEF Last

\* CREATE_REQ forwards items of the client.
LEMMA CreateReqType ==
    ASSUME NEW items \in Seq(DOMAIN stream)
    PROVE  CREATE_REQ(items) \in Seq(DOMAIN stream)
<1>1. PICK T : T = DOMAIN stream
  OBVIOUS
<1>2. PICK a, b : a = Only(items, With({"noop"})) /\ b = Only(items, DOMAIN stream \ With({"noop"}))
  OBVIOUS
<1>3. a \in Seq(T) /\ b \in Seq(T)
  BY <1>1, <1>2, OnlyType
<1>4. PICK c : c = IF a = << >> THEN << >> ELSE <<Last(a)>>
  OBVIOUS
<1>5. c \in Seq(T)
  BY <1>3, <1>4, LastType
<1>6. b \o c \in Seq(T)
  BY <1>3, <1>5
<1> QED
  BY <1>1, <1>2, <1>4, <1>6 DEF CREATE_REQ

\* A group: items of the client for each of some hosts.
GroupIn(group, T) == /\ DOMAIN group \subseteq Hosts
                     /\ \A h \in DOMAIN group : group[h] \in Seq(T)
GroupOK(group) == GroupIn(group, DOMAIN stream)

\* The items of a list by the hosts of a table are a group.
LEMMA GroupedType ==
    ASSUME NEW list \in Seq(DOMAIN stream), NEW table
    PROVE  GroupOK(Grouped(list, table))
<1>1. \A h \in Hosts : Keyed(list, table, h) \in Seq(DOMAIN stream)
  BY OnlyType DEF Keyed
<1> QED
  BY <1>1 DEF Grouped, GroupOK, GroupIn

\* The groups of the first and of the second round.
LEMMA CreateGroups ==
    ASSUME NEW list \in Seq(DOMAIN stream)
    PROVE  GroupOK(createReqGroup(list)) /\ GroupOK(createSyncGroup(list))
<1>1. PICK group : group = Grouped(list, Owner)
  OBVIOUS
<1>2. PICK T : T = DOMAIN stream
  OBVIOUS
<1>3. PICK each : each = Only(list, With({"noop"}))
  OBVIOUS
<1>4. GroupOK(group) /\ each \in Seq(T)
  BY <1>1, <1>2, <1>3, GroupedType, OnlyType
<1>5. \A h \in DOMAIN group : group[h] \o each \in Seq(T)
  BY <1>2, <1>4 DEF GroupOK, GroupIn
<1>6. GroupOK(createReqGroup(list))
  BY <1>1, <1>2, <1>3, <1>4, <1>5 DEF createReqGroup, GroupOK, GroupIn
<1>7. Only(list, {i \in With({"set"}) : stream[i].key \in SyncKeys}) \in Seq(DOMAIN stream)
  BY OnlyType
<1> QED
  BY <1>6, <1>7, GroupedType DEF createSyncGroup

\* The host that is visited next is one of the group.
LEMMA HostInGroup ==
    ASSUME DOMAIN req_group \subseteq Hosts, DOMAIN req_group # {}
    PROVE  Host \in DOMAIN req_group /\ Host \in Hosts
<1>1. DOMAIN req_group \in SUBSET Nat
  BY HostsAssumption
<1>2. \E h \in DOMAIN req_group : \A g \in DOMAIN req_group : h <= g
  BY <1>1, LeastNumber
<1> QED
  BY <1>2 DEF Host

-----------------------------------------------------------------------------
(***************************************************************************)
(* The type invariant                                                      *)
(***************************************************************************)

\* How far an answer may be taken before it has arrived.
Ahead == IF torn = 0 THEN 0 ELSE 1

\* The inductive invariant, for the units U of answers, the units A of
\* responses, the sequences W of whole answers, the items T of the stream and
\* the number b of its bytes: TypeOK, and that the wires hold whole answers,
\* the groups items of the client, and resp_list pointers into resp_buf.
Shape(U, A, W, T, b) ==
    /\ sent \in 0 .. b
    /\ read_buf \in Seq(T \X {0, 1})
    /\ pc \in {"wait", "read", "talk", "recv", "reply"}
    /\ GroupIn(req_group, T) /\ GroupIn(sync_group, T)
    /\ pc = "recv" => DOMAIN req_group # {}
    /\ wire \in [Hosts -> W]
    /\ resp_buf \in Seq(U)
    /\ client_buf \in Seq(A) /\ replies \in Seq(Seq(A))
    /\ torn \in 0 .. (Len(replies) + 1)
    /\ st_cont_fail \in [Hosts -> Nat]
    /\ resp_buf_len \in 0 .. Len(resp_buf)
    /\ position \in 0 .. (resp_buf_len + Ahead)
    /\ resp_list \in Seq(ItemsTo(Len(resp_buf) + Ahead))
TypeInv == StreamOK /\ Shape(Units, AnswerUnit, WholeSeqs, DOMAIN stream, Len(Bytes))

\* What CREATE_RESP copies are units of answers, or what lies behind them.
LEMMA CreateRespType ==
    ASSUME StreamOK, resp_buf \in Seq(Units), NEW m, resp_list \in Seq(ItemsTo(m))
    PROVE  CREATE_RESP \in Seq(AnswerUnit)
<1>1. PICK A : A = AnswerUnit
  OBVIOUS
<1>2. Units \subseteq A /\ JUNK \in A
  BY <1>1, StreamType DEF Units, AnswerUnit, JUNK
<1>3. ASSUME NEW x \in ItemsTo(m)
      PROVE  Content(x) \in Seq(A)
  <2>1. x.len \in Nat /\ x.off \in Nat
    BY DEF ItemsTo, AnyItem
  <2>2. PICK len \in Nat : len = x.len
    BY <2>1
  <2>3. ASSUME NEW k \in 1 .. len
        PROVE  (IF x.off + k <= Len(resp_buf) THEN resp_buf[x.off + k] ELSE JUNK) \in A
    <3>1. PICK U, buf : U = Units /\ buf = resp_buf
      OBVIOUS
    <3>2. buf \in Seq(U)
      BY <3>1
    <3>3. x.off + k <= Len(buf) => buf[x.off + k] \in U
      BY <2>1, <3>2
    <3> QED
      BY <1>2, <3>1, <3>3
  <2>4. Content(x) \in [1 .. len -> A]
    BY <2>2, <2>3 DEF Content
  <2> QED
    BY <2>4, FunctionIsSeq
<1>4. PICK I : I = ItemsTo(m)
  OBVIOUS
<1>5. PICK ends, others : /\ ends = Only(resp_list, {x \in Range(resp_list) : x.end})
                          /\ others = Only(resp_list, {x \in Range(resp_list) : ~ x.end})
  OBVIOUS
<1>6. ends \in Seq(I) /\ others \in Seq(I)
  BY <1>4, <1>5, OnlyType
<1>7. PICK copy : copy = [n \in DOMAIN others |-> Content(others[n])]
  OBVIOUS
<1>8. FlattenSeq(copy) \in Seq(A)
  <2>1. PICK n \in Nat : DOMAIN others = 1 .. n
    BY <1>6
  <2>2. \A k \in 1 .. n : others[k] \in I
    BY <1>6, <2>1
  <2>3. PICK W : W = Seq(A)
    OBVIOUS
  <2>4. copy \in [1 .. n -> W]
    BY <1>3, <1>4, <1>7, <2>1, <2>2, <2>3
  <2>5. copy \in Seq(W)
    BY <2>4, FunctionIsSeq
  <2> QED
    BY <2>3, <2>5, FlattenType
<1>9. PICK last : last = IF ends = << >> THEN << >> ELSE Content(Last(ends))
  OBVIOUS
<1>10. last \in Seq(A)
  BY <1>3, <1>4, <1>6, <1>9, LastType
<1>11. FlattenSeq(copy) \o last \in Seq(A)
  BY <1>8, <1>10
<1> QED
  BY <1>1, <1>5, <1>7, <1>9, <1>11 DEF CREATE_RESP

\* What buf holds after its units from old + 1 to len were received from w.
Memory(buf, old, w, len) ==
    [k \in 1 .. (IF len < Len(buf) THEN Len(buf) ELSE len) |->
       IF k \in (old + 1) .. len THEN w[k - old] ELSE buf[k]]

\* That is what Received says, for whole units and for a piece at the end.
LEMMA ReceivedMemory ==
    ASSUME NEW U, NEW w \in Seq(U), NEW n \in 0 .. Len(w), resp_buf_len \in Nat
    PROVE  /\ Received(SubSeq(w, 1, n)) = Memory(resp_buf, resp_buf_len, w, resp_buf_len + n)
           /\ Received(w) = Memory(resp_buf, resp_buf_len, w, resp_buf_len + Len(w))
<1>1. PICK old, v : old = resp_buf_len /\ v = SubSeq(w, 1, n) /\ old \in Nat
  OBVIOUS
<1>2. n \in Nat /\ Len(v) = n /\ \A k \in 1 .. n : v[k] = w[k]
  BY ONLY <1>1, w \in Seq(U), n \in 0 .. Len(w), SubSeqProperties
<1>3. \A k \in (old + 1) .. (old + n) : v[k - old] = w[k - old]
  <2> SUFFICES ASSUME NEW k \in (old + 1) .. (old + n)
               PROVE  v[k - old] = w[k - old]
    OBVIOUS
  <2>1. k - old \in 1 .. n
    BY <1>1, <1>2
  <2> QED
    BY <1>2, <2>1
<1>4. Received(v) = Memory(resp_buf, old, w, old + n)
  <2>1. Received(v) =
          [k \in 1 .. (IF old + n < Len(resp_buf) THEN Len(resp_buf) ELSE old + n) |->
             IF k \in (old + 1) .. (old + n) THEN v[k - old] ELSE resp_buf[k]]
    BY <1>1, <1>2, Zenon DEF Received
  <2> QED
    BY <1>3, <2>1, Zenon DEF Memory
<1>5. Received(w) = Memory(resp_buf, resp_buf_len, w, resp_buf_len + Len(w))
  BY Zenon DEF Received, Memory
<1> QED
  BY <1>1, <1>4, <1>5

\* One recv() into buf, of which the current host has filled old units, and
\* PARSE_RESP: the items found lie in what has arrived, or one unit ahead.
LEMMA RecvParse ==
    ASSUME StreamOK, NEW buf \in Seq(Units), NEW old \in 0 .. Len(buf),
           NEW w \in Seq(Units), NEW n \in 1 .. Len(w), NEW e \in {0, 1}, e = 1 \/ Whole(w),
           NEW pos \in 0 .. (old + e),
           NEW len, len = old + n, NEW mem, mem = Memory(buf, old, w, len),
           n < Len(w) => e = 1 \/ len = 1 \/ w[n + 1][2] = 0
    PROVE  /\ mem \in Seq(Units) /\ len \in 1 .. Len(mem) /\ Len(buf) <= Len(mem)
           /\ PARSE_RESP(mem, len, pos) \in Result(ItemsTo(len + e), 0 .. (len + e))
<1>1. PICK U : U = Units
  OBVIOUS
<1>2. buf \in Seq(U) /\ w \in Seq(U) /\ Len(buf) \in Nat /\ Len(w) \in Nat
  BY <1>1
<1>3. old \in Nat /\ len \in Nat /\ len >= 1
  BY <1>2
<1>4. PICK m \in Nat : m = IF len < Len(buf) THEN Len(buf) ELSE len
  BY <1>2, <1>3
<1>5. m >= len /\ m >= Len(buf)
  BY <1>2, <1>3, <1>4
<1>6. mem = [k \in 1 .. m |-> IF k \in (old + 1) .. len THEN w[k - old] ELSE buf[k]]
  BY <1>4 DEF Memory
<1>7. ASSUME NEW k \in 1 .. m
      PROVE  (IF k \in (old + 1) .. len THEN w[k - old] ELSE buf[k]) \in U
  <2>1. CASE k \in (old + 1) .. len
    <3>1. k - old \in 1 .. Len(w)
      BY <1>2, <1>3, <2>1
    <3> QED
      BY <1>2, <2>1, <3>1
  <2>2. CASE k \notin (old + 1) .. len
    <3>1. k \in 1 .. Len(buf)
      BY <1>2, <1>3, <1>4, <2>2
    <3> QED
      BY <1>2, <2>2, <3>1
  <2> QED
    BY <2>1, <2>2
<1>8. mem \in [1 .. m -> U]
  BY <1>6, <1>7
<1>9. mem \in Seq(U) /\ Len(mem) = m
  <2>1. PICK f : f = mem
    OBVIOUS
  <2>2. f \in [1 .. m -> U]
    BY <1>8, <2>1
  <2>3. f \in Seq(U) /\ Len(f) = m
    BY ONLY m \in Nat, <2>2, FunctionIsSeq
  <2> QED
    BY <2>1, <2>3
<1>10. mem[len] = w[n]
  <2>1. len \in 1 .. m /\ len \in (old + 1) .. len /\ len - old = n
    BY <1>2, <1>3, <1>5
  <2> QED
    BY <1>6, <2>1
<1>11. e = 1 \/ len = 1 \/ AnswerLen(mem[len][1]) <= mem[len][2] + 1
  <2> SUFFICES ASSUME e # 1, len # 1, ~ (AnswerLen(w[n][1]) <= w[n][2] + 1)
               PROVE  FALSE
    BY <1>10
  <2>1. w[n] \in Units
    BY <1>1, <1>2
  <2>2. w[n][2] \in Nat /\ AnswerLen(w[n][1]) \in Nat
    BY <2>1, AnswerLenType DEF Units
  <2>3. w[n][2] + 1 < AnswerLen(w[n][1])
    BY <2>2
  <2>4. n < Len(w) /\ w[n + 1][2] # 0
    BY <1>2, <2>3 DEF Whole
  <2> QED
    BY <2>4
<1>12. PARSE_RESP(mem, len, pos) \in Result(ItemsTo(len + e), 0 .. (len + e))
  <2>1. pos \in Nat /\ pos \in 0 .. (len + e)
    BY <1>2, <1>3
  <2>2. CASE pos >= len
    <3>1. PARSE_RESP(mem, len, pos) = RespResult({"AGAIN", "SUCCESS"}, << >>, pos)
      BY <1>3, <2>1, <2>2, ParseRespLoops
    <3> QED
      BY <2>1, <3>1, EmptyResult
  <2>3. CASE ~ (pos >= len)
    <3>1. pos < len /\ len \in 1 .. Len(mem) /\ mem \in Seq(Units)
      BY <1>1, <1>3, <1>5, <1>9, <2>1, <2>3
    <3> QED
      BY <1>3, <1>11, <2>1, <3>1, ParseRespType
  <2> QED
    BY <2>2, <2>3
<1> QED
  BY <1>1, <1>2, <1>3, <1>5, <1>9, <1>12

\* U, A, W, T and b are what Shape is about in the current state.
Names(U, A, W, T, b) ==
    /\ StreamOK
    /\ U = Units /\ A = AnswerUnit /\ W = WholeSeqs /\ T = DOMAIN stream /\ b = Len(Bytes)

\* Bytes arrive from the client.
LEMMA ShapeArrive ==
    ASSUME NEW U, NEW A, NEW W, NEW T, NEW b,
           Names(U, A, W, T, b), Shape(U, A, W, T, b), Arrive
    PROVE  Shape(U, A, W, T, b)'
<1>1. PICK n \in (sent + 1) .. Len(Bytes) :
         read_buf' = read_buf \o SubSeq(Bytes, sent + 1, n) /\ sent' = n
  BY DEF Arrive
<1>2. PICK X, s : X = T \X {0, 1} /\ s = Bytes
  OBVIOUS
<1>3. s \in Seq(X) /\ b = Len(s) /\ read_buf \in Seq(X)
  BY <1>2, BytesType DEF Names, Shape
<1>4. sent \in Nat /\ sent + 1 \in 1 .. (Len(s) + 1) /\ n \in (sent + 1) .. Len(s) /\ b \in Nat
  BY <1>1, <1>2, <1>3 DEF Shape
<1>5. SubSeq(s, sent + 1, n) \in Seq(X)
  BY <1>3, <1>4, SubSeqProperties
<1>6. read_buf \o SubSeq(s, sent + 1, n) \in Seq(X)
  BY <1>3, <1>5
<1>7. read_buf' \in Seq(T \X {0, 1})
  BY <1>1, <1>2, <1>6
<1>8. sent' \in 0 .. b
  BY <1>1, <1>3, <1>4
<1> QED
  BY <1>7, <1>8 DEF Shape, Arrive, backend, Ahead

\* A request is read.
LEMMA ShapeReadEvent ==
    ASSUME NEW U, NEW A, NEW W, NEW T, NEW b,
           Names(U, A, W, T, b), Shape(U, A, W, T, b), ReadEvent
    PROVE  Shape(U, A, W, T, b)'
<1>1. PICK r : r = PARSE_REQ(read_buf)
  OBVIOUS
<1>2. read_buf \in Seq((DOMAIN stream) \X {0, 1})
  BY DEF Names, Shape
<1>3. r \in ReqResult
  BY <1>1, <1>2, ParseReqType DEF Names
<1>4. r.list \in Seq(DOMAIN stream)
  BY <1>3 DEF ReqResult
<1>5. /\ pc' = "talk" \/ pc' = "wait"
      /\ GroupIn(req_group', T) /\ GroupIn(sync_group', T)
  <2>1. GroupIn(createReqGroup(r.list), T) /\ GroupIn(createSyncGroup(r.list), T)
    BY <1>4, CreateGroups DEF GroupOK, Names
  <2>2. \/ /\ pc' = "talk"
           /\ req_group' = createReqGroup(r.list) /\ sync_group' = createSyncGroup(r.list)
        \/ pc' = "wait" /\ req_group' = req_group /\ sync_group' = sync_group
    BY <1>1, Zenon DEF ReadEvent
  <2> QED
    BY <2>1, <2>2 DEF Shape
<1>6. read_buf' \in Seq(T \X {0, 1})
  <2>1. read_buf' = read_buf \/ read_buf' = << >>
    BY <1>1, Zenon DEF ReadEvent
  <2>2. read_buf \in Seq(T \X {0, 1}) /\ << >> \in Seq(T \X {0, 1})
    BY DEF Shape
  <2> QED
    BY <2>1, <2>2
<1>7. replies' \in Seq(Seq(A))
  <2>1. replies' = replies \/ replies' = Append(replies, << >>)
    BY <1>1, Zenon DEF ReadEvent
  <2>2. PICK Z : Z = Seq(A)
    OBVIOUS
  <2>3. replies \in Seq(Z) /\ << >> \in Z
    BY <2>2 DEF Shape
  <2>4. Append(replies, << >>) \in Seq(Z)
    BY <2>3
  <2> QED
    BY <2>1, <2>2, <2>3, <2>4
<1>8. UNCHANGED <<sent, wire, resp_buf, resp_buf_len, position, resp_list, client_buf, st_cont_fail,
                  torn>>
  BY DEF ReadEvent, backend
<1>9. torn' \in 0 .. (Len(replies') + 1)
  <2>1. replies' = replies \/ replies' = Append(replies, << >>)
    BY <1>1, Zenon DEF ReadEvent
  <2>2. Len(replies') \in Nat /\ Len(replies) \in Nat /\ Len(replies') >= Len(replies)
    BY <2>1 DEF Shape
  <2> QED
    BY <1>8, <2>2 DEF Shape
<1> QED
  BY <1>5, <1>6, <1>7, <1>8, <1>9 DEF Shape, Ahead

\* The items are forwarded to a host, which answers them.
LEMMA ShapeForward ==
    ASSUME NEW U, NEW A, NEW W, NEW T, NEW b,
           Names(U, A, W, T, b), Shape(U, A, W, T, b), Forward
    PROVE  Shape(U, A, W, T, b)'
<1>1. Host \in DOMAIN req_group /\ Host \in Hosts
  BY HostInGroup DEF Forward, Shape, GroupIn
<1>2. PICK h : h = Host
  OBVIOUS
<1>3. req_group[h] \in Seq(DOMAIN stream)
  BY <1>1, <1>2 DEF Shape, GroupIn, Names
<1>4. Answers(h, CREATE_REQ(req_group[h])) \in WholeSeqs
  BY <1>1, <1>2, <1>3, CreateReqType, AnswersWhole
<1>5. PICK a : a = Answers(h, CREATE_REQ(req_group[h]))
  OBVIOUS
<1>6. a \in W /\ wire[h] \in W /\ wire[h] \o a \in W
  BY <1>1, <1>2, <1>4, <1>5, WholeConcat DEF Names, Shape
<1>7. wire' = [wire EXCEPT ![h] = IF h \in Dead THEN wire[h] ELSE wire[h] \o a]
  BY <1>2, <1>5 DEF Forward
<1>8. wire' \in [Hosts -> W]
  BY <1>6, <1>7 DEF Shape
<1>9. resp_buf_len' \in 0 .. Len(resp_buf) /\ position' \in 0 .. (resp_buf_len' + Ahead)
  BY DEF Forward, Shape, Ahead
<1>10. DOMAIN req_group # {}
       /\ UNCHANGED <<sent, read_buf, req_group, sync_group, resp_buf, resp_list, client_buf,
                      st_cont_fail, replies, torn>>
  BY DEF Forward, client
<1>11. pc' = "recv"
  BY DEF Forward
<1> QED
  BY <1>8, <1>9, <1>10, <1>11 DEF Shape, Ahead

\* The worker goes on to the next host of the group.
LEMMA NextHostType ==
    ASSUME NEW T, GroupIn(req_group, T), DOMAIN req_group # {},
           st_cont_fail \in [Hosts -> Nat], NextHost
    PROVE  /\ resp_buf_len' = 0 /\ position' = 0 /\ pc' = "talk"
           /\ GroupIn(req_group', T) /\ st_cont_fail' \in [Hosts -> Nat]
<1>1. GroupIn(RestOfGroup, T)
  BY DEF RestOfGroup, GroupIn
<1>2. PICK v : v = IF resp_list' = << >> THEN st_cont_fail[Host] + 1 ELSE 0
  OBVIOUS
<1>3. Host \in Hosts
  BY HostInGroup DEF GroupIn
<1>4. v \in Nat
  BY <1>2, <1>3
<1>5. st_cont_fail' = [st_cont_fail EXCEPT ![Host] = v]
  BY <1>2 DEF NextHost, countFail
<1>6. st_cont_fail' \in [Hosts -> Nat]
  BY <1>4, <1>5
<1> QED
  BY <1>1, <1>6 DEF NextHost

\* Answers are received and taken apart.
LEMMA ShapeRecv ==
    ASSUME NEW U, NEW A, NEW W, NEW T, NEW b,
           Names(U, A, W, T, b), Shape(U, A, W, T, b), Recv
    PROVE  Shape(U, A, W, T, b)'
<1>1. Host \in Hosts /\ DOMAIN req_group # {}
  BY HostInGroup DEF Recv, Shape, GroupIn
<1>2. PICK w : w = wire[Host]
  OBVIOUS
<1> DEFINE memory(len) == Memory(resp_buf, resp_buf_len, w, len)
           Taken(n, len, mem, r) ==
             /\ wire' = [wire EXCEPT ![Host] = SubSeq(@, n + 1, Len(@))]
             /\ resp_buf' = mem
             /\ IF Noticed(Host, n) THEN UNCHANGED torn ELSE TornHere
             /\ \E ret \in r.ret :
                  /\ resp_list' = IF ret = "ERROR" THEN << >> ELSE resp_list \o r.items
                  /\ IF ret = "AGAIN"
                     THEN /\ resp_buf_len' = len /\ position' = r.pos
                          /\ UNCHANGED <<pc, req_group, st_cont_fail>>
                     ELSE NextHost
<1>3. PICK n \in 1 .. Len(w) : LET len == resp_buf_len + n
                               IN  Taken(n, len, memory(len), PARSE_RESP(memory(len), len, position))
  <2>1. PICK n \in 1 .. Len(w) :
           LET len == resp_buf_len + n
               mem == Received(SubSeq(w, 1, n))
           IN  Taken(n, len, mem, PARSE_RESP(mem, len, position))
    BY <1>2, Zenon DEF Recv
  <2>2. PICK V : V = Units
    OBVIOUS
  <2>3. w \in Seq(V) /\ resp_buf_len \in Nat
    BY <1>1, <1>2, <2>2 DEF Shape, Names, WholeSeqs
  <2>4. n \in 0 .. Len(w)
    BY <2>3
  <2>5. Received(SubSeq(w, 1, n)) = memory(resp_buf_len + n)
    BY <2>3, <2>4, ReceivedMemory
  <2> QED
    BY <2>1, <2>5, Zenon
<1>4. PICK len, mem, r : /\ len = resp_buf_len + n /\ mem = memory(len)
                         /\ r = PARSE_RESP(mem, len, position)
  OBVIOUS
<1>5. Taken(n, len, mem, r)
  BY <1>3, <1>4
<1>6. w \in W /\ resp_buf \in Seq(Units) /\ resp_buf_len \in 0 .. Len(resp_buf)
      /\ position \in 0 .. (resp_buf_len + Ahead)
  BY <1>1, <1>2 DEF Shape, Names
<1>20. PICK e : e = Ahead'
  OBVIOUS
<1>21. e \in {0, 1} /\ Ahead \in {0, 1} /\ Ahead <= e /\ (e = 1 \/ Noticed(Host, n))
       /\ torn' \in 0 .. (Len(replies) + 1)
  <2>1. torn \in 0 .. (Len(replies) + 1) /\ Len(replies) \in Nat
    BY DEF Shape
  <2>2. CASE Noticed(Host, n)
    <3>1. torn' = torn
      BY <1>5, <2>2
    <3> QED
      BY <1>20, <2>1, <2>2, <3>1 DEF Ahead
  <2>3. CASE ~ Noticed(Host, n)
    <3>1. torn' = IF torn = 0 THEN Len(replies) + 1 ELSE torn
      BY <1>5, <2>3 DEF TornHere
    <3>2. torn' # 0 /\ torn' \in 0 .. (Len(replies) + 1)
      BY <2>1, <3>1
    <3> QED
      BY <1>20, <3>2 DEF Ahead
  <2> QED
    BY <2>2, <2>3
<1>7. n < Len(w) => e = 1 \/ len = 1 \/ w[n + 1][2] = 0
  BY <1>2, <1>4, <1>21 DEF Noticed
<1>8. /\ mem \in Seq(Units) /\ len \in 1 .. Len(mem) /\ Len(resp_buf) <= Len(mem)
      /\ r \in Result(ItemsTo(len + e), 0 .. (len + e))
  <2>1. PICK old, buf, pos : old = resp_buf_len /\ buf = resp_buf /\ pos = position
    OBVIOUS
  <2>2. mem = Memory(buf, old, w, len)
    BY <1>4, <2>1
  <2>3. StreamOK /\ w \in Seq(Units) /\ Whole(w) /\ buf \in Seq(Units) /\ old \in 0 .. Len(buf)
        /\ pos \in 0 .. (old + e) /\ len = old + n
    BY <1>4, <1>6, <1>21, <2>1 DEF Names, WholeSeqs
  <2>4. r = PARSE_RESP(mem, len, pos)
    BY <1>4, <2>1
  <2> HIDE DEF memory, Taken
  <2>5. /\ mem \in Seq(Units) /\ len \in 1 .. Len(mem) /\ Len(buf) <= Len(mem)
        /\ PARSE_RESP(mem, len, pos) \in Result(ItemsTo(len + e), 0 .. (len + e))
    BY <1>7, <1>21, <2>2, <2>3, RecvParse
  <2> QED
    BY <2>1, <2>4, <2>5
<1>9. resp_buf' = mem
  BY <1>5
<1>10. wire' \in [Hosts -> W]
  <2>1. SubSeq(w, n + 1, Len(w)) \in W
    BY <1>6, WholeRest DEF Names
  <2>2. wire' = [wire EXCEPT ![Host] = SubSeq(w, n + 1, Len(w))]
    BY <1>2, <1>5
  <2> QED
    BY <2>1, <2>2 DEF Shape
<1>11. PICK I : I = ItemsTo(Len(mem) + e)
  OBVIOUS
<1>12. resp_list \in Seq(I) /\ r.items \in Seq(I)
  <2>1. Len(resp_buf) \in Nat /\ Len(mem) \in Nat /\ len \in Nat /\ len <= Len(mem)
    BY <1>6, <1>8
  <2>2. ItemsTo(Len(resp_buf) + Ahead) \subseteq I /\ ItemsTo(len + e) \subseteq I
    <3>1. PICK l, m, d : l = Len(resp_buf) /\ m = Len(mem) /\ d = Ahead
      OBVIOUS
    <3>2. l + d <= m + e /\ len + e <= m + e
      BY <1>8, <1>21, <2>1, <3>1
    <3>3. l + d \in Nat /\ m + e \in Nat /\ len + e \in Nat
      BY <1>21, <2>1, <3>1
    <3> QED
      BY <1>11, <3>1, <3>2, <3>3 DEF ItemsTo, AnyItem
  <2>3. resp_list \in Seq(ItemsTo(Len(resp_buf) + Ahead)) /\ r.items \in Seq(ItemsTo(len + e))
    BY <1>8 DEF Shape, Result
  <2> QED
    BY <2>2, <2>3, SeqMonotonic
<1>13. resp_list \o r.items \in Seq(I) /\ << >> \in Seq(I)
  BY <1>12
<1>14. resp_list' \in Seq(ItemsTo(Len(resp_buf') + e))
  BY <1>5, <1>9, <1>11, <1>13
<1>15. /\ resp_buf_len' \in 0 .. Len(resp_buf') /\ position' \in 0 .. (resp_buf_len' + e)
       /\ pc' \in {"recv", "talk"}
       /\ pc' = "recv" => DOMAIN req_group' # {}
       /\ GroupIn(req_group', T) /\ st_cont_fail' \in [Hosts -> Nat]
  <2>1. CASE resp_buf_len' = len /\ position' = r.pos /\ UNCHANGED <<pc, req_group, st_cont_fail>>
    <3>1. r.pos \in 0 .. (len + e) /\ len \in 0 .. Len(mem)
      BY <1>8 DEF Result
    <3>2. pc = "recv"
      BY DEF Recv
    <3> QED
      BY <1>1, <1>9, <2>1, <3>1, <3>2 DEF Shape
  <2>2. CASE NextHost
    <3>1. /\ resp_buf_len' = 0 /\ position' = 0 /\ pc' = "talk"
          /\ GroupIn(req_group', T) /\ st_cont_fail' \in [Hosts -> Nat]
      BY <1>1, <2>2, NextHostType DEF Shape
    <3>2. Len(mem) \in Nat /\ e \in Nat
      BY <1>8, <1>21
    <3> QED
      BY <1>9, <3>1, <3>2
  <2> QED
    BY <1>5, <2>1, <2>2
<1>16. resp_buf' \in Seq(U)
  BY <1>8, <1>9 DEF Names
<1>17. UNCHANGED <<sent, read_buf, sync_group, client_buf, replies>>
  BY DEF Recv, client
<1>18. /\ sent' \in 0 .. b /\ read_buf' \in Seq(T \X {0, 1}) /\ GroupIn(sync_group', T)
       /\ client_buf' \in Seq(A) /\ replies' \in Seq(Seq(A))
       /\ torn' \in 0 .. (Len(replies') + 1)
  BY <1>17, <1>21 DEF Shape
<1>19. pc' \in {"wait", "read", "talk", "recv", "reply"}
  BY <1>15
<1> QED
  BY <1>10, <1>14, <1>15, <1>16, <1>18, <1>19, <1>20, Zenon DEF Shape

\* A piece of a line is received and taken for an answer.
LEMMA ShapeRecvCut ==
    ASSUME NEW U, NEW A, NEW W, NEW T, NEW b,
           Names(U, A, W, T, b), Shape(U, A, W, T, b), RecvCut
    PROVE  Shape(U, A, W, T, b)'
<1>1. Host \in Hosts /\ DOMAIN req_group # {}
  BY HostInGroup DEF RecvCut, Shape, GroupIn
<1>2. PICK w : w = wire[Host]
  OBVIOUS
<1>3. PICK V : V = Units
  OBVIOUS
<1>4. /\ w \in W /\ w \in WholeSeqs /\ w \in Seq(V) /\ Len(w) \in Nat
      /\ resp_buf \in Seq(Units) /\ resp_buf_len \in 0 .. Len(resp_buf)
      /\ position \in 0 .. (resp_buf_len + Ahead) /\ StreamOK
  BY <1>1, <1>2, <1>3 DEF Shape, Names, WholeSeqs
<1> DEFINE piece(n, p) == <<w[n + 1][1], w[n + 1][2] + p, w[n + 1][3]>>
           units(n) == Append(SubSeq(w, 1, n), piece(n, 3))
<1>5. PICK n \in 0 .. (Len(w) - 1) :
         /\ w[n + 1][2] \in 0 .. 2
         /\ wire' = [wire EXCEPT ![Host] = <<piece(n, 6)>> \o SubSeq(@, n + 2, Len(@))]
         /\ resp_buf' = Received(units(n))
         /\ resp_list' = resp_list \o PARSE_RESP(Received(units(n)), resp_buf_len + n + 1, position).items
  BY <1>2, Zenon DEF RecvCut
<1>6. n \in Nat /\ n + 1 \in 1 .. Len(w) /\ n <= Len(w)
  BY <1>4
<1>7. w[n + 1] \in Units
  BY <1>3, <1>4, <1>6
<1>8. piece(n, 3) \in V /\ piece(n, 6) \in V
  <2>1. PICK x : x = w[n + 1]
    OBVIOUS
  <2>2. x \in Units /\ x[2] \in 0 .. 2
    BY <1>5, <1>7, <2>1
  <2>3. <<x[1], x[2] + 3, x[3]>> \in Units /\ <<x[1], x[2] + 6, x[3]>> \in Units
    BY <2>2 DEF Units
  <2> QED
    BY <1>3, <2>1, <2>3
<1>9. PICK u, a, c : u = units(n) /\ a = piece(n, 3) /\ c = piece(n, 6)
  OBVIOUS
<1>10. u \in Seq(V) /\ Len(u) = n + 1
  <2>1. SubSeq(w, 1, n) \in Seq(V) /\ Len(SubSeq(w, 1, n)) = n
    BY ONLY <1>4, <1>6, SubSeqProperties
  <2>2. PICK v : v = SubSeq(w, 1, n)
    OBVIOUS
  <2>3. u = Append(v, a) /\ a \in V /\ v \in Seq(V) /\ Len(v) = n
    BY <1>8, <1>9, <2>1, <2>2
  <2> QED
    BY ONLY <2>3
<1>11. PICK mem, len, r, buf, old, pos :
          /\ mem = Received(u) /\ len = resp_buf_len + n + 1 /\ r = PARSE_RESP(mem, len, position)
          /\ buf = resp_buf /\ old = resp_buf_len /\ pos = position
  OBVIOUS
<1>12. mem = Memory(buf, old, u, len) /\ len = old + (n + 1)
  <2>1. resp_buf_len \in Nat /\ 0 \in 0 .. Len(u)
    BY <1>4, <1>6, <1>10
  <2>2. Received(u) = Memory(resp_buf, resp_buf_len, u, resp_buf_len + Len(u))
    BY <1>10, <2>1, ReceivedMemory
  <2>3. len = resp_buf_len + (n + 1)
    BY <1>6, <1>11, <2>1
  <2> QED
    BY <1>10, <1>11, <2>2, <2>3
<1>13. /\ mem \in Seq(Units) /\ len \in 1 .. Len(mem) /\ Len(buf) <= Len(mem)
       /\ PARSE_RESP(mem, len, pos) \in Result(ItemsTo(len + 1), 0 .. (len + 1))
  <2>1. /\ buf \in Seq(Units) /\ old \in 0 .. Len(buf) /\ pos \in 0 .. (old + 1)
        /\ u \in Seq(Units) /\ n + 1 \in 1 .. Len(u) /\ StreamOK
    BY <1>3, <1>4, <1>6, <1>10, <1>11 DEF Ahead
  <2>2. n + 1 < Len(u) => 1 = 1 \/ len = 1 \/ u[n + 1 + 1][2] = 0
    OBVIOUS
  <2> HIDE DEF piece, units
  <2>3. ASSUME NEW e, e = 1, NEW m, m = n + 1
        PROVE  /\ mem \in Seq(Units) /\ len \in 1 .. Len(mem) /\ Len(buf) <= Len(mem)
               /\ PARSE_RESP(mem, len, pos) \in Result(ItemsTo(len + e), 0 .. (len + e))
    <3>1. m \in 1 .. Len(u) /\ e \in {0, 1} /\ pos \in 0 .. (old + e) /\ len = old + m
      BY <1>12, <2>1, <2>3
    <3>2. m < Len(u) => e = 1 \/ len = 1 \/ u[m + 1][2] = 0
      BY <2>3
    <3> QED
      BY ONLY <1>12, <2>1, <2>3, <3>1, <3>2, RecvParse
  <2> QED
    BY <2>3
<1>14. torn' # 0 /\ torn' \in 0 .. (Len(replies) + 1) /\ Ahead' = 1 /\ Ahead \in {0, 1}
  <2>1. torn \in 0 .. (Len(replies) + 1) /\ Len(replies) \in Nat
    BY DEF Shape
  <2>2. torn' = IF torn = 0 THEN Len(replies) + 1 ELSE torn
    BY DEF RecvCut, TornHere
  <2> QED
    BY <2>1, <2>2 DEF Ahead
<1>15. resp_buf' = mem /\ resp_list' = resp_list \o r.items
  BY <1>5, <1>9, <1>11
<1>16. PICK I : I = ItemsTo(Len(mem) + 1)
  OBVIOUS
<1>17. resp_list \in Seq(I) /\ r.items \in Seq(I)
  <2>1. Len(resp_buf) \in Nat /\ Len(mem) \in Nat /\ len \in Nat /\ len <= Len(mem)
    BY <1>4, <1>13
  <2>2. ItemsTo(Len(resp_buf) + Ahead) \subseteq I /\ ItemsTo(len + 1) \subseteq I
    <3>1. PICK l, m, d : l = Len(resp_buf) /\ m = Len(mem) /\ d = Ahead
      OBVIOUS
    <3>2. l + d <= m + 1 /\ len + 1 <= m + 1
      BY <1>11, <1>13, <1>14, <2>1, <3>1
    <3>3. l + d \in Nat /\ m + 1 \in Nat /\ len + 1 \in Nat
      BY <1>14, <2>1, <3>1
    <3> QED
      BY <1>16, <3>1, <3>2, <3>3 DEF ItemsTo, AnyItem
  <2>3. resp_list \in Seq(ItemsTo(Len(resp_buf) + Ahead)) /\ r.items \in Seq(ItemsTo(len + 1))
    BY <1>11, <1>13 DEF Shape, Result
  <2> QED
    BY <2>2, <2>3, SeqMonotonic
<1>18. resp_list \o r.items \in Seq(I)
  BY <1>17
<1>19. resp_list' \in Seq(ItemsTo(Len(resp_buf') + 1))
  BY <1>15, <1>16, <1>18
<1>20. wire' \in [Hosts -> W]
  <2>1. SubSeq(w, n + 1 + 1, Len(w)) \in WholeSeqs
    BY <1>4, <1>6, WholeRest
  <2>2. PICK q : q = SubSeq(w, n + 2, Len(w))
    OBVIOUS
  <2>3. n + 1 + 1 = n + 2
    BY <1>6
  <2>4. q \in WholeSeqs
    BY <2>1, <2>2, <2>3
  <2>5. <<c>> \in WholeSeqs
    <3>1. c \in Units /\ c[2] \in 6 .. 8 /\ AnswerLen(c[1]) \in 0 .. 3
      BY <1>3, <1>5, <1>8, <1>9, AnswerLenType
    <3>2. <<c>> \in Seq(Units)
      BY <3>1
    <3>3. DOMAIN <<c>> = {1} /\ <<c>>[1] = c
      OBVIOUS
    <3>4. ~ (c[2] + 1 < AnswerLen(c[1]))
      BY <3>1
    <3>5. Whole(<<c>>)
      BY <3>3, <3>4 DEF Whole
    <3> QED
      BY <3>2, <3>5 DEF WholeSeqs
  <2>6. <<c>> \o q \in W
    BY <2>4, <2>5, WholeConcat DEF Names
  <2>7. wire' = [wire EXCEPT ![Host] = <<c>> \o q]
    BY <1>2, <1>5, <1>9, <2>2
  <2> QED
    BY <2>6, <2>7 DEF Shape
<1>21. /\ resp_buf_len' = 0 /\ position' = 0 /\ pc' = "talk"
       /\ GroupIn(req_group', T) /\ st_cont_fail' \in [Hosts -> Nat]
  BY <1>1, NextHostType DEF RecvCut, Shape
<1>22. UNCHANGED <<sent, read_buf, sync_group, client_buf, replies>>
  BY DEF RecvCut, client
<1>23. /\ sent' \in 0 .. b /\ read_buf' \in Seq(T \X {0, 1}) /\ GroupIn(sync_group', T)
       /\ client_buf' \in Seq(A) /\ replies' \in Seq(Seq(A))
       /\ torn' \in 0 .. (Len(replies') + 1)
  BY <1>14, <1>22 DEF Shape
<1>24. /\ resp_buf_len' \in 0 .. Len(resp_buf') /\ position' \in 0 .. (resp_buf_len' + 1)
       /\ pc' \in {"wait", "read", "talk", "recv", "reply"} /\ pc' # "recv"
  BY <1>13, <1>15, <1>21
<1>25. resp_buf' \in Seq(U)
  BY <1>13, <1>15 DEF Names
<1> QED
  BY <1>14, <1>19, <1>20, <1>21, <1>23, <1>24, <1>25, Zenon DEF Shape

\* Nothing more comes from the host.
LEMMA ShapeRecvTimeout ==
    ASSUME NEW U, NEW A, NEW W, NEW T, NEW b,
           Names(U, A, W, T, b), Shape(U, A, W, T, b), RecvTimeout
    PROVE  Shape(U, A, W, T, b)'
<1>1. DOMAIN req_group # {} /\ GroupIn(req_group, T) /\ st_cont_fail \in [Hosts -> Nat]
  BY DEF RecvTimeout, Shape
<1>2. /\ resp_buf_len' = 0 /\ position' = 0 /\ pc' = "talk"
      /\ GroupIn(req_group', T) /\ st_cont_fail' \in [Hosts -> Nat]
  BY <1>1, NextHostType DEF RecvTimeout
<1>3. UNCHANGED <<sent, read_buf, sync_group, wire, resp_buf, resp_list, client_buf, replies,
                 torn>>
  BY DEF RecvTimeout, client
<1>4. Len(resp_buf) \in Nat /\ Ahead \in Nat
  BY DEF Shape, Ahead
<1> QED
  BY <1>2, <1>3, <1>4 DEF Shape, Ahead

\* The response of a round is made.
LEMMA ShapeEndTalk ==
    ASSUME NEW U, NEW A, NEW W, NEW T, NEW b,
           Names(U, A, W, T, b), Shape(U, A, W, T, b), EndTalk
    PROVE  Shape(U, A, W, T, b)'
<1>1. CREATE_RESP \in Seq(A)
  <2>1. resp_buf \in Seq(Units) /\ resp_list \in Seq(ItemsTo(Len(resp_buf) + Ahead))
    BY DEF Shape, Names
  <2> QED
    BY <2>1, CreateRespType DEF Names
<1>2. client_buf' \in Seq(A)
  BY <1>1 DEF EndTalk
<1>3. resp_list' = << >> /\ pc' \in {"talk", "reply"} /\ req_group' = sync_group /\ sync_group' = << >>
  BY DEF EndTalk
<1>4. GroupIn(<< >>, T) /\ << >> \in Seq(ItemsTo(Len(resp_buf) + Ahead))
  BY DEF GroupIn
<1>5. UNCHANGED <<sent, read_buf, wire, resp_buf, resp_buf_len, position, st_cont_fail, replies,
                  torn>>
  BY DEF EndTalk, client, backend
<1> QED
  BY <1>2, <1>3, <1>4, <1>5 DEF Shape, Ahead

\* The response is written.
LEMMA ShapeReply ==
    ASSUME NEW U, NEW A, NEW W, NEW T, NEW b,
           Names(U, A, W, T, b), Shape(U, A, W, T, b), Reply
    PROVE  Shape(U, A, W, T, b)'
<1>1. PICK Z : Z = Seq(A)
  OBVIOUS
<1>2. replies \in Seq(Z) /\ client_buf \in Z
  BY <1>1 DEF Shape
<1>3. Append(replies, client_buf) \in Seq(Z)
  BY <1>2
<1>4. replies' \in Seq(Seq(A))
  BY <1>1, <1>3 DEF Reply
<1>5. pc' = "wait" /\ UNCHANGED <<sent, read_buf, req_group, sync_group, wire, resp_buf, resp_buf_len,
                                  position, resp_list, client_buf, st_cont_fail, torn>>
  BY DEF Reply, client, backend
<1>6. torn' \in 0 .. (Len(replies') + 1)
  <2>1. replies' = Append(replies, client_buf)
    BY DEF Reply
  <2>2. Len(replies') = Len(replies) + 1 /\ Len(replies) \in Nat
    BY <1>2, <2>1
  <2> QED
    BY <1>5, <2>2 DEF Shape
<1> QED
  BY <1>4, <1>5, <1>6 DEF Shape, Ahead

\* Initially the buffers, wires and groups are empty.
LEMMA InitShape == Init => TypeInv
<1> SUFFICES ASSUME Init
             PROVE  TypeInv
  OBVIOUS
<1>1. StreamOK
  BY DEF Init, StreamOK
<1>2. Len(Bytes) \in Nat
  <2>1. PICK X, s : X = (DOMAIN stream) \X {0, 1} /\ s = Bytes
    OBVIOUS
  <2>2. s \in Seq(X)
    BY <1>1, <2>1, BytesType
  <2> QED
    BY <2>1, <2>2
<1>3. << >> \in WholeSeqs /\ GroupIn(<< >>, DOMAIN stream) /\ Ahead \in Nat
  BY DEF WholeSeqs, Whole, GroupIn, Ahead
<1>4. wire \in [Hosts -> WholeSeqs] /\ st_cont_fail \in [Hosts -> Nat]
  BY <1>3 DEF Init
<1>5. PICK U, A, W, T, b : Names(U, A, W, T, b)
  BY <1>1 DEF Names
<1>6. Shape(U, A, W, T, b)
  BY <1>2, <1>3, <1>4, <1>5 DEF Init, Shape, Names
<1> QED
  BY <1>1, <1>5, <1>6 DEF TypeInv, Names

\* A state in which TypeInv holds has the types that TypeOK says.
LEMMA ShapeTypeOK == TypeInv => TypeOK
<1> SUFFICES ASSUME TypeInv
             PROVE  TypeOK
  OBVIOUS
<1>1. PICK U, A, W, T, b : Names(U, A, W, T, b)
  BY DEF Names, TypeInv
<1>2. Shape(U, A, W, T, b)
  BY <1>1 DEF TypeInv, Names
<1>3. resp_buf \in Seq(A)
  <2>1. U \subseteq A
    BY <1>1, StreamType DEF Names, Units, AnswerUnit
  <2> QED
    BY <1>2, <2>1, SeqMonotonic DEF Shape
<1>4. position <= resp_buf_len + Ahead
  BY <1>2 DEF Shape
<1>5. ASSUME NEW n \in DOMAIN resp_list
      PROVE  resp_list[n].off + resp_list[n].len <= Len(resp_buf) + Ahead
  <2>1. PICK I, l : I = ItemsTo(Len(resp_buf) + Ahead) /\ l = resp_list
    OBVIOUS
  <2>2. l \in Seq(I)
    BY <1>2, <2>1 DEF Shape
  <2>3. l[n] \in I
    BY <2>1, <2>2
  <2> QED
    BY <2>1, <2>3 DEF ItemsTo
<1>6. /\ proto \in DOMAIN Streams /\ stream \in Streams[proto]
      /\ T = DOMAIN stream /\ A = AnswerUnit /\ b = Len(Bytes)
  BY <1>1 DEF Names, StreamOK
<1>7. /\ sent \in 0 .. b /\ read_buf \in Seq(T \X {0, 1})
      /\ pc \in {"wait", "read", "talk", "recv", "reply"}
      /\ DOMAIN req_group \subseteq Hosts /\ DOMAIN sync_group \subseteq Hosts
      /\ client_buf \in Seq(A) /\ replies \in Seq(Seq(A))
      /\ st_cont_fail \in [Hosts -> Nat] /\ resp_buf_len \in 0 .. Len(resp_buf)
  BY <1>2, Zenon DEF Shape, GroupIn
<1>8. (pc = "recv" => DOMAIN req_group # {}) /\ torn \in 0 .. (Len(replies) + 1)
  BY <1>2, Zenon DEF Shape
<1> QED
  BY <1>3, <1>4, <1>5, <1>6, <1>7, <1>8, Zenon DEF TypeOK, Ahead

\* Every step keeps the inductive invariant; no step changes the stream.
LEMMA NextShape == TypeInv /\ [Next]_vars => TypeInv'
<1> SUFFICES ASSUME TypeInv, [Next]_vars
             PROVE  TypeInv'
  OBVIOUS
<1>1. PICK U, A, W, T, b : Names(U, A, W, T, b)
  BY DEF Names, TypeInv
<1>2. Shape(U, A, W, T, b)
  BY <1>1 DEF TypeInv, Names
<1>3. proto' = proto /\ stream' = stream
  BY DEF Next, Arrive, ReadEvent, Forward, Recv, RecvCut, RecvTimeout, EndTalk, Reply, Idle, client,
         vars
<1>4. Names(U, A, W, T, b)'
  BY <1>1, <1>3 DEF Names, StreamOK, Units, AnswerUnit, WholeSeqs, Whole, AnswerLen, Bytes,
                    RequestLen, HasBody
<1>5. Shape(U, A, W, T, b)'
  <2>1. CASE Arrive
    BY <1>1, <1>2, <2>1, ShapeArrive
  <2>2. CASE ReadEvent
    BY <1>1, <1>2, <2>2, ShapeReadEvent
  <2>3. CASE Forward
    BY <1>1, <1>2, <2>3, ShapeForward
  <2>4. CASE Recv
    BY <1>1, <1>2, <2>4, ShapeRecv
  <2>9. CASE RecvCut
    BY <1>1, <1>2, <2>9, ShapeRecvCut
  <2>5. CASE RecvTimeout
    BY <1>1, <1>2, <2>5, ShapeRecvTimeout
  <2>6. CASE EndTalk
    BY <1>1, <1>2, <2>6, ShapeEndTalk
  <2>7. CASE Reply
    BY <1>1, <1>2, <2>7, ShapeReply
  <2>8. CASE Idle \/ UNCHANGED vars
    <3>1. UNCHANGED vars
      BY <2>8 DEF Idle
    <3> QED
      BY <1>2, <3>1 DEF vars, Shape, Ahead
  <2> QED
    BY <2>1, <2>2, <2>3, <2>4, <2>5, <2>6, <2>7, <2>8, <2>9 DEF Next
<1> QED
  BY <1>4, <1>5 DEF TypeInv, Names

\* However requests and answers are cut into pieces, the worker parses units of
\* existing items only, and the answers that CREATE_RESP copies (resp_list) lie
\* inside resp_buf: while no answer is torn, exactly; from then on at most one
\* unit ahead of what was received (TypeOK, PARSE_RESP and CREATE_RESP in
\* memcached.cpp).
THEOREM TypeCorrect == Spec => []TypeOK
<1>1. Spec => []TypeInv
  BY InitShape, NextShape, PTL DEF Spec
<1> QED
  BY <1>1, ShapeTypeOK, PTL
=============================================================================

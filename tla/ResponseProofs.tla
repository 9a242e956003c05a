--------------------------- MODULE ResponseProofs ---------------------------
(***************************************************************************)
(* Proofs about module ReqPath: what the worker answers, and whom it       *)
(* blames.                                                                 *)
(***************************************************************************)
EXTENDS ReqPathProofs, FiniteSetTheorems

-----------------------------------------------------------------------------
(***************************************************************************)
(* Sequences of sequences                                                  *)
(***************************************************************************)

\* Induction over the numbers up to n, for a set.
LEMMA BoundedInduction ==
    ASSUME NEW n \in Nat, NEW S, 0 \in S, \A m \in 0 .. (n - 1) : m \in S => m + 1 \in S
    PROVE  0 .. n \subseteq S
<1> DEFINE Z == {m \in Nat : m \in S \/ m > n}
<1>1. Z \in SUBSET Nat /\ 0 \in Z
  OBVIOUS
<1>2. \A m \in Z : m + 1 \in Z
  OBVIOUS
<1>3. Z = Nat
  <2> HIDE DEF Z
  <2> QED
    BY <1>1, <1>2, SetInduction
<1> QED
  BY <1>3

\* One more sequence at the end.
LEMMA FlattenAppend ==
    ASSUME NEW T, NEW ss \in Seq(Seq(T)), NEW s \in Seq(T)
    PROVE  FlattenSeq(Append(ss, s)) = FlattenSeq(ss) \o s
<1>1. PICK W : W = Seq(T)
  OBVIOUS
<1>2. /\ \A a, b \in W : a \o b \in W
      /\ ss \in Seq(W) /\ s \in W
  BY <1>1
<1>3. PICK tt : tt = Append(ss, s)
  OBVIOUS
<1>4. PICK n \in Nat : n = Len(ss)
  BY <1>2
<1>5. tt \in Seq(W) /\ Len(tt) = n + 1 /\ tt[n + 1] = s /\ \A i \in 1 .. n : tt[i] = ss[i]
  BY <1>2, <1>3, <1>4
<1>6. PICK g : /\ FlattenSeq(tt) = g[Len(tt)]
               /\ \A p \in 1 .. Len(tt) : g[p] = IF p = 1 THEN tt[p] ELSE g[p - 1] \o tt[p]
  <2>1. Len(tt) # 0
    BY <1>5
  <2>2. PICK g : Flattens(g, tt, W)
    BY <1>2, <1>5, <2>1, FlattenSteps
  <2> QED
    BY <2>2 DEF Flattens
<1>7. CASE n = 0
  <2>1. ss = << >>
    BY <1>2, <1>4, <1>7, EmptySeq
  <2>2. FlattenSeq(ss) = << >>
    BY <2>1 DEF FlattenSeq
  <2>3. FlattenSeq(tt) = s
    BY <1>5, <1>6, <1>7
  <2>4. << >> \o s = s
    BY ConcatEmptySeq
  <2> QED
    BY <1>3, <2>2, <2>3, <2>4
<1>8. CASE n # 0
  <2>1. PICK f : /\ FlattenSeq(ss) = f[n]
                 /\ \A p \in 1 .. n : f[p] = IF p = 1 THEN ss[p] ELSE f[p - 1] \o ss[p]
    <3>1. PICK f : Flattens(f, ss, W)
      BY <1>2, <1>4, <1>8, FlattenSteps
    <3> QED
      BY <1>4, <3>1 DEF Flattens
  <2> DEFINE S == {m \in Nat : m \in 1 .. n => f[m] = g[m]}
  <2>2. 0 \in S
    OBVIOUS
  <2>3. ASSUME NEW m \in 0 .. (n - 1), m \in S
        PROVE  m + 1 \in S
    <3>1. m + 1 \in 1 .. n /\ m + 1 \in 1 .. Len(tt) /\ (m + 1) - 1 = m
      BY <1>5
    <3>2. f[m + 1] = IF m + 1 = 1 THEN ss[m + 1] ELSE f[m] \o ss[m + 1]
      BY <2>1, <3>1
    <3>3. g[m + 1] = IF m + 1 = 1 THEN tt[m + 1] ELSE g[m] \o tt[m + 1]
      BY <1>6, <3>1
    <3>4. m # 0 => f[m] = g[m]
      BY <2>3, <3>1
    <3> QED
      BY <1>5, <3>1, <3>2, <3>3, <3>4
  <2>4. 0 .. n \subseteq S
    <3> HIDE DEF S
    <3> QED
      BY <2>2, <2>3, BoundedInduction
  <2>5. f[n] = g[n]
    BY <1>8, <2>4
  <2>6. g[n + 1] = g[n] \o s
    <3>1. n + 1 \in 1 .. Len(tt) /\ (n + 1) - 1 = n /\ n + 1 # 1
      BY <1>5, <1>8
    <3> QED
      BY <1>5, <1>6, <3>1
  <2> QED
    BY <1>3, <1>5, <1>6, <2>1, <2>5, <2>6
<1> QED
  BY <1>7, <1>8

\* No sequences, and one sequence.
LEMMA FlattenFew ==
    ASSUME NEW T, NEW s \in Seq(T)
    PROVE  FlattenSeq(<< >>) = << >> /\ FlattenSeq(<<s>>) = s
<1>1. FlattenSeq(<< >>) = << >>
  BY DEF FlattenSeq
<1>2. PICK W : W = Seq(T)
  OBVIOUS
<1>3. << >> \in Seq(W) /\ Append(<< >>, s) = <<s>> /\ << >> \o s = s
  BY <1>2, ConcatEmptySeq
<1>4. FlattenSeq(Append(<< >>, s)) = FlattenSeq(<< >>) \o s
  BY <1>2, <1>3, FlattenAppend
<1> QED
  BY <1>1, <1>3, <1>4

\* A sequence up to n + 1 is the sequence up to n and one element more.
LEMMA PrefixAppend ==
    ASSUME NEW T, NEW s \in Seq(T), NEW n \in 0 .. (Len(s) - 1)
    PROVE  /\ SubSeq(s, 1, n) \in Seq(T) /\ s[n + 1] \in T /\ <<s[n + 1]>> \in Seq(T)
           /\ SubSeq(s, 1, n + 1) = Append(SubSeq(s, 1, n), s[n + 1])
           /\ SubSeq(s, 1, n + 1) = SubSeq(s, 1, n) \o <<s[n + 1]>>
<1>1. n \in Nat /\ n + 1 \in 1 .. Len(s) /\ s[n + 1] \in T
  OBVIOUS
<1>2. SubSeq(s, 1, n) \in Seq(T)
  BY <1>1
<1>3. SubSeq(s, 1, n + 1) = SubSeq(s, 1, n) \o <<s[n + 1]>>
  <2>1. 1 \in 1 .. Len(s) /\ n + 1 \in 1 .. Len(s) /\ (n + 1) - 1 = n
    BY <1>1
  <2> QED
    BY <2>1, SubSeqRecursiveSecond
<1> QED
  BY <1>1, <1>2, <1>3, AppendIsConcat

\* FlattenSeq of a concatenation.
LEMMA FlattenConcat ==
    ASSUME NEW T, NEW a \in Seq(Seq(T)), NEW b \in Seq(Seq(T))
    PROVE  FlattenSeq(a \o b) = FlattenSeq(a) \o FlattenSeq(b)
<1>1. PICK W : W = Seq(T)
  OBVIOUS
<1>2. a \in Seq(W) /\ b \in Seq(W) /\ Len(b) \in Nat
  BY <1>1
<1> DEFINE pre(n) == SubSeq(b, 1, n)
           S == {n \in Nat : FlattenSeq(a \o pre(n)) = FlattenSeq(a) \o FlattenSeq(pre(n))}
<1>3. 0 \in S
  <2>1. pre(0) = << >>
    BY SubSeqEmpty
  <2>2. FlattenSeq(a) \in Seq(T)
    BY FlattenType
  <2>3. a \o << >> = a /\ FlattenSeq(a) \o << >> = FlattenSeq(a)
    BY <1>2, <2>2, ConcatEmptySeq
  <2> HIDE DEF pre
  <2> QED
    BY <2>1, <2>3, FlattenFew
<1>4. ASSUME NEW n \in 0 .. (Len(b) - 1), n \in S
      PROVE  n + 1 \in S
  <2>1. pre(n) \in Seq(W) /\ b[n + 1] \in W /\ pre(n + 1) = Append(pre(n), b[n + 1])
    BY <1>2, PrefixAppend
  <2>2. PICK p, x : p = pre(n) /\ x = b[n + 1]
    OBVIOUS
  <2>3. p \in Seq(W) /\ x \in W /\ pre(n + 1) = Append(p, x)
    BY <2>1, <2>2
  <2>4. a \o Append(p, x) = Append(a \o p, x) /\ a \o p \in Seq(W)
    BY <1>2, <2>3
  <2>5. FlattenSeq(Append(a \o p, x)) = FlattenSeq(a \o p) \o x
    BY <1>1, <2>3, <2>4, FlattenAppend
  <2>6. FlattenSeq(Append(p, x)) = FlattenSeq(p) \o x
    BY <1>1, <2>3, FlattenAppend
  <2>7. FlattenSeq(a \o p) = FlattenSeq(a) \o FlattenSeq(p)
    BY <1>4, <2>2
  <2>8. FlattenSeq(a) \in Seq(T) /\ FlattenSeq(p) \in Seq(T) /\ x \in Seq(T)
    BY <1>1, <2>3, FlattenType
  <2>9. (FlattenSeq(a) \o FlattenSeq(p)) \o x = FlattenSeq(a) \o (FlattenSeq(p) \o x)
    BY <2>8, ConcatAssociative, SMTT(30)
  <2>10. FlattenSeq(a \o pre(n + 1)) = FlattenSeq(a) \o FlattenSeq(pre(n + 1))
    <3> HIDE DEF pre
    <3> QED
      BY <2>3, <2>4, <2>5, <2>6, <2>7, <2>9
  <2> HIDE DEF pre
  <2> QED
    BY <2>10
<1>5. 0 .. Len(b) \subseteq S
  <2> HIDE DEF S
  <2> QED
    BY <1>2, <1>3, <1>4, BoundedInduction
<1>6. Len(b) \in S /\ pre(Len(b)) = b
  BY <1>2, <1>5, SubSeqFull
<1> QED
  BY <1>6

\* Only picks the elements of a concatenation from its parts.
LEMMA OnlyConcat ==
    ASSUME NEW T, NEW a \in Seq(T), NEW b \in Seq(T), NEW S
    PROVE  Only(a \o b, S) = Only(a, S) \o Only(b, S)
<1> DEFINE pick(s) == [n \in DOMAIN s |-> IF s[n] \in S THEN <<s[n]>> ELSE << >>]
<1>1. PICK W : W = Seq(T)
  OBVIOUS
<1>2. ASSUME NEW s \in Seq(T)
      PROVE  pick(s) \in Seq(W) /\ Len(pick(s)) = Len(s) /\ DOMAIN pick(s) = 1 .. Len(s)
  <2>1. \A n \in DOMAIN s : (IF s[n] \in S THEN <<s[n]>> ELSE << >>) \in W
    BY <1>1
  <2>2. pick(s) \in [1 .. Len(s) -> W] /\ Len(s) \in Nat
    BY <2>1
  <2> QED
    BY <2>2, FunctionIsSeq
<1>3. a \o b \in Seq(T) /\ Len(a \o b) = Len(a) + Len(b) /\ Len(a) \in Nat /\ Len(b) \in Nat
  OBVIOUS
<1>4. pick(a \o b) = pick(a) \o pick(b)
  <2>1. PICK c : c = a \o b
    OBVIOUS
  <2>2. c \in Seq(T) /\ Len(c) = Len(a) + Len(b)
    BY <1>3, <2>1
  <2>3. /\ pick(c) \in Seq(W) /\ Len(pick(c)) = Len(a) + Len(b)
        /\ pick(a) \in Seq(W) /\ Len(pick(a)) = Len(a)
        /\ pick(b) \in Seq(W) /\ Len(pick(b)) = Len(b)
    BY <1>2, <2>2
  <2>4. ASSUME NEW i \in 1 .. (Len(a) + Len(b))
        PROVE  pick(c)[i] = IF i <= Len(a) THEN pick(a)[i] ELSE pick(b)[i - Len(a)]
    <3>1. pick(c)[i] = IF c[i] \in S THEN <<c[i]>> ELSE << >>
      BY <2>2
    <3>2. CASE i <= Len(a)
      <4>1. i \in DOMAIN a /\ c[i] = a[i]
        BY <1>3, <2>1, <3>2
      <4> QED
        BY <3>1, <3>2, <4>1
    <3>3. CASE ~ (i <= Len(a))
      <4>1. i - Len(a) \in DOMAIN b /\ c[i] = b[i - Len(a)]
        BY <1>3, <2>1, <3>3
      <4> QED
        BY <3>1, <3>3, <4>1
    <3> QED
      BY <3>2, <3>3
  <2> HIDE DEF pick
  <2>5. PICK pa, pb, pc1 : pa = pick(a) /\ pb = pick(b) /\ pc1 = pick(c)
    OBVIOUS
  <2>6. /\ pa \o pb \in Seq(W) /\ Len(pa \o pb) = Len(a) + Len(b)
        /\ \A i \in 1 .. (Len(a) + Len(b)) :
              (pa \o pb)[i] = IF i <= Len(a) THEN pa[i] ELSE pb[i - Len(a)]
    BY <2>3, <2>5, ConcatProperties
  <2>7. pc1 = pa \o pb
    BY <2>3, <2>4, <2>5, <2>6, SeqEqual
  <2> QED
    BY <2>1, <2>5, <2>7
<1>5. pick(a) \in Seq(W) /\ pick(b) \in Seq(W)
  BY <1>2
<1> HIDE DEF pick
<1>6. FlattenSeq(pick(a) \o pick(b)) = FlattenSeq(pick(a)) \o FlattenSeq(pick(b))
  BY <1>1, <1>5, FlattenConcat
<1> QED
  BY <1>4, <1>6 DEF Only, pick

\* Only of an element, and of nothing.
LEMMA OnlyOne ==
    ASSUME NEW T, NEW x \in T, NEW S
    PROVE  Only(<< >>, S) = << >> /\ Only(<<x>>, S) = IF x \in S THEN <<x>> ELSE << >>
<1>1. [n \in DOMAIN << >> |-> IF << >>[n] \in S THEN << <<>>[n] >> ELSE << >>] = << >>
  OBVIOUS
<1>2. PICK y : y = IF x \in S THEN <<x>> ELSE << >>
  OBVIOUS
<1>3. [n \in DOMAIN <<x>> |-> IF <<x>>[n] \in S THEN << <<x>>[n] >> ELSE << >>] = <<y>>
  BY <1>2
<1>4. y \in Seq(T)
  BY <1>2
<1>5. FlattenSeq(<< >>) = << >> /\ FlattenSeq(<<y>>) = y
  BY <1>4, FlattenFew
<1> QED
  BY <1>1, <1>2, <1>3, <1>5 DEF Only

\* Only keeps everything, or nothing.
LEMMA OnlyAll ==
    ASSUME NEW T, NEW s \in Seq(T), NEW S
    PROVE  /\ (\A k \in DOMAIN s : s[k] \in S) => Only(s, S) = s
           /\ (\A k \in DOMAIN s : s[k] \notin S) => Only(s, S) = << >>
<1> DEFINE pre(n) == SubSeq(s, 1, n)
           Z == {n \in Nat : /\ (\A k \in 1 .. n : s[k] \in S) => Only(pre(n), S) = pre(n)
                             /\ (\A k \in 1 .. n : s[k] \notin S) => Only(pre(n), S) = << >>}
<1>1. 0 \in Z
  <2>1. pre(0) = << >>
    BY SubSeqEmpty
  <2>2. Only(<< >>, S) = << >>
    BY OnlyOne
  <2> HIDE DEF pre
  <2> QED
    BY <2>1, <2>2
<1>2. ASSUME NEW n \in 0 .. (Len(s) - 1), n \in Z
      PROVE  n + 1 \in Z
  <2>1. /\ pre(n) \in Seq(T) /\ s[n + 1] \in T /\ <<s[n + 1]>> \in Seq(T)
        /\ pre(n + 1) = pre(n) \o <<s[n + 1]>>
    BY PrefixAppend
  <2>2. PICK p, x : p = pre(n) /\ x = s[n + 1]
    OBVIOUS
  <2> HIDE DEF pre
  <2>3. PICK y : y = <<x>>
    OBVIOUS
  <2>4. p \in Seq(T) /\ x \in T /\ pre(n + 1) = p \o y /\ y \in Seq(T)
    BY <2>1, <2>2, <2>3
  <2>5. Only(p \o y, S) = Only(p, S) \o (IF x \in S THEN y ELSE << >>)
    <3>1. Only(p \o y, S) = Only(p, S) \o Only(y, S)
      BY <2>4, OnlyConcat
    <3>2. Only(y, S) = IF x \in S THEN y ELSE << >>
      BY <2>3, <2>4, OnlyOne
    <3> QED
      BY <3>1, <3>2
  <2>6. n \in Nat /\ 1 .. n \subseteq 1 .. (n + 1) /\ n + 1 \in 1 .. (n + 1)
    OBVIOUS
  <2>7. ASSUME \A k \in 1 .. (n + 1) : s[k] \in S
        PROVE  Only(pre(n + 1), S) = pre(n + 1)
    <3>1. Only(p, S) = p /\ x \in S
      BY <1>2, <2>2, <2>6, <2>7
    <3> QED
      BY <2>4, <2>5, <3>1
  <2>8. ASSUME \A k \in 1 .. (n + 1) : s[k] \notin S
        PROVE  Only(pre(n + 1), S) = << >>
    <3>1. Only(p, S) = << >> /\ x \notin S
      BY <1>2, <2>2, <2>6, <2>8
    <3>2. << >> \o << >> = << >>
      BY ConcatEmptySeq
    <3> QED
      BY <2>4, <2>5, <3>1, <3>2
  <2> QED
    BY <2>6, <2>7, <2>8
<1>3. Len(s) \in Nat /\ DOMAIN s = 1 .. Len(s)
  OBVIOUS
<1>4. 0 .. Len(s) \subseteq Z
  <2> HIDE DEF Z
  <2> QED
    BY <1>1, <1>2, <1>3, BoundedInduction
<1>5. Len(s) \in Z /\ pre(Len(s)) = s
  BY <1>3, <1>4, SubSeqFull
<1> QED
  BY <1>3, <1>5

\* What Only picks are elements of the sequence that are in S.
LEMMA OnlyElements ==
    ASSUME NEW T, NEW s \in Seq(T), NEW S
    PROVE  Only(s, S) \in Seq(T \cap S)
<1> DEFINE pre(n) == SubSeq(s, 1, n)
           Z == {n \in Nat : Only(pre(n), S) \in Seq(T \cap S)}
<1>1. 0 \in Z
  <2>1. pre(0) = << >>
    BY SubSeqEmpty
  <2>2. Only(<< >>, S) = << >>
    BY OnlyOne
  <2>3. << >> \in Seq(T \cap S)
    BY EmptySeq
  <2> HIDE DEF pre
  <2>4. Only(pre(0), S) \in Seq(T \cap S)
    BY <2>1, <2>2, <2>3
  <2> QED
    BY <2>4
<1>2. ASSUME NEW n \in 0 .. (Len(s) - 1), n \in Z
      PROVE  n + 1 \in Z
  <2>1. /\ pre(n) \in Seq(T) /\ s[n + 1] \in T /\ <<s[n + 1]>> \in Seq(T)
        /\ pre(n + 1) = pre(n) \o <<s[n + 1]>>
    BY PrefixAppend
  <2>2. PICK p, x : p = pre(n) /\ x = s[n + 1]
    OBVIOUS
  <2> HIDE DEF pre
  <2>3. PICK y : y = <<x>>
    OBVIOUS
  <2>4. p \in Seq(T) /\ x \in T /\ pre(n + 1) = p \o y /\ y \in Seq(T)
    BY <2>1, <2>2, <2>3
  <2>5. Only(p \o y, S) = Only(p, S) \o (IF x \in S THEN y ELSE << >>)
    <3>1. Only(p \o y, S) = Only(p, S) \o Only(y, S)
      BY <2>4, OnlyConcat
    <3>2. Only(y, S) = IF x \in S THEN y ELSE << >>
      BY <2>3, <2>4, OnlyOne
    <3> QED
      BY <3>1, <3>2
  <2>6. PICK X, o : X = T \cap S /\ o = Only(p, S)
    OBVIOUS
  <2>7. o \in Seq(X)
    BY <1>2, <2>2, <2>6
  <2>8. (IF x \in S THEN y ELSE << >>) \in Seq(X)
    <3>1. x \in S => x \in X
      BY <2>4, <2>6
    <3>2. x \in S => <<x>> \in Seq(X)
      BY <3>1
    <3> QED
      BY <2>3, <3>2, EmptySeq
  <2>9. o \o (IF x \in S THEN y ELSE << >>) \in Seq(X)
    BY <2>7, <2>8
  <2>10. Only(pre(n + 1), S) \in Seq(X)
    BY <2>4, <2>5, <2>6, <2>9
  <2> QED
    BY <2>6, <2>10
<1>3. Len(s) \in Nat /\ DOMAIN s = 1 .. Len(s)
  OBVIOUS
<1>4. 0 .. Len(s) \subseteq Z
  <2> HIDE DEF Z
  <2> QED
    BY <1>1, <1>2, <1>3, BoundedInduction
<1>5. Len(s) \in Z /\ pre(Len(s)) = s
  BY <1>3, <1>4, SubSeqFull
<1> QED
  BY <1>5

-----------------------------------------------------------------------------
(***************************************************************************)
(* Requests                                                                *)
(***************************************************************************)

\* Item i begins a request: it is not in a row of quiet gets.
Start(i) == i = 1 \/ stream[i - 1].op # "getkq"

\* The items of a request: quiet gets and what ends them, or a single item.
Complete(list) ==
    /\ list # << >>
    /\ \A k \in DOMAIN list : stream[list[k]].op = "getkq" <=> k < Len(list)
    /\ Len(list) > 1 => stream[list[Len(list)]].op = "noop"

\* Where the elements of a concatenation come from.
LEMMA ConcatAt ==
    ASSUME NEW T, NEW a \in Seq(T), NEW b \in Seq(T)
    PROVE  /\ a \o b \in Seq(T) /\ Len(a \o b) = Len(a) + Len(b)
           /\ \A k \in 1 .. Len(a) : (a \o b)[k] = a[k]
           /\ \A k \in 1 .. Len(b) : (a \o b)[Len(a) + k] = b[k]
<1>1. Len(a) \in Nat /\ Len(b) \in Nat
  OBVIOUS
<1>2. a \o b \in Seq(T) /\ Len(a \o b) = Len(a) + Len(b)
  OBVIOUS
<1>3. \A k \in 1 .. Len(a) : (a \o b)[k] = a[k]
  OBVIOUS
<1>4. ASSUME NEW k \in 1 .. Len(b)
      PROVE  (a \o b)[Len(a) + k] = b[k]
  <2>1. Len(a) + k \in 1 .. (Len(a) + Len(b)) /\ ~ (Len(a) + k <= Len(a)) /\ (Len(a) + k) - Len(a) = k
    BY <1>1
  <2> QED
    BY <2>1
<1> QED
  BY <1>2, <1>3, <1>4

\* The byte that follows u.
Following(u) == IF u[2] + 1 < RequestLen(u[1]) THEN <<u[1], u[2] + 1>> ELSE <<u[1] + 1, 0>>

\* s are the bytes of the first m items, one after the other.
Chained(s, m) ==
    /\ s = << >> <=> m = 0
    /\ m > 0 => s[1] = <<1, 0>> /\ s[Len(s)] = <<m, RequestLen(m) - 1>>
    /\ \A k \in 1 .. Len(s) : s[k][2] < RequestLen(s[k][1])
    /\ \A k \in 1 .. (Len(s) - 1) : s[k + 1] = Following(s[k])

\* One more item.
LEMMA ChainItem ==
    ASSUME NEW X, NEW s \in Seq(X), NEW m \in Nat, Chained(s, m),
           NEW q, q = [p \in 1 .. RequestLen(m + 1) |-> <<m + 1, p - 1>>], q \in Seq(X)
    PROVE  Chained(s \o q, m + 1)
<1>1. PICK len \in {1, 2} : len = RequestLen(m + 1)
  BY DEF RequestLen
<1>2. Len(q) = len /\ \A p \in 1 .. len : q[p] = <<m + 1, p - 1>>
  BY <1>1
<1>3. PICK t : t = s \o q
  OBVIOUS
<1>4. PICK n \in Nat : n = Len(s)
  OBVIOUS
<1>5. /\ t \in Seq(X) /\ Len(t) = n + len
      /\ \A k \in 1 .. n : t[k] = s[k]
      /\ \A k \in 1 .. len : t[n + k] = q[k]
  <2>1. PICK z \in Seq(X) : z = q
    OBVIOUS
  <2>2. /\ s \o z \in Seq(X) /\ Len(s \o z) = Len(s) + Len(z)
        /\ \A k \in 1 .. Len(s) : (s \o z)[k] = s[k]
        /\ \A k \in 1 .. Len(z) : (s \o z)[Len(s) + k] = z[k]
    BY ONLY s \in Seq(X), z \in Seq(X), ConcatAt
  <2> QED
    BY <1>2, <1>3, <1>4, <2>1, <2>2
<1>6. m = 0 <=> n = 0
  BY <1>4, EmptySeq DEF Chained
<1>7. t # << >> /\ m + 1 # 0
  BY <1>5
<1>8. t[1] = <<1, 0>>
  <2>1. CASE n = 0
    <3>1. 1 \in 1 .. len /\ n + 1 = 1 /\ m = 0
      BY <1>6, <2>1
    <3>2. t[n + 1] = q[1] /\ q[1] = <<m + 1, 1 - 1>>
      BY <1>2, <1>5, <3>1
    <3> QED
      BY <3>1, <3>2
  <2>2. CASE n # 0
    BY <1>5, <1>6, <2>2 DEF Chained
  <2> QED
    BY <2>1, <2>2
<1>9. t[Len(t)] = <<m + 1, RequestLen(m + 1) - 1>>
  BY <1>1, <1>2, <1>5
<1>10. ASSUME NEW k \in 1 .. Len(t)
       PROVE  t[k][2] < RequestLen(t[k][1])
  <2>1. CASE k <= n
    BY <1>4, <1>5, <2>1 DEF Chained
  <2>2. CASE k > n
    <3>1. PICK j \in 1 .. len : k = n + j
      <4>1. k - n \in 1 .. len /\ k = n + (k - n)
        BY <1>5, <2>2
      <4> QED
        BY <4>1
    <3>2. t[k] = <<m + 1, j - 1>>
      BY <1>2, <1>5, <3>1
    <3>3. j - 1 < len
      BY <3>1
    <3> QED
      BY <1>1, <3>2, <3>3
  <2> QED
    BY <1>5, <2>1, <2>2
<1>11. ASSUME NEW k \in 1 .. (Len(t) - 1)
       PROVE  t[k + 1] = Following(t[k])
  <2>1. CASE k < n
    <3>1. k \in 1 .. (Len(s) - 1) /\ k \in 1 .. n /\ k + 1 \in 1 .. n
      BY <1>4, <2>1
    <3>2. s[k + 1] = Following(s[k])
      BY <3>1 DEF Chained
    <3>3. t[k] = s[k] /\ t[k + 1] = s[k + 1]
      BY <1>5, <3>1
    <3> QED
      BY <3>2, <3>3
  <2>2. CASE k = n
    <3>1. m > 0 /\ n \in 1 .. n
      BY <1>6, <2>2
    <3>2. t[k] = <<m, RequestLen(m) - 1>>
      BY <1>4, <1>5, <2>2, <3>1 DEF Chained
    <3>3. t[k + 1] = <<m + 1, 0>>
      <4>1. 1 \in 1 .. len
        OBVIOUS
      <4>2. t[n + 1] = q[1] /\ q[1] = <<m + 1, 1 - 1>>
        BY <1>2, <1>5, <4>1
      <4> QED
        BY <2>2, <4>2
    <3>4. RequestLen(m) \in {1, 2}
      BY DEF RequestLen
    <3>5. PICK l \in {1, 2} : l = RequestLen(m)
      BY <3>4
    <3>6. ~ ((l - 1) + 1 < l)
      BY <3>5
    <3> QED
      BY <3>2, <3>3, <3>5, <3>6 DEF Following
  <2>3. CASE k > n
    <3>1. k = n + 1 /\ len = 2
      BY <1>5, <2>3
    <3>2. t[k] = <<m + 1, 0>>
      BY <1>2, <1>5, <3>1
    <3>3. t[k + 1] = <<m + 1, 1>>
      <4>1. k + 1 = n + 2 /\ 2 \in 1 .. len
        BY <3>1
      <4>2. t[n + 2] = q[2] /\ q[2] = <<m + 1, 2 - 1>>
        BY <1>2, <1>5, <4>1
      <4> QED
        BY <4>1, <4>2
    <3>4. RequestLen(m + 1) = 2
      BY <1>1, <3>1
    <3> QED
      BY <3>2, <3>3, <3>4 DEF Following
  <2> QED
    BY <1>5, <2>1, <2>2, <2>3
<1>12. Chained(t, m + 1)
  BY <1>7, <1>8, <1>9, <1>10, <1>11 DEF Chained
<1> QED
  BY <1>3, <1>12

\* The client's bytes are those of its items, one after the other.
LEMMA BytesChained ==
    ASSUME StreamOK
    PROVE  Chained(Bytes, Len(stream))
<1>1. PICK X : X = (DOMAIN stream) \X {0, 1}
  OBVIOUS
<1>2. PICK n \in Nat : n = Len(stream) /\ DOMAIN stream = 1 .. n
  BY StreamType
<1> DEFINE part(i) == [p \in 1 .. RequestLen(i) |-> <<i, p - 1>>]
<1>3. ASSUME NEW i \in DOMAIN stream
      PROVE  part(i) \in Seq(X)
  <2>1. PICK k \in {1, 2} : k = RequestLen(i)
    BY DEF RequestLen
  <2>2. \A p \in 1 .. k : p - 1 \in {0, 1}
    BY <2>1
  <2>3. [p \in 1 .. k |-> <<i, p - 1>>] \in [1 .. k -> X]
    BY <1>1, <2>2
  <2>4. part(i) \in [1 .. k -> X] /\ k \in Nat
    BY <2>1, <2>3
  <2> HIDE DEF part
  <2> QED
    BY <2>4, FunctionIsSeq
<1>4. PICK W : W = Seq(X)
  OBVIOUS
<1>5. PICK ss : ss = [i \in DOMAIN stream |-> part(i)]
  OBVIOUS
<1>6. ss \in Seq(W) /\ Len(ss) = n /\ \A i \in 1 .. n : ss[i] = part(i)
  <2> HIDE DEF part
  <2>1. ss \in [1 .. n -> W]
    BY <1>2, <1>3, <1>4, <1>5
  <2>2. \A i \in 1 .. n : ss[i] = part(i)
    BY <1>2, <1>5
  <2> QED
    BY <2>1, <2>2, FunctionIsSeq
<1> DEFINE pre(m) == FlattenSeq(SubSeq(ss, 1, m))
           S == {m \in Nat : pre(m) \in Seq(X) /\ Chained(pre(m), m)}
<1>7. 0 \in S
  <2>1. pre(0) = << >>
    <3>1. SubSeq(ss, 1, 0) = << >>
      BY <1>6
    <3> QED
      BY <3>1 DEF FlattenSeq
  <2>2. << >> \in Seq(X) /\ Chained(<< >>, 0)
    BY DEF Chained
  <2> HIDE DEF pre
  <2> QED
    BY <2>1, <2>2
<1>8. ASSUME NEW m \in 0 .. (n - 1), m \in S
      PROVE  m + 1 \in S
  <2>1. m \in 0 .. (Len(ss) - 1) /\ m \in Nat /\ m + 1 \in 1 .. n
    BY <1>6
  <2>2. PICK a, s : a = SubSeq(ss, 1, m) /\ s = ss[m + 1]
    OBVIOUS
  <2>3. a \in Seq(W) /\ s \in W /\ SubSeq(ss, 1, m + 1) = Append(a, s)
    BY <1>6, <2>1, <2>2, PrefixAppend
  <2>4. FlattenSeq(Append(a, s)) = FlattenSeq(a) \o s
    <3>1. a \in Seq(Seq(X)) /\ s \in Seq(X)
      BY <1>4, <2>3
    <3> QED
      BY <3>1, FlattenAppend
  <2>5. PICK b : b = pre(m)
    OBVIOUS
  <2>6. b \in Seq(X) /\ Chained(b, m) /\ pre(m + 1) = b \o s
    BY <1>8, <2>2, <2>3, <2>4, <2>5
  <2>7. s = [p \in 1 .. RequestLen(m + 1) |-> <<m + 1, p - 1>>] /\ s \in Seq(X)
    BY <1>4, <1>6, <2>1, <2>2, <2>3
  <2>8. Chained(b \o s, m + 1)
    <3> HIDE DEF pre, S, part
    <3> QED
      BY <2>1, <2>6, <2>7, ChainItem
  <2>9. b \o s \in Seq(X)
    BY <2>6, <2>7
  <2> HIDE DEF pre
  <2>10. pre(m + 1) \in Seq(X) /\ Chained(pre(m + 1), m + 1)
    BY <2>6, <2>8, <2>9, Zenon
  <2>11. m + 1 \in Nat
    BY <2>1
  <2> QED
    BY <2>10, <2>11
<1>9. n \in S
  <2> HIDE DEF S
  <2>1. 0 .. n \subseteq S
    BY <1>7, <1>8, BoundedInduction
  <2> QED
    BY <2>1
<1>10. SubSeq(ss, 1, n) = ss
  BY <1>6
<1>11. pre(n) = Bytes
  BY <1>5, <1>10 DEF Bytes
<1> QED
  BY <1>2, <1>9, <1>11

\* Items are counted into requests in the order of the stream.
LEMMA RequestOrder ==
    ASSUME NEW i \in Nat \ {0}, NEW j \in Nat, i <= j
    PROVE  /\ RequestOf(i) \in Nat /\ RequestOf(j) \in Nat /\ RequestOf(i) <= RequestOf(j)
           /\ (\A m \in i .. (j - 1) : stream[m].op = "getkq") => RequestOf(i) = RequestOf(j)
           /\ (\E m \in i .. (j - 1) : stream[m].op # "getkq") => RequestOf(i) < RequestOf(j)
<1> DEFINE E(k) == {m \in 1 .. (k - 1) : stream[m].op # "getkq"}
<1>1. \A k \in Nat : IsFiniteSet(E(k)) /\ Cardinality(E(k)) \in Nat
  <2> TAKE k \in Nat
  <2>1. IsFiniteSet(1 .. (k - 1))
    BY FS_Interval
  <2>2. E(k) \in SUBSET (1 .. (k - 1))
    OBVIOUS
  <2>3. IsFiniteSet(E(k))
    BY <2>1, <2>2, FS_Subset
  <2> QED
    BY <2>3, FS_CardinalityType
<1>2. E(i) \in SUBSET E(j)
  OBVIOUS
<1>3. \A k : RequestOf(k) = 1 + Cardinality(E(k))
  BY DEF RequestOf
<1>4. (\A m \in i .. (j - 1) : stream[m].op = "getkq") => E(i) = E(j)
  OBVIOUS
<1>5. (\E m \in i .. (j - 1) : stream[m].op # "getkq") => E(i) # E(j)
  OBVIOUS
<1> HIDE DEF E
<1>6. /\ Cardinality(E(i)) <= Cardinality(E(j))
      /\ Cardinality(E(j)) = Cardinality(E(i)) => E(j) = E(i)
  BY <1>1, <1>2, FS_Subset
<1> QED
  BY <1>1, <1>3, <1>4, <1>5, <1>6

\* The items from f to z.
Row(f, z) == [k \in 1 .. (z - f + 1) |-> f + k - 1]

\* A row is a sequence.
LEMMA RowType ==
    ASSUME NEW a \in Nat \ {0}, NEW b \in Nat, a <= b + 1
    PROVE  /\ Row(a, b) \in Seq(a .. b) /\ Len(Row(a, b)) = b - a + 1
           /\ \A k \in 1 .. (b - a + 1) : Row(a, b)[k] = a + k - 1 /\ a + k - 1 \in a .. b
<1>1. PICK n \in Nat : n = b - a + 1
  OBVIOUS
<1>2. PICK r : r = Row(a, b)
  OBVIOUS
<1>3. r \in [1 .. n -> a .. b] /\ \A k \in 1 .. n : r[k] = a + k - 1 /\ a + k - 1 \in a .. b
  BY <1>1, <1>2 DEF Row
<1>4. PICK T : T = a .. b
  OBVIOUS
<1>5. r \in Seq(T) /\ Len(r) = n
  BY <1>3, <1>4, FunctionIsSeq
<1> QED
  BY <1>1, <1>2, <1>3, <1>4, <1>5

\* Two rows one after the other.
LEMMA RowConcat ==
    ASSUME NEW a \in Nat \ {0}, NEW b \in Nat, NEW c \in Nat, a <= b + 1, b <= c
    PROVE  Row(a, b) \o Row(b + 1, c) = Row(a, c)
<1>1. PICK x, y, z : x = Row(a, b) /\ y = Row(b + 1, c) /\ z = Row(a, c)
  OBVIOUS
<1>2. /\ x \in Seq(a .. b) /\ Len(x) = b - a + 1 /\ \A k \in 1 .. (b - a + 1) : x[k] = a + k - 1
      /\ y \in Seq(b + 1 .. c) /\ Len(y) = c - (b + 1) + 1
      /\ \A k \in 1 .. (c - (b + 1) + 1) : y[k] = (b + 1) + k - 1
      /\ z \in Seq(a .. c) /\ Len(z) = c - a + 1 /\ \A k \in 1 .. (c - a + 1) : z[k] = a + k - 1
  <2>1. b + 1 \in Nat \ {0} /\ b + 1 <= c + 1 /\ a <= c + 1
    OBVIOUS
  <2>2. x \in Seq(a .. b) /\ Len(x) = b - a + 1 /\ \A k \in 1 .. (b - a + 1) : x[k] = a + k - 1
    BY <1>1, RowType
  <2>3. /\ y \in Seq(b + 1 .. c) /\ Len(y) = c - (b + 1) + 1
        /\ \A k \in 1 .. (c - (b + 1) + 1) : y[k] = (b + 1) + k - 1
    BY <1>1, <2>1, RowType
  <2>4. z \in Seq(a .. c) /\ Len(z) = c - a + 1 /\ \A k \in 1 .. (c - a + 1) : z[k] = a + k - 1
    BY <1>1, <2>1, RowType
  <2> QED
    BY <2>2, <2>3, <2>4
<1>3. x \in Seq(Nat) /\ y \in Seq(Nat) /\ z \in Seq(Nat)
  <2>1. a .. b \subseteq Nat /\ b + 1 .. c \subseteq Nat /\ a .. c \subseteq Nat
    OBVIOUS
  <2> QED
    BY <1>2, <2>1, SeqMonotonic
<1>4. PICK w : w = x \o y
  OBVIOUS
<1>5. /\ w \in Seq(Nat) /\ Len(w) = Len(x) + Len(y)
      /\ \A k \in 1 .. Len(x) : w[k] = x[k]
      /\ \A k \in 1 .. Len(y) : w[Len(x) + k] = y[k]
  BY <1>3, <1>4, ConcatAt
<1>6. Len(w) = Len(z)
  BY <1>2, <1>5
<1>7. ASSUME NEW k \in 1 .. Len(z)
      PROVE  w[k] = z[k]
  <2>1. z[k] = a + k - 1
    BY <1>2
  <2>2. CASE k <= Len(x)
    <3>1. k \in 1 .. Len(x) /\ k \in 1 .. (b - a + 1)
      BY <1>2, <2>2
    <3>2. w[k] = x[k]
      BY <1>5, <3>1
    <3>3. x[k] = a + k - 1
      BY <1>2, <3>1
    <3> QED
      BY <2>1, <3>2, <3>3
  <2>3. CASE k > Len(x)
    <3>1. PICK j \in 1 .. Len(y) : k = Len(x) + j
      <4>1. k - Len(x) \in 1 .. Len(y) /\ k = Len(x) + (k - Len(x))
        BY <1>2, <2>3
      <4> QED
        BY <4>1
    <3>2. w[k] = y[j] /\ y[j] = (b + 1) + j - 1
      BY <1>2, <1>5, <3>1
    <3> QED
      BY <1>2, <2>1, <3>1, <3>2
  <2> QED
    BY <1>2, <2>2, <2>3
<1>8. w = z
  BY <1>3, <1>5, <1>6, <1>7, SeqEqual
<1> QED
  BY <1>1, <1>4, <1>8

\* The items from f to z are a request.
IsRequest(f, z) ==
    /\ f \in DOMAIN stream /\ z \in DOMAIN stream /\ f <= z
    /\ Start(f)
    /\ \A m \in f .. (z - 1) : stream[m].op = "getkq"
    /\ stream[z].op # "getkq"
    /\ f < z => stream[z].op = "noop"

\* Quiet gets are ended: a request that begins at f ends somewhere.
LEMMA RequestEnds ==
    ASSUME StreamOK, NEW f \in DOMAIN stream, Start(f)
    PROVE  \E z : IsRequest(f, z)
<1>1. PICK n \in Nat : n = Len(stream) /\ DOMAIN stream = 1 .. n
  BY StreamType
<1>2. \A i \in 1 .. n : stream[i].op = "getkq" => i < n /\ stream[i + 1].op \in {"getkq", "noop"}
  BY <1>1, StreamsAssumption DEF StreamOK
<1> DEFINE S == {j \in f .. n : stream[j].op # "getkq"}
<1>3. n \in S
  BY <1>1, <1>2
<1>4. S \in SUBSET Nat /\ S # {}
  BY <1>1, <1>3
<1>5. PICK z \in S : \A k \in S : z <= k
  <2> HIDE DEF S
  <2> QED
    BY <1>4, LeastNumber
<1>6. z \in 1 .. n /\ f <= z /\ stream[z].op # "getkq"
  BY <1>1, <1>5
<1>7. \A m \in f .. (z - 1) : stream[m].op = "getkq"
  BY <1>1, <1>5
<1>8. ASSUME f < z
      PROVE  stream[z].op = "noop"
  <2>1. z - 1 \in f .. (z - 1) /\ z - 1 \in 1 .. n /\ (z - 1) + 1 = z
    BY <1>1, <1>6, <1>8
  <2> QED
    BY <1>2, <1>6, <1>7, <2>1
<1> QED
  BY <1>1, <1>6, <1>7, <1>8, SMTT(30) DEF IsRequest

\* Which items have the number of a request.
LEMMA RequestNumbers ==
    ASSUME StreamOK, NEW f, NEW z, IsRequest(f, z)
    PROVE  /\ \A i \in DOMAIN stream : RequestOf(i) = RequestOf(f) <=> i \in f .. z
           /\ \A i \in DOMAIN stream : i > z => RequestOf(i) > RequestOf(f)
           /\ RequestOf(f) \in Nat
<1>1. PICK n \in Nat : DOMAIN stream = 1 .. n
  BY StreamType
<1>2. f \in 1 .. n /\ z \in 1 .. n /\ f <= z
  BY <1>1 DEF IsRequest
<1>3. ASSUME NEW i \in f .. z
      PROVE  RequestOf(i) = RequestOf(f)
  <2>1. f \in Nat \ {0} /\ i \in Nat /\ f <= i
    BY <1>2
  <2>2. \A m \in f .. (i - 1) : stream[m].op = "getkq"
    BY <1>2 DEF IsRequest
  <2> QED
    BY <2>1, <2>2, RequestOrder
<1>4. ASSUME NEW i \in 1 .. n, i > z
      PROVE  RequestOf(i) > RequestOf(f)
  <2>1. f \in Nat \ {0} /\ i \in Nat /\ f <= i /\ z \in f .. (i - 1)
    BY <1>2, <1>4
  <2>2. stream[z].op # "getkq"
    BY DEF IsRequest
  <2>3. RequestOf(f) \in Nat /\ RequestOf(i) \in Nat /\ RequestOf(f) < RequestOf(i)
    BY <2>1, <2>2, RequestOrder
  <2> QED
    BY <2>3
<1>5. ASSUME NEW i \in 1 .. n, i < f
      PROVE  RequestOf(i) # RequestOf(f)
  <2>1. f # 1
    BY <1>5
  <2>2. stream[f - 1].op # "getkq"
    BY <2>1 DEF IsRequest, Start
  <2>3. i \in Nat \ {0} /\ f \in Nat /\ i <= f /\ f - 1 \in i .. (f - 1)
    BY <1>2, <1>5
  <2>4. RequestOf(f) \in Nat /\ RequestOf(i) \in Nat /\ RequestOf(i) < RequestOf(f)
    BY <2>2, <2>3, RequestOrder
  <2> QED
    BY <2>4
<1>6. RequestOf(f) \in Nat
  <2>1. f \in Nat \ {0} /\ f \in Nat /\ f <= f
    BY <1>2
  <2> QED
    BY <2>1, RequestOrder
<1>7. ASSUME NEW i \in 1 .. n
      PROVE  RequestOf(i) = RequestOf(f) <=> i \in f .. z
  <2>1. CASE i < f
    BY <1>2, <1>5, <2>1
  <2>2. CASE i \in f .. z
    BY <1>3, <2>2
  <2>3. CASE i > z
    <3>1. RequestOf(i) > RequestOf(f) /\ RequestOf(i) # RequestOf(f)
      <4>1. RequestOf(i) > RequestOf(f)
        BY <1>4, <2>3
      <4>2. i \in Nat \ {0} /\ i <= i
        BY <1>7
      <4>3. RequestOf(i) \in Nat
        BY <4>2, RequestOrder
      <4> QED
        BY <1>6, <4>1, <4>3
    <3> QED
      BY <1>2, <2>3, <3>1
  <2> QED
    BY <1>2, <2>1, <2>2, <2>3
<1> QED
  BY <1>1, <1>4, <1>6, <1>7, SMTT(30)

\* The items of a request.
LEMMA RequestItems ==
    ASSUME StreamOK, NEW f, NEW z, IsRequest(f, z)
    PROVE  /\ ItemsOf(RequestOf(f)) = Row(f, z)
           /\ Complete(Row(f, z)) /\ Row(f, z) \in Seq(DOMAIN stream)
<1>1. PICK n \in Nat : DOMAIN stream = 1 .. n
  BY StreamType
<1>2. f \in 1 .. n /\ z \in 1 .. n /\ f <= z
  BY <1>1 DEF IsRequest
<1>3. PICK S : S = {i \in DOMAIN stream : RequestOf(i) = RequestOf(f)}
  OBVIOUS
<1>4. S = f .. z
  BY <1>1, <1>2, <1>3, RequestNumbers
<1>5. PICK a, b, c : a = Row(1, f - 1) /\ b = Row(f, z) /\ c = Row(z + 1, n)
  OBVIOUS
<1>6. /\ a \in Seq(1 .. (f - 1)) /\ b \in Seq(f .. z) /\ c \in Seq((z + 1) .. n)
      /\ Len(b) = z - f + 1 /\ \A k \in 1 .. (z - f + 1) : b[k] = f + k - 1
  <2>1. 1 \in Nat \ {0} /\ f - 1 \in Nat /\ 1 <= (f - 1) + 1
    BY <1>2
  <2>2. f \in Nat \ {0} /\ z \in Nat /\ f <= z + 1
    BY <1>2
  <2>3. z + 1 \in Nat \ {0} /\ n \in Nat /\ z + 1 <= n + 1
    BY <1>2
  <2>4. PICK f1, z1 : f1 = f - 1 /\ z1 = z + 1
    OBVIOUS
  <2>5. a \in Seq(1 .. f1)
    BY <1>5, <2>1, <2>4, RowType
  <2>6. b \in Seq(f .. z) /\ Len(b) = z - f + 1 /\ \A k \in 1 .. (z - f + 1) : b[k] = f + k - 1
    BY <1>5, <2>2, RowType
  <2>7. c \in Seq(z1 .. n)
    BY <1>5, <2>3, <2>4, RowType
  <2> QED
    BY <2>4, <2>5, <2>6, <2>7
<1>7. PICK T : T = 1 .. n
  OBVIOUS
<1>8. a \in Seq(T) /\ b \in Seq(T) /\ c \in Seq(T)
  <2>1. 1 .. (f - 1) \subseteq T /\ f .. z \subseteq T /\ (z + 1) .. n \subseteq T
    BY <1>2, <1>7
  <2> QED
    BY <1>6, <2>1, SeqMonotonic
<1>9. [i \in DOMAIN stream |-> i] = (a \o b) \o c
  <2>1. a \o b = Row(1, z)
    <3>1. 1 \in Nat \ {0} /\ f - 1 \in Nat /\ z \in Nat /\ 1 <= (f - 1) + 1 /\ f - 1 <= z /\ (f - 1) + 1 = f
      BY <1>2
    <3>2. Row(1, f - 1) \o Row((f - 1) + 1, z) = Row(1, z)
      BY <3>1, RowConcat
    <3> QED
      BY <1>5, <3>1, <3>2
  <2>2. Row(1, z) \o c = Row(1, n)
    <3>1. 1 \in Nat \ {0} /\ z \in Nat /\ n \in Nat /\ 1 <= z + 1 /\ z <= n
      BY <1>2
    <3> QED
      BY <1>5, <3>1, RowConcat
  <2>3. Row(1, n) = [i \in DOMAIN stream |-> i]
    <3>1. n - 1 + 1 = n /\ \A i \in 1 .. n : 1 + i - 1 = i
      OBVIOUS
    <3> QED
      BY <1>1, <3>1 DEF Row
  <2> QED
    BY <2>1, <2>2, <2>3
<1>10. Only((a \o b) \o c, S) = b
  <2>1. a \o b \in Seq(T)
    BY <1>8
  <2>2. PICK ab \in Seq(T) : ab = a \o b
    BY <2>1
  <2>3. Only(ab \o c, S) = Only(ab, S) \o Only(c, S)
    BY ONLY <1>8, ab \in Seq(T), OnlyConcat, SMTT(30)
  <2>4. Only(a \o b, S) = Only(a, S) \o Only(b, S)
    BY <1>8, OnlyConcat, SMTT(30)
  <2>5. Only(a, S) = << >>
    <3>1. PICK F : F = 1 .. (f - 1)
      OBVIOUS
    <3>2. a \in Seq(F)
      BY <1>6, <3>1
    <3>3. \A k \in DOMAIN a : a[k] \in F
      BY ONLY <3>2
    <3>4. \A k \in DOMAIN a : a[k] \notin S
      BY <1>2, <1>4, <3>1, <3>3
    <3> QED
      BY <1>8, <3>4, OnlyAll
  <2>6. Only(b, S) = b
    <3>1. b \in Seq(S)
      BY <1>4, <1>6
    <3>2. \A k \in DOMAIN b : b[k] \in S
      BY ONLY <3>1
    <3> QED
      BY <1>8, <3>2, OnlyAll
  <2>7. Only(c, S) = << >>
    <3>1. PICK z1 : z1 = z + 1
      OBVIOUS
    <3>2. \A k \in DOMAIN c : c[k] \in z1 .. n
      BY <1>6, <3>1
    <3>3. \A k \in DOMAIN c : c[k] \notin S
      BY <1>2, <1>4, <3>1, <3>2
    <3> QED
      BY <1>8, <3>3, OnlyAll
  <2>8. Only((a \o b) \o c, S) = (<< >> \o b) \o << >>
    BY <2>2, <2>3, <2>4, <2>5, <2>6, <2>7
  <2> QED
    BY <1>8, <2>8
<1>11. ItemsOf(RequestOf(f)) = b
  BY <1>3, <1>9, <1>10 DEF ItemsOf
<1>12. Complete(b)
  <2>1. Len(b) >= 1 /\ b # << >>
    BY <1>2, <1>6
  <2>2. ASSUME NEW k \in DOMAIN b
        PROVE  stream[b[k]].op = "getkq" <=> k < Len(b)
    <3>1. k \in 1 .. (z - f + 1) /\ b[k] = f + k - 1 /\ Len(b) = z - f + 1
      <4>1. DOMAIN b = 1 .. Len(b)
        BY <1>8
      <4> QED
        BY <1>6, <4>1
    <3>2. CASE k < Len(b)
      <4>1. f + k - 1 \in f .. (z - 1)
        BY <1>2, <3>1, <3>2
      <4> QED
        BY <3>1, <3>2, <4>1 DEF IsRequest
    <3>3. CASE k = Len(b)
      <4>1. f + k - 1 = z /\ ~ (k < Len(b))
        BY <1>2, <1>6, <3>1, <3>3
      <4> QED
        BY <3>1, <4>1 DEF IsRequest
    <3> QED
      BY <1>2, <3>1, <3>2, <3>3
  <2>3. ASSUME Len(b) > 1
        PROVE  stream[b[Len(b)]].op = "noop"
    <3>1. f < z /\ b[Len(b)] = z
      <4>1. Len(b) \in 1 .. (z - f + 1) /\ f + Len(b) - 1 = z
        BY <1>2, <1>6, <2>1
      <4>2. b[Len(b)] = f + Len(b) - 1
        BY <1>6, <4>1
      <4> QED
        BY <1>2, <1>6, <2>3, <4>1, <4>2
    <3> QED
      BY <3>1 DEF IsRequest
  <2> QED
    BY <2>1, <2>2, <2>3 DEF Complete
<1> QED
  BY <1>1, <1>5, <1>7, <1>8, <1>11, <1>12

\* Quiet gets have a body.
LEMMA QuietGets ==
    ASSUME StreamOK, NEW i \in DOMAIN stream
    PROVE  /\ stream[i].op \in Ops[proto] /\ stream[i].key \in DOMAIN Owner
           /\ proto \in {"binary", "text"}
           /\ stream[i].op \in {"getkq", "noop"} => proto = "binary"
           /\ stream[i].op = "getkq" => RequestLen(i) = 2 /\ ~ BadOpcode(i)
           /\ stream[i].op \in {"noop", "quit"} \/ BadOpcode(i) => RequestLen(i) = 1
<1>1. PICK S : S = [op : Ops[proto], key : DOMAIN Owner]
  OBVIOUS
<1>2. stream \in Seq(S) /\ proto \in {"binary", "text"}
  BY <1>1, StreamType
<1>3. stream[i] \in S
  BY <1>2
<1>4. stream[i].op \in Ops[proto] /\ stream[i].key \in DOMAIN Owner
  BY <1>1, <1>3
<1>5. stream[i].op \in {"getkq", "noop"} => proto = "binary"
  BY <1>2, <1>4 DEF Ops
<1> QED
  BY <1>2, <1>4, <1>5 DEF RequestLen, HasBody, BadOpcode

\* Where the items of a request lie in the bytes of the client.
LEMMA RequestBytes ==
    ASSUME StreamOK, NEW f, NEW z, IsRequest(f, z),
           NEW u \in 0 .. (Len(Bytes) - 1), Bytes[u + 1] = <<f, 0>>
    PROVE  \A d \in 0 .. (z - f) : u + 2 * d + 1 <= Len(Bytes) => Bytes[u + 2 * d + 1] = <<f + d, 0>>
<1>1. PICK B, X : B = Bytes /\ X = (DOMAIN stream) \X {0, 1}
  OBVIOUS
<1>2. B \in Seq(X) /\ Chained(B, Len(stream))
  BY <1>1, BytesType, BytesChained
<1>3. PICK b \in Nat : b = Len(B)
  BY <1>2
<1>4. \A k \in 1 .. (b - 1) : B[k + 1] = Following(B[k])
  BY <1>2, <1>3, SMTT(30) DEF Chained
<1>5. PICK l \in Nat : DOMAIN stream = 1 .. l
  BY StreamType
<1>6. f \in 1 .. l /\ z \in 1 .. l /\ f <= z /\ z - f \in Nat /\ u \in Nat
  BY <1>1, <1>3, <1>5 DEF IsRequest
<1> DEFINE S == {d \in Nat : u + 2 * d + 1 <= b => B[u + 2 * d + 1] = <<f + d, 0>>}
<1>7. 0 \in S
  <2>1. u + 2 * 0 + 1 = u + 1 /\ f + 0 = f
    BY <1>6
  <2> QED
    BY <1>1, <2>1
<1>8. ASSUME NEW d \in 0 .. ((z - f) - 1), d \in S
      PROVE  d + 1 \in S
  <2>1. d \in Nat
    OBVIOUS
  <2> SUFFICES ASSUME u + 2 * (d + 1) + 1 <= b
               PROVE  B[u + 2 * (d + 1) + 1] = <<f + (d + 1), 0>>
    BY <2>1
  <2>2. PICK k \in Nat : k = u + 2 * d + 1
    BY <1>6, <2>1
  <2>3. k \in 1 .. (b - 1) /\ k + 1 \in 1 .. (b - 1) /\ u + 2 * (d + 1) + 1 = (k + 1) + 1 /\ k <= b
    BY <1>3, <1>6, <2>1, <2>2
  <2>4. B[k] = <<f + d, 0>>
    BY <1>8, <2>2, <2>3
  <2>5. f + d \in DOMAIN stream /\ f + d \in f .. (z - 1) /\ (f + d) + 1 = f + (d + 1)
    BY <1>5, <1>6
  <2>6. stream[f + d].op = "getkq"
    BY <2>5 DEF IsRequest
  <2>7. RequestLen(f + d) = 2
    BY <2>5, <2>6, QuietGets
  <2>8. PICK i : i = f + d
    OBVIOUS
  <2>9. Following(<<i, 0>>) = <<i, 1>> /\ Following(<<i, 1>>) = <<i + 1, 0>>
    BY <2>7, <2>8 DEF Following
  <2>10. B[k + 1] = Following(B[k]) /\ B[(k + 1) + 1] = Following(B[k + 1])
    BY <1>4, <2>3
  <2>11. B[(k + 1) + 1] = <<(f + d) + 1, 0>>
    BY <2>4, <2>8, <2>9, <2>10
  <2> QED
    BY <2>3, <2>5, <2>11
<1>9. 0 .. (z - f) \subseteq S
  <2>1. PICK m \in Nat : m = z - f
    BY <1>6
  <2>2. \A d \in 0 .. (m - 1) : d \in S => d + 1 \in S
    BY <1>8, <2>1
  <2> HIDE DEF S
  <2>3. 0 .. m \subseteq S
    BY <1>7, <2>2, BoundedInduction
  <2> QED
    BY <2>1, <2>3
<1> QED
  BY <1>1, <1>3, <1>9

\* PARSE_REQ from the d-th quiet get of a request on.
ParsedFrom(r, f, z, d, size) ==
    /\ r.ret \in {"AGAIN", "SUCCESS", "ERROR", "IGNORE"}
    /\ r.ret # "AGAIN" => 2 * (z - f) < size
    /\ r.ret = "SUCCESS" => r.list = Row(f + d, z) /\ ~ (size < RequestLen(z))
    /\ r.ret = "ERROR" => BadOpcode(z)
    /\ r.ret = "IGNORE" => stream[z].op = "quit"

\* PARSE_REQ finds all of the items of a request, or none.
LEMMA ParseRow ==
    ASSUME StreamOK, NEW f, NEW z, IsRequest(f, z), NEW buf \in Seq((DOMAIN stream) \X {0, 1}),
           \A d \in 0 .. (z - f) : 2 * d < Len(buf) => buf[2 * d + 1] = <<f + d, 0>>
    PROVE  ParsedFrom(PARSE_REQ(buf), f, z, 0, Len(buf))
<1>1. PICK loop : loop = ReqLoop(buf)
  OBVIOUS
<1>2. PICK size \in Nat : size = Len(buf)
  OBVIOUS
<1>3. /\ PARSE_REQ(buf) = loop[0]
      /\ \A p \in 0 .. (size + 1) : loop[p] \in ReqResult /\ loop[p] = ReqRound(buf, loop, p)
  BY <1>1, <1>2, ReqLoopType, SMTT(30)
<1>4. PICK l \in Nat : DOMAIN stream = 1 .. l
  BY StreamType
<1>5. f \in 1 .. l /\ z \in 1 .. l /\ f <= z
  BY <1>4 DEF IsRequest
<1>6. PICK m \in Nat : m = z - f
  BY <1>5
<1> DEFINE S == {e \in Nat : 2 * (m - e) < size + 2 => ParsedFrom(loop[2 * (m - e)], f, z, m - e, size)}
<1>7. ASSUME NEW d \in 0 .. m, NEW p, p = 2 * d, p < size + 2, size <= p
      PROVE  ParsedFrom(loop[p], f, z, d, size)
  <2>1. p \in 0 .. (size + 1) /\ p >= size
    BY <1>7
  <2>2. loop[p] = [ret |-> "AGAIN", list |-> << >>]
    BY <1>2, <1>3, <2>1 DEF ReqRound
  <2>3. loop[p].ret = "AGAIN"
    BY <2>2
  <2> QED
    BY <2>3 DEF ParsedFrom
<1>8. 0 \in S
  <2>1. PICK p \in Nat : p = 2 * m
    OBVIOUS
  <2>2. ASSUME p < size
        PROVE  ParsedFrom(loop[p], f, z, m, size)
    <3>1. buf[p + 1] = <<z, 0>>
      <4>1. m \in 0 .. (z - f) /\ f + m = z
        BY <1>5, <1>6
      <4> QED
        BY <1>2, <2>1, <2>2, <4>1
    <3>2. z \in DOMAIN stream /\ stream[z].op # "getkq"
      BY DEF IsRequest
    <3>3. IsBinary(buf[p + 1]) <=> proto = "binary"
      BY <3>1 DEF IsBinary
    <3>4. p \in 0 .. (size + 1) /\ ~ (p >= size)
      BY <2>1, <2>2
    <3>5. loop[p] = ReqRound(buf, loop, p)
      BY <1>3, <3>4
    <3>6. loop[p] = IF stream[z].op = "quit" THEN [ret |-> "IGNORE", list |-> << >>]
                    ELSE IF BadOpcode(z) THEN [ret |-> "ERROR", list |-> << >>]
                    ELSE IF size < RequestLen(z) THEN [ret |-> "AGAIN", list |-> << >>]
                    ELSE [ret |-> "SUCCESS", list |-> <<z>>]
      <4>1. buf[p + 1][1] = z
        BY <3>1
      <4>2. (IsBinary(buf[p + 1]) # (proto = "binary")) = FALSE
        BY <3>3 DEF IsBinary
      <4> QED
        BY <1>2, <3>2, <3>4, <3>5, <4>1, <4>2, Zenon DEF ReqRound, TooShort
    <3>7. Row(f + m, z) = <<z>>
      <4>1. f + m = z /\ z - z + 1 = 1 /\ z + 1 - 1 = z
        BY <1>5, <1>6
      <4> QED
        BY <4>1 DEF Row
    <3>8. /\ loop[p].ret \in {"AGAIN", "SUCCESS", "ERROR", "IGNORE"}
          /\ loop[p].ret = "IGNORE" => stream[z].op = "quit"
          /\ loop[p].ret = "ERROR" => BadOpcode(z)
          /\ loop[p].ret = "SUCCESS" => loop[p].list = <<z>> /\ ~ (size < RequestLen(z))
      BY <3>6
    <3> QED
      BY <1>6, <2>1, <2>2, <3>7, <3>8 DEF ParsedFrom
  <2>3. p < size + 2 => ParsedFrom(loop[p], f, z, m, size)
    BY <1>7, <2>1, <2>2
  <2>4. m - 0 = m /\ 2 * (m - 0) = p
    BY <2>1
  <2> QED
    BY <2>3, <2>4
<1>9. ASSUME NEW e \in 0 .. (m - 1), e \in S
      PROVE  e + 1 \in S
  <2>1. PICK d \in Nat : d = m - (e + 1)
    <3>1. m - (e + 1) \in Nat
      OBVIOUS
    <3> QED
      BY <3>1
  <2>2. PICK p \in Nat : p = 2 * d
    BY <2>1
  <2>3. d \in 0 .. m /\ d + 1 = m - e /\ 2 * (m - e) = p + 2 /\ 2 * (m - (e + 1)) = p /\ e \in Nat
    BY <2>1, <2>2
  <2>4. ASSUME p < size
        PROVE  ParsedFrom(loop[p], f, z, d, size)
    <3>1. PICK i : i = f + d
      OBVIOUS
    <3>2. i \in DOMAIN stream /\ i \in f .. (z - 1) /\ i + 1 = f + (d + 1) /\ d \in 0 .. (z - f)
      BY <1>4, <1>5, <1>6, <2>1, <2>3, <3>1
    <3>3. stream[i].op = "getkq"
      BY <3>2 DEF IsRequest
    <3>4. RequestLen(i) = 2 /\ ~ BadOpcode(i)
      BY <3>2, <3>3, QuietGets
    <3>5. buf[p + 1] = <<i, 0>>
      BY <1>2, <2>2, <2>4, <3>1, <3>2
    <3>6. p \in 0 .. (size + 1) /\ ~ (p >= size) /\ p + 2 \in 0 .. (size + 1) /\ p + 2 < size + 2
      BY <2>4
    <3>7. PICK rest : rest = loop[p + 2]
      OBVIOUS
    <3>8. loop[p] = ReqRound(buf, loop, p)
      BY <1>3, <3>6
    <3>9. loop[p] = IF size < 2 THEN [ret |-> "AGAIN", list |-> << >>]
                    ELSE [rest EXCEPT !.list = <<i>> \o @]
      <4>1. buf[p + 1][1] = i
        BY <3>5
      <4>2. (IsBinary(buf[p + 1]) # (proto = "binary")) = FALSE
        BY <3>5 DEF IsBinary
      <4>3. stream[i].op # "quit"
        BY <3>3
      <4> QED
        BY <1>2, <3>3, <3>4, <3>6, <3>7, <3>8, <4>1, <4>2, <4>3, Zenon DEF ReqRound, TooShort
    <3>10. rest \in ReqResult /\ ParsedFrom(rest, f, z, d + 1, size)
      <4>1. rest \in ReqResult
        BY <1>3, <3>6, <3>7
      <4>2. ParsedFrom(loop[2 * (m - e)], f, z, m - e, size)
        BY <1>9, <2>3, <3>6
      <4> QED
        BY <2>3, <3>7, <4>1, <4>2
    <3>11. CASE size < 2
      <4>1. loop[p].ret = "AGAIN"
        BY <3>9, <3>11
      <4> QED
        BY <4>1 DEF ParsedFrom
    <3>12. CASE ~ (size < 2)
      <4>1. loop[p] = [rest EXCEPT !.list = <<i>> \o rest.list]
        BY <3>9, <3>12
      <4>2. PICK y : y = <<i>> \o rest.list
        OBVIOUS
      <4>3. loop[p].ret = rest.ret /\ loop[p].list = y
        BY <3>10, <4>1, <4>2 DEF ReqResult
      <4>4. Row(f + d, z) = <<i>> \o Row(f + (d + 1), z)
        <5>1. i \in Nat \ {0} /\ i \in Nat /\ z \in Nat /\ i <= i + 1 /\ i <= z
          BY <1>4, <1>5, <3>2
        <5>2. Row(i, i) \o Row(i + 1, z) = Row(i, z)
          BY <5>1, RowConcat
        <5>3. Row(i, i) = <<i>>
          <6>1. i - i + 1 = 1 /\ i + 1 - 1 = i
            BY <5>1
          <6> QED
            BY <6>1 DEF Row
        <5> QED
          BY <3>1, <3>2, <5>2, <5>3
      <4> QED
        BY <3>10, <4>2, <4>3, <4>4 DEF ParsedFrom
    <3> QED
      BY <3>11, <3>12
  <2>5. p < size + 2 => ParsedFrom(loop[p], f, z, d, size)
    BY <1>7, <2>2, <2>3, <2>4
  <2>6. 2 * (m - (e + 1)) < size + 2 => ParsedFrom(loop[2 * (m - (e + 1))], f, z, m - (e + 1), size)
    BY <2>1, <2>3, <2>5, Zenon
  <2>7. e + 1 \in Nat
    BY <2>3
  <2> QED
    BY <2>6, <2>7
<1>10. m \in S
  <2> HIDE DEF S
  <2>1. 0 .. m \subseteq S
    BY <1>8, <1>9, BoundedInduction
  <2> QED
    BY <2>1
<1>11. m - m = 0 /\ 2 * 0 = 0 /\ 0 < size + 2
  OBVIOUS
<1>12. ParsedFrom(loop[0], f, z, 0, size)
  BY <1>10, <1>11
<1> QED
  BY <1>2, <1>3, <1>12

\* After u bytes the client's next one begins a request, with number c or more.
Ready(u, c) ==
    u < Len(Bytes) => /\ Bytes[u + 1][2] = 0 /\ Bytes[u + 1][1] \in DOMAIN stream
                      /\ Start(Bytes[u + 1][1]) /\ RequestOf(Bytes[u + 1][1]) >= c

\* The buffer holds the bytes after u up to s, and r is what PARSE_REQ makes of it.
IsPart(buf, u, s) == buf = SubSeq(Bytes, u + 1, s)
IsParse(r, buf) == r = PARSE_REQ(buf)

\* When the bytes of request c, or the first of them, lie in the buffer,
\* PARSE_REQ finds its items as soon as they are all there, and never a part of
\* them; whenever it does not ask for more, the buffer ends where the request
\* ends.
LEMMA ParseRequest ==
    ASSUME StreamOK, NEW u \in 0 .. Len(Bytes), NEW s \in u .. Len(Bytes), NEW c \in Nat,
           NEW buf, IsPart(buf, u, s), Ready(u, c),
           \A k \in DOMAIN buf : RequestOf(buf[k][1]) <= c,
           NEW r, IsParse(r, buf), r.ret # "AGAIN"
    PROVE  /\ Ready(s, c + 1)
           /\ r.ret \in {"SUCCESS", "ERROR", "IGNORE"}
           /\ r.ret = "SUCCESS" => /\ r.list = ItemsOf(c) /\ Complete(ItemsOf(c))
                                   /\ ItemsOf(c) \in Seq(DOMAIN stream)
           /\ r.ret = "ERROR" => \E i \in DOMAIN stream : ItemsOf(c) = <<i>> /\ stream[i].op = "other"
<1> USE DEF IsPart, IsParse
<1>1. PICK B, X : B = Bytes /\ X = (DOMAIN stream) \X {0, 1}
  OBVIOUS
<1>2. B \in Seq(X) /\ Chained(B, Len(stream))
  BY <1>1, BytesType, BytesChained
<1>3. PICK b \in Nat : b = Len(B)
  BY <1>2
<1>4. u \in 0 .. b /\ s \in u .. b /\ u \in Nat /\ s \in Nat
  BY <1>1, <1>3
<1>5. PICK size \in Nat : size = s - u
  BY <1>4
<1>6. buf \in Seq(X) /\ Len(buf) = size /\ \A k \in 1 .. size : buf[k] = B[u + k]
  <2>1. buf = SubSeq(B, u + 1, s)
    BY <1>1
  <2>2. /\ \A k \in (u + 1) .. s : k \in 1 .. Len(B)
        /\ s - (u + 1) + 1 = size /\ \A k \in 1 .. size : (u + 1) + k - 1 = u + k
    BY <1>3, <1>4, <1>5
  <2>3. PICK u1 \in Nat : u1 = u + 1
    BY <1>4
  <2>4. \A k \in u1 .. s : B[k] \in X
    BY <1>2, <2>2, <2>3
  <2>5. PICK w : w = SubSeq(B, u1, s)
    OBVIOUS
  <2>6. w = [k \in 1 .. (s - u1 + 1) |-> B[k + u1 - 1]]
    BY <2>5
  <2>7. s - u1 + 1 = size /\ \A k \in 1 .. size : k + u1 - 1 = u + k /\ u + k \in u1 .. s
    BY <1>4, <1>5, <2>3
  <2>8. w \in [1 .. size -> X] /\ \A k \in 1 .. size : w[k] = B[u + k]
    BY <2>4, <2>6, <2>7
  <2>9. w \in Seq(X) /\ Len(w) = size
    BY <2>8, FunctionIsSeq
  <2> QED
    BY <2>1, <2>3, <2>5, <2>8, <2>9
<1>7. size # 0
  <2> SUFFICES ASSUME size = 0
               PROVE  r.ret = "AGAIN"
    OBVIOUS
  <2>1. 0 \in 0 .. (Len(buf) + 1) /\ 0 >= Len(buf)
    BY <1>6
  <2>2. PARSE_REQ(buf) = ReqLoop(buf)[0] /\ ReqLoop(buf)[0] = ReqRound(buf, ReqLoop(buf), 0)
    <3>1. buf \in Seq((DOMAIN stream) \X {0, 1})
      BY <1>1, <1>6
    <3> QED
      BY <2>1, <3>1, ReqLoopType
  <2>3. r = [ret |-> "AGAIN", list |-> << >>]
    BY <2>1, <2>2, Zenon DEF ReqRound
  <2> QED
    BY <2>3
<1>8. u < b /\ u + 1 \in 1 .. b /\ 1 \in 1 .. size
  BY <1>4, <1>5, <1>7
<1>9. PICK f : f = B[u + 1][1]
  OBVIOUS
<1>10. f \in DOMAIN stream /\ Start(f) /\ RequestOf(f) >= c /\ B[u + 1] = <<f, 0>>
  <2>1. B[u + 1] \in X
    BY <1>2, <1>3, <1>8
  <2> QED
    BY <1>1, <1>3, <1>8, <1>9, <2>1 DEF Ready
<1>11. PICK z : IsRequest(f, z)
  BY <1>10, RequestEnds, SMTT(30)
<1>12. PICK l \in Nat : DOMAIN stream = 1 .. l
  BY StreamType
<1>13. f \in 1 .. l /\ z \in 1 .. l /\ f <= z /\ z \in DOMAIN stream
  BY <1>11, <1>12 DEF IsRequest
<1>14. /\ \A i \in DOMAIN stream : RequestOf(i) = RequestOf(f) <=> i \in f .. z
       /\ \A i \in DOMAIN stream : i > z => RequestOf(i) > RequestOf(f)
       /\ RequestOf(f) \in Nat
  BY <1>11, RequestNumbers
<1>15. RequestOf(f) = c
  <2>1. buf[1] = B[u + 1]
    BY <1>6, <1>8
  <2>2. 1 \in DOMAIN buf
    BY <1>6, <1>8
  <2>3. RequestOf(f) <= c
    BY <1>9, <2>1, <2>2
  <2> QED
    BY <1>10, <1>14, <2>3
<1>16. ItemsOf(c) = Row(f, z) /\ Complete(Row(f, z)) /\ Row(f, z) \in Seq(DOMAIN stream)
  BY <1>11, <1>15, RequestItems
<1>17. ParsedFrom(r, f, z, 0, size)
  <2>1. \A d \in 0 .. (z - f) : u + 2 * d + 1 <= b => B[u + 2 * d + 1] = <<f + d, 0>>
    <3>1. u \in 0 .. (Len(Bytes) - 1) /\ Bytes[u + 1] = <<f, 0>>
      BY <1>1, <1>3, <1>4, <1>8, <1>10
    <3>2. \A d \in 0 .. (z - f) : u + 2 * d + 1 <= Len(Bytes) => Bytes[u + 2 * d + 1] = <<f + d, 0>>
      BY <1>11, <3>1, RequestBytes
    <3> QED
      BY <1>1, <1>3, <3>2
  <2>2. ASSUME NEW d \in 0 .. (z - f), 2 * d < Len(buf)
        PROVE  buf[2 * d + 1] = <<f + d, 0>>
    <3>1. d \in Nat /\ 2 * d + 1 \in 1 .. size /\ u + (2 * d + 1) = u + 2 * d + 1 /\ u + 2 * d + 1 <= b
      BY <1>4, <1>5, <1>6, <1>13, <2>2
    <3>2. buf[2 * d + 1] = B[u + (2 * d + 1)]
      BY <1>6, <3>1
    <3> QED
      BY <2>1, <3>1, <3>2
  <2>3. buf \in Seq((DOMAIN stream) \X {0, 1})
    BY <1>1, <1>6
  <2>4. ParsedFrom(PARSE_REQ(buf), f, z, 0, Len(buf))
    BY ONLY StreamOK, <1>11, <2>2, <2>3, ParseRow
  <2> QED
    BY <1>6, <2>4
<1>18. PICK m \in Nat : m = z - f
  BY <1>13
<1>19. 2 * m < size
  BY <1>17, <1>18 DEF ParsedFrom
<1>20. PICK k \in Nat : k = u + 2 * m + 1
  BY <1>4
<1>21. k \in 1 .. b /\ k <= s /\ B[k] = <<z, 0>>
  <2>1. k <= s /\ k <= b /\ k \in 1 .. b
    BY <1>4, <1>5, <1>19, <1>20
  <2>2. u \in 0 .. (Len(Bytes) - 1) /\ Bytes[u + 1] = <<f, 0>>
    BY <1>1, <1>3, <1>4, <1>8, <1>10
  <2>3. \A d \in 0 .. (z - f) : u + 2 * d + 1 <= Len(Bytes) => Bytes[u + 2 * d + 1] = <<f + d, 0>>
    BY <1>11, <2>2, RequestBytes
  <2>4. m \in 0 .. (z - f) /\ f + m = z
    BY <1>13, <1>18
  <2>5. Bytes[u + 2 * m + 1] = <<f + m, 0>>
    BY <1>1, <1>3, <1>20, <2>1, <2>3, <2>4
  <2> QED
    BY <1>1, <1>20, <2>1, <2>4, <2>5
<1>22. \A j \in (u + 1) .. s : B[j][1] <= z /\ B[j][1] \in DOMAIN stream
  <2> SUFFICES ASSUME NEW j \in (u + 1) .. s
               PROVE  B[j][1] <= z /\ B[j][1] \in DOMAIN stream
    OBVIOUS
  <2>1. j - u \in 1 .. size /\ u + (j - u) = j /\ j \in 1 .. b
    BY <1>4, <1>5
  <2>2. buf[j - u] = B[j] /\ j - u \in DOMAIN buf
    <3>1. PICK i \in 1 .. size : i = j - u
      BY <2>1
    <3>2. buf[i] = B[u + i]
      BY <1>6
    <3>3. i \in DOMAIN buf
      BY <1>6
    <3> QED
      BY <2>1, <3>1, <3>2, <3>3
  <2>3. RequestOf(B[j][1]) <= c
    BY <2>2
  <2>4. B[j] \in X
    BY <1>2, <1>3, <2>1
  <2>5. B[j][1] \in DOMAIN stream
    BY <1>1, <2>4
  <2>6. PICK i \in DOMAIN stream : i = B[j][1]
    BY <2>5
  <2>7. i \in Nat \ {0} /\ i \in Nat /\ i <= i
    BY <1>12
  <2>8. RequestOf(i) \in Nat
    BY <2>7, RequestOrder
  <2>9. ~ (i > z)
    BY <1>14, <1>15, <2>3, <2>6, <2>8
  <2> QED
    BY <1>12, <1>13, <2>6, <2>9, SMTT(30)
<1>23. \A j \in 1 .. (b - 1) : B[j + 1] = Following(B[j])
  BY <1>2, <1>3 DEF Chained
<1>24. ~ (size < RequestLen(z)) \/ RequestLen(z) = 1
  <2>1. BadOpcode(z) \/ stream[z].op = "quit" => RequestLen(z) = 1
    BY <1>13, QuietGets
  <2>2. r.ret \in {"SUCCESS", "ERROR", "IGNORE"}
    BY <1>17 DEF ParsedFrom
  <2> QED
    BY <1>17, <2>1, <2>2 DEF ParsedFrom
<1>25. s < b => B[s + 1] = <<z + 1, 0>>
  <2> SUFFICES ASSUME s < b
               PROVE  B[s + 1] = <<z + 1, 0>>
    OBVIOUS
  <2>1. CASE RequestLen(z) = 1
    <3>1. Following(<<z, 0>>) = <<z + 1, 0>>
      BY <2>1 DEF Following
    <3>2. ASSUME k < b
          PROVE  B[k + 1] = <<z + 1, 0>>
      <4>1. k \in 1 .. (b - 1)
        BY <1>21, <3>2
      <4>2. B[k + 1] = Following(B[k])
        BY <1>23, <4>1
      <4> QED
        BY <1>21, <3>1, <4>2
    <3>3. k = s
      <4> SUFFICES ASSUME k < s
                   PROVE  FALSE
        BY <1>4, <1>21
      <4>1. k + 1 \in (u + 1) .. s /\ k < b
        BY <1>4, <1>20
      <4>2. z + 1 <= z
        BY <1>22, <3>2, <4>1
      <4> QED
        BY <1>13, <4>2
    <3> QED
      BY <3>2, <3>3
  <2>2. CASE RequestLen(z) # 1
    <3>1. RequestLen(z) = 2
      BY <2>2 DEF RequestLen
    <3>2. size >= 2
      BY <1>24, <3>1
    <3>3. m = 0
      <4> SUFFICES ASSUME m # 0
                   PROVE  FALSE
        OBVIOUS
      <4>1. f < z
        BY <1>13, <1>18
      <4>2. stream[z].op = "noop"
        BY <1>11, <4>1 DEF IsRequest
      <4> QED
        BY <1>13, <2>2, <4>2, QuietGets
    <3>4. k = u + 1 /\ k + 1 <= s /\ k \in 1 .. (b - 1)
      BY <1>4, <1>5, <1>20, <3>2, <3>3
    <3>5. Following(<<z, 0>>) = <<z, 1>> /\ Following(<<z, 1>>) = <<z + 1, 0>>
      BY <3>1 DEF Following
    <3>6. B[k + 1] = <<z, 1>>
      BY <1>21, <1>23, <3>4, <3>5
    <3>7. ASSUME k + 1 < b
          PROVE  B[(k + 1) + 1] = <<z + 1, 0>>
      <4>1. k + 1 \in 1 .. (b - 1)
        BY <3>4, <3>7
      <4>2. B[(k + 1) + 1] = Following(B[k + 1])
        BY <1>23, <4>1
      <4> QED
        BY <3>5, <3>6, <4>2
    <3>8. k + 1 = s
      <4> SUFFICES ASSUME k + 1 < s
                   PROVE  FALSE
        BY <1>4, <3>4
      <4>1. (k + 1) + 1 \in (u + 1) .. s /\ k + 1 < b
        BY <1>4, <1>20
      <4>2. z + 1 <= z
        BY <1>22, <3>7, <4>1
      <4> QED
        BY <1>13, <4>2
    <3> QED
      BY <3>7, <3>8
  <2> QED
    BY <2>1, <2>2
<1>26. Ready(s, c + 1)
  <2> SUFFICES ASSUME s < b
               PROVE  /\ B[s + 1][2] = 0 /\ B[s + 1][1] \in DOMAIN stream
                      /\ Start(B[s + 1][1]) /\ RequestOf(B[s + 1][1]) >= c + 1
    BY <1>1, <1>3 DEF Ready
  <2>1. B[s + 1] = <<z + 1, 0>>
    BY <1>25
  <2>2. s + 1 \in 1 .. Len(B)
    BY <1>3, <1>4
  <2>3. B[s + 1] \in X
    BY <1>2, <2>2
  <2>4. PICK y : y = z + 1
    OBVIOUS
  <2>5. B[s + 1][1] = y /\ B[s + 1][2] = 0
    BY <2>1, <2>4
  <2>6. y \in DOMAIN stream
    BY <1>1, <2>3, <2>5
  <2>7. Start(y)
    <3>1. y - 1 = z
      BY <1>13, <2>4
    <3> QED
      BY <1>11, <3>1 DEF Start, IsRequest
  <2>8. y > z /\ y \in Nat \ {0} /\ y \in Nat /\ y <= y
    BY <1>12, <1>13, <2>4
  <2>9. RequestOf(y) > c /\ RequestOf(y) \in Nat
    BY <1>14, <1>15, <2>6, <2>8, RequestOrder
  <2> QED
    BY <2>5, <2>6, <2>7, <2>9
<1>27. r.ret = "ERROR" => \E i \in DOMAIN stream : ItemsOf(c) = <<i>> /\ stream[i].op = "other"
  <2> SUFFICES ASSUME r.ret = "ERROR"
               PROVE  ItemsOf(c) = <<z>> /\ stream[z].op = "other"
    BY <1>13
  <2>1. stream[z].op = "other"
    BY <1>17 DEF ParsedFrom, BadOpcode
  <2>2. f = z
    BY <1>11, <1>13, <2>1 DEF IsRequest
  <2>3. z - f + 1 = 1 /\ f + 1 - 1 = z
    BY <1>13, <2>2
  <2> QED
    BY <1>16, <2>1, <2>3 DEF Row
<1>28. r.ret = "SUCCESS" => r.list = Row(f, z)
  <2>1. f + 0 = f
    BY <1>13
  <2> QED
    BY <1>17, <2>1 DEF ParsedFrom
<1>29. r.ret \in {"SUCCESS", "ERROR", "IGNORE"}
  BY <1>17 DEF ParsedFrom
<1> QED
  BY <1>16, <1>26, <1>27, <1>28, <1>29

-----------------------------------------------------------------------------
(***************************************************************************)
(* What the hosts are asked and what they answer                           *)
(***************************************************************************)

\* What a host is asked: quiet gets, and what ends them.
Quiet == With({"getkq"})
Asks(items) == \E a \in Seq(Quiet), z \in DOMAIN stream \ Quiet : items = a \o <<z>>

\* A complete list is asked as it is.
LEMMA CompleteSplit ==
    ASSUME StreamOK, NEW L \in Seq(DOMAIN stream), Complete(L)
    PROVE  \E a \in Seq(Quiet), z \in DOMAIN stream \ Quiet :
              L = a \o <<z>> /\ (stream[z].op # "noop" => a = << >>)
<1>1. PICK T : T = DOMAIN stream
  OBVIOUS
<1>2. PICK n \in Nat : n = Len(L)
  OBVIOUS
<1>3. L \in Seq(T) /\ n >= 1
  BY <1>1, <1>2, EmptySeq DEF Complete
<1>4. n - 1 \in 0 .. (Len(L) - 1) /\ (n - 1) + 1 = n /\ n \in DOMAIN L
  BY <1>2, <1>3
<1>5. PICK m \in 0 .. (Len(L) - 1) : m = n - 1
  BY <1>4
<1>6. PICK a : a = SubSeq(L, 1, m)
  OBVIOUS
<1>7. a \in Seq(T) /\ SubSeq(L, 1, m + 1) = a \o <<L[m + 1]>>
  BY <1>3, <1>6, PrefixAppend
<1>8. L = a \o <<L[n]>>
  <2>1. SubSeq(L, 1, n) = L
    BY <1>2, <1>3
  <2> QED
    BY <1>2, <1>5, <1>7, <2>1
<1>9. L[n] \in DOMAIN stream \ Quiet
  BY <1>2, <1>4 DEF Complete, Quiet, With
<1>10. m \in Nat /\ Len(a) = m /\ \A k \in 1 .. m : a[k] = L[k]
  BY <1>2, <1>3, <1>5, <1>6
<1>11. a \in Seq(Quiet)
  <2>1. ASSUME NEW k \in 1 .. m
        PROVE  a[k] \in Quiet
    <3>1. k \in DOMAIN L /\ k < Len(L)
      BY <1>2, <1>3, <1>5
    <3>2. stream[L[k]].op = "getkq" /\ L[k] \in T
      BY <1>3, <3>1 DEF Complete
    <3> QED
      BY <1>1, <1>10, <3>2 DEF Quiet, With
  <2>2. a \in [1 .. m -> Quiet]
    BY <1>7, <1>10, <2>1
  <2> QED
    BY <1>10, <2>2, FunctionIsSeq
<1>12. ASSUME stream[L[n]].op # "noop"
       PROVE  a = << >>
  <2>1. n = 1
    BY <1>2, <1>3, <1>12 DEF Complete
  <2> QED
    BY <1>5, <1>7, <1>10, <2>1, EmptySeq
<1> QED
  BY <1>8, <1>9, <1>11, <1>12

\* s is the sequence of x alone.
IsOne(s, x) == s = <<x>>

\* The filters of the groups, for quiet gets and for what ends them.
LEMMA OnlyAsked ==
    ASSUME NEW a \in Seq(Quiet), NEW z \in DOMAIN stream, NEW y, IsOne(y, z), NEW S
    PROVE  /\ z \in S => Only(a \o y, S) = Only(a, S) \o y
           /\ z \notin S => Only(a \o y, S) = Only(a, S)
           /\ Only(a, S) \in Seq(Quiet)
           /\ S \cap Quiet = {} => Only(a, S) = << >>
           /\ Quiet \subseteq S => Only(a, S) = a
<1>1. PICK T : T = DOMAIN stream
  OBVIOUS
<1>2. y \in Seq(T)
  BY <1>1 DEF IsOne
<1>3. a \in Seq(T)
  <2>1. Quiet \subseteq T
    BY <1>1 DEF Quiet, With
  <2> QED
    BY <1>1, <2>1, SeqMonotonic
<1>4. Only(a \o y, S) = Only(a, S) \o Only(y, S)
  BY <1>2, <1>3, OnlyConcat
<1>5. Only(y, S) = IF z \in S THEN y ELSE << >>
  BY OnlyOne DEF IsOne
<1>6. Only(a, S) \in Seq(Quiet)
  BY OnlyType
<1>7. \A k \in DOMAIN a : a[k] \in Quiet
  OBVIOUS
<1>8. ASSUME S \cap Quiet = {}
      PROVE  Only(a, S) = << >>
  <2>1. \A k \in DOMAIN a : a[k] \notin S
    BY <1>7, <1>8
  <2> QED
    BY <2>1, OnlyAll
<1>9. ASSUME Quiet \subseteq S
      PROVE  Only(a, S) = a
  <2>1. \A k \in DOMAIN a : a[k] \in S
    BY <1>7, <1>9
  <2> QED
    BY <2>1, OnlyAll
<1>10. Only(a, S) \o << >> = Only(a, S)
  BY <1>6
<1> QED
  BY <1>4, <1>5, <1>6, <1>8, <1>9, <1>10

\* CREATE_REQ does not change what is in order already.
LEMMA CreateReqAsked ==
    ASSUME NEW a \in Seq(Quiet), NEW z \in DOMAIN stream \ Quiet
    PROVE  CREATE_REQ(a \o <<z>>) = a \o <<z>>
<1>1. PICK items : items = a \o <<z>>
  OBVIOUS
<1>2. PICK N, O : N = With({"noop"}) /\ O = DOMAIN stream \ N
  OBVIOUS
<1>3. N \cap Quiet = {} /\ Quiet \subseteq O /\ (z \in N <=> ~ (z \in O))
  BY <1>2 DEF Quiet, With
<1>4. Only(items, N) = << >> \o (IF z \in N THEN <<z>> ELSE << >>)
  <2>1. z \in DOMAIN stream
    OBVIOUS
  <2>2. PICK y : IsOne(y, z)
    BY DEF IsOne
  <2>3. /\ z \in N => Only(a \o y, N) = Only(a, N) \o y
        /\ z \notin N => Only(a \o y, N) = Only(a, N)
        /\ Only(a, N) = << >>
    BY ONLY a \in Seq(Quiet), <1>3, <2>1, <2>2, OnlyAsked
  <2>4. << >> \o << >> = << >>
    OBVIOUS
  <2> QED
    BY <1>1, <2>2, <2>3, <2>4 DEF IsOne
<1>5. Only(items, O) = a \o (IF z \in O THEN <<z>> ELSE << >>)
  <2>1. z \in DOMAIN stream
    OBVIOUS
  <2>2. PICK y : IsOne(y, z)
    BY DEF IsOne
  <2>3. /\ z \in O => Only(a \o y, O) = Only(a, O) \o y
        /\ z \notin O => Only(a \o y, O) = Only(a, O)
        /\ Only(a, O) = a
    BY ONLY a \in Seq(Quiet), <1>3, <2>1, <2>2, OnlyAsked
  <2>4. a \o << >> = a
    OBVIOUS
  <2> QED
    BY <1>1, <2>2, <2>3, <2>4 DEF IsOne
<1>6. CASE z \in N
  <2>1. Only(items, N) = <<z>> /\ Last(<<z>>) = z /\ <<z>> # << >>
    BY <1>4, <1>6 DEF Last
  <2>2. Only(items, O) = a
    BY <1>3, <1>5, <1>6
  <2> QED
    BY <1>1, <1>2, <2>1, <2>2 DEF CREATE_REQ
<1>7. CASE z \notin N
  <2>1. Only(items, N) = << >>
    BY <1>4, <1>7
  <2>2. Only(items, O) = a \o <<z>>
    BY <1>3, <1>5, <1>7
  <2>3. PICK T : T = DOMAIN stream
    OBVIOUS
  <2>4. a \o <<z>> \in Seq(T)
    <3>1. Quiet \subseteq T
      BY <2>3 DEF Quiet, With
    <3>2. a \in Seq(T) /\ <<z>> \in Seq(T)
      BY <2>3, <3>1, SeqMonotonic
    <3> QED
      BY <3>2
  <2>5. (a \o <<z>>) \o << >> = a \o <<z>>
    BY <1>1, <2>4
  <2> QED
    BY <1>1, <1>2, <2>1, <2>2, <2>5 DEF CREATE_REQ
<1> QED
  BY <1>6, <1>7

\* What the hosts of the first round are asked for a complete request.
LEMMA ReqGroupAsks ==
    ASSUME StreamOK, NEW L \in Seq(DOMAIN stream), Complete(L),
           NEW h \in DOMAIN createReqGroup(L)
    PROVE  /\ h \in Hosts
           /\ CREATE_REQ(createReqGroup(L)[h]) = Keyed(L, Owner, h) \o Only(L, With({"noop"}))
           /\ Asks(CREATE_REQ(createReqGroup(L)[h]))
<1>1. PICK a \in Seq(Quiet), z \in DOMAIN stream \ Quiet :
         L = a \o <<z>> /\ (stream[z].op # "noop" => a = << >>)
  BY CompleteSplit
<1>2. PICK N, S : N = With({"noop"}) /\ S = {i \in DOMAIN stream \ With({"noop", "other"}) :
                                               Owner[stream[i].key] = h}
  OBVIOUS
<1>3. /\ h \in Hosts /\ Keyed(L, Owner, h) # << >>
      /\ createReqGroup(L)[h] = Keyed(L, Owner, h) \o Only(L, N)
  BY <1>2 DEF createReqGroup, Grouped
<1>4. Keyed(L, Owner, h) = Only(L, S)
  BY <1>2 DEF Keyed
<1>5. /\ Only(L, S) = Only(a, S) \o (IF z \in S THEN <<z>> ELSE << >>)
      /\ Only(a, S) \in Seq(Quiet)
  <2>1. z \in DOMAIN stream
    OBVIOUS
  <2>2. PICK y : IsOne(y, z)
    BY DEF IsOne
  <2>3. /\ z \in S => Only(a \o y, S) = Only(a, S) \o y
        /\ z \notin S => Only(a \o y, S) = Only(a, S)
        /\ Only(a, S) \in Seq(Quiet)
    BY ONLY a \in Seq(Quiet), <2>1, <2>2, OnlyAsked, SMTT(30)
  <2>4. Only(a, S) \o << >> = Only(a, S)
    BY <2>3
  <2> QED
    BY <1>1, <2>2, <2>3, <2>4 DEF IsOne
<1>6. Only(L, N) = IF z \in N THEN <<z>> ELSE << >>
  <2>1. N \cap Quiet = {}
    BY <1>2 DEF Quiet, With
  <2>2. z \in DOMAIN stream
    OBVIOUS
  <2>3. PICK y : IsOne(y, z)
    BY DEF IsOne
  <2>4. /\ z \in N => Only(a \o y, N) = Only(a, N) \o y
        /\ z \notin N => Only(a \o y, N) = Only(a, N)
        /\ Only(a, N) = << >>
    BY ONLY a \in Seq(Quiet), <2>1, <2>2, <2>3, OnlyAsked
  <2>5. << >> \o <<z>> = <<z>>
    OBVIOUS
  <2> QED
    BY <1>1, <2>3, <2>4, <2>5 DEF IsOne
<1>7. \E b \in Seq(Quiet) : Keyed(L, Owner, h) \o Only(L, N) = b \o <<z>>
  <2>1. CASE z \in N
    <3>1. z \notin S
      BY <1>2, <2>1 DEF With
    <3>2. PICK b \in Seq(Quiet) : b = Only(a, S)
      BY <1>5
    <3>3. b \o << >> = b
      OBVIOUS
    <3>4. Keyed(L, Owner, h) = b /\ Only(L, N) = <<z>>
      BY <1>4, <1>5, <1>6, <2>1, <3>1, <3>2, <3>3
    <3> QED
      BY <3>4
  <2>2. CASE z \notin N
    <3>1. a = << >>
      BY <1>1, <1>2, <2>2 DEF With
    <3>2. Only(a, S) = << >>
      BY <3>1, OnlyOne
    <3>3. Keyed(L, Owner, h) = IF z \in S THEN <<z>> ELSE << >>
      BY <1>4, <1>5, <3>2
    <3>4. Keyed(L, Owner, h) = <<z>>
      BY <1>3, <3>3
    <3>5. Only(L, N) = << >>
      BY <1>6, <2>2
    <3>6. <<z>> \o << >> = << >> \o <<z>> /\ << >> \in Seq(Quiet)
      OBVIOUS
    <3> QED
      BY <3>4, <3>5, <3>6
  <2> QED
    BY <2>1, <2>2
<1>8. PICK b \in Seq(Quiet) : Keyed(L, Owner, h) \o Only(L, N) = b \o <<z>>
  BY <1>7
<1>9. CREATE_REQ(b \o <<z>>) = b \o <<z>>
  BY CreateReqAsked
<1>10. CREATE_REQ(createReqGroup(L)[h]) = b \o <<z>>
  BY <1>3, <1>8, <1>9
<1>11. Asks(CREATE_REQ(createReqGroup(L)[h]))
  BY <1>10 DEF Asks
<1> QED
  BY <1>2, <1>3, <1>8, <1>10, <1>11

\* What the host of the second round is asked: the one write of the request.
LEMMA SyncGroupAsks ==
    ASSUME StreamOK, NEW L \in Seq(DOMAIN stream), Complete(L),
           NEW h \in DOMAIN createSyncGroup(L)
    PROVE  /\ h \in Hosts /\ DOMAIN createSyncGroup(L) = {h}
           /\ CREATE_REQ(createSyncGroup(L)[h]) = Keyed(L, Backup, h)
           /\ Only(L, With({"noop"})) = << >>
           /\ Asks(CREATE_REQ(createSyncGroup(L)[h]))
<1>1. PICK a \in Seq(Quiet), z \in DOMAIN stream \ Quiet :
         L = a \o <<z>> /\ (stream[z].op # "noop" => a = << >>)
  BY CompleteSplit
<1>2. PICK C : C = {i \in With({"set"}) : stream[i].key \in SyncKeys}
  OBVIOUS
<1>3. Only(L, C) = IF z \in C THEN <<z>> ELSE << >>
  <2>1. C \cap Quiet = {}
    BY <1>2 DEF Quiet, With
  <2>2. z \in DOMAIN stream
    OBVIOUS
  <2>3. PICK y : IsOne(y, z)
    BY DEF IsOne
  <2>4. /\ z \in C => Only(a \o y, C) = Only(a, C) \o y
        /\ z \notin C => Only(a \o y, C) = Only(a, C)
        /\ Only(a, C) = << >>
    BY ONLY a \in Seq(Quiet), <2>1, <2>2, <2>3, OnlyAsked
  <2>5. << >> \o <<z>> = <<z>>
    OBVIOUS
  <2> QED
    BY <1>1, <2>3, <2>4, <2>5 DEF IsOne
<1>4. \A g : Keyed(<< >>, Backup, g) = << >>
  BY OnlyOne DEF Keyed
<1>5. createSyncGroup(L) = Grouped(Only(L, C), Backup)
  BY <1>2 DEF createSyncGroup
<1>6. z \in C
  BY <1>3, <1>4, <1>5 DEF Grouped
<1>7. a = << >> /\ stream[z].op = "set"
  BY <1>1, <1>2, <1>6 DEF With
<1>8. L = <<z>>
  BY <1>1, <1>7
<1>9. createSyncGroup(L) = Grouped(L, Backup)
  BY <1>3, <1>5, <1>6, <1>8
<1>10. \A g : Keyed(L, Backup, g) = IF Backup[stream[z].key] = g THEN <<z>> ELSE << >>
  <2> TAKE g
  <2>1. Keyed(<<z>>, Backup, g) =
           IF z \in {i \in DOMAIN stream \ With({"noop", "other"}) : Backup[stream[i].key] = g}
           THEN <<z>> ELSE << >>
    BY OnlyOne DEF Keyed
  <2>2. z \in DOMAIN stream \ With({"noop", "other"})
    BY <1>7 DEF With
  <2> QED
    BY <1>8, <2>1, <2>2
<1>11. /\ h \in Hosts /\ Backup[stream[z].key] = h /\ DOMAIN createSyncGroup(L) = {h}
       /\ createSyncGroup(L)[h] = <<z>> /\ Keyed(L, Backup, h) = <<z>>
  BY <1>9, <1>10 DEF Grouped
<1>12. CREATE_REQ(<<z>>) = <<z>>
  <2>1. << >> \in Seq(Quiet) /\ << >> \o <<z>> = <<z>>
    OBVIOUS
  <2> QED
    BY <2>1, CreateReqAsked
<1>13. Asks(<<z>>)
  <2>1. << >> \in Seq(Quiet) /\ <<z>> = << >> \o <<z>>
    OBVIOUS
  <2> QED
    BY <2>1 DEF Asks
<1>14. Only(L, With({"noop"})) = << >>
  <2>1. z \notin With({"noop"})
    BY <1>7 DEF With
  <2>2. Only(<<z>>, With({"noop"})) = IF z \in With({"noop"}) THEN <<z>> ELSE << >>
    BY OnlyOne
  <2> QED
    BY <1>8, <2>1, <2>2
<1> QED
  BY <1>11, <1>12, <1>13, <1>14

\* In s every answer is there from its first part to its last, in their order.
Goes(s, k) ==
    IF s[k][2] + 1 < AnswerLen(s[k][1])
    THEN k < Len(s) /\ s[k + 1][1] = s[k][1] /\ s[k + 1][2] = s[k][2] + 1
    ELSE k < Len(s) => s[k + 1][2] = 0
Joined(s) ==
    /\ s # << >> => s[1][2] = 0
    /\ \A k \in 1 .. Len(s) : Goes(s, k)

\* Answers to items in I.
JoinedSeqs(I) == {s \in Seq(Units) : Joined(s) /\ \A k \in 1 .. Len(s) : s[k][1] \in I}

\* Answers one after the other.
LEMMA JoinedConcat ==
    ASSUME NEW I, NEW a \in JoinedSeqs(I), NEW b \in JoinedSeqs(I)
    PROVE  a \o b \in JoinedSeqs(I)
<1>1. PICK U : U = Units
  OBVIOUS
<1>2. /\ a \in Seq(U) /\ b \in Seq(U) /\ Joined(a) /\ Joined(b)
      /\ \A k \in 1 .. Len(a) : a[k][1] \in I
      /\ \A k \in 1 .. Len(b) : b[k][1] \in I
  BY <1>1 DEF JoinedSeqs
<1>3. PICK m, n \in Nat : m = Len(a) /\ n = Len(b)
  BY <1>2
<1>4. PICK c : c = a \o b
  OBVIOUS
<1>5. /\ c \in Seq(U) /\ Len(c) = m + n
      /\ \A k \in 1 .. m : c[k] = a[k]
      /\ \A k \in 1 .. n : c[m + k] = b[k]
  BY <1>2, <1>3, <1>4, ConcatAt
<1>6. ASSUME NEW k \in 1 .. m
      PROVE  c[k][1] \in I /\ Goes(c, k)
  <2>1. c[k] = a[k] /\ a[k][1] \in I /\ Goes(a, k)
    BY <1>2, <1>3, <1>5 DEF Joined
  <2>2. CASE k < m
    <3>1. k + 1 \in 1 .. m /\ k < m + n
      BY <2>2
    <3>2. c[k + 1] = a[k + 1]
      BY <1>5, <3>1
    <3> QED
      BY <1>3, <1>5, <2>1, <2>2, <3>1, <3>2 DEF Goes
  <2>3. CASE k = m
    <3>1. ~ (a[k][2] + 1 < AnswerLen(a[k][1]))
      BY <1>3, <2>1, <2>3 DEF Goes
    <3>2. ASSUME k < Len(c)
          PROVE  c[k + 1][2] = 0
      <4>1. 1 \in 1 .. n /\ m + 1 = k + 1
        BY <1>5, <2>3, <3>2
      <4>2. c[m + 1] = b[1]
        BY <1>5, <4>1
      <4>3. b[1][2] = 0
        <5>1. b # << >>
          BY <1>2, <1>3, <4>1
        <5> QED
          BY <1>2, <5>1 DEF Joined
      <4> QED
        BY <4>1, <4>2, <4>3
    <3> QED
      BY <2>1, <3>1, <3>2 DEF Goes
  <2> QED
    BY <2>1, <2>2, <2>3
<1>7. ASSUME NEW j \in 1 .. n
      PROVE  c[m + j][1] \in I /\ Goes(c, m + j)
  <2>1. c[m + j] = b[j] /\ b[j][1] \in I /\ Goes(b, j)
    BY <1>2, <1>3, <1>5 DEF Joined
  <2>2. m + j < Len(c) <=> j < Len(b)
    BY <1>3, <1>5
  <2>3. j < Len(b) => c[(m + j) + 1] = b[j + 1]
    <3> SUFFICES ASSUME j < Len(b)
                 PROVE  c[(m + j) + 1] = b[j + 1]
      OBVIOUS
    <3>1. j + 1 \in 1 .. n /\ m + (j + 1) = (m + j) + 1
      BY <1>3
    <3>2. c[m + (j + 1)] = b[j + 1]
      BY <1>5, <3>1
    <3> QED
      BY <3>1, <3>2
  <2> QED
    BY <2>1, <2>2, <2>3 DEF Goes
<1>8. ASSUME NEW k \in 1 .. Len(c)
      PROVE  c[k][1] \in I /\ Goes(c, k)
  <2>1. CASE k \in 1 .. m
    BY <1>6, <2>1
  <2>2. CASE k \notin 1 .. m
    <3>1. PICK j \in 1 .. n : k = m + j
      <4>1. k - m \in 1 .. n /\ k = m + (k - m)
        BY <1>5, <2>2
      <4> QED
        BY <4>1
    <3> QED
      BY <1>7, <3>1
  <2> QED
    BY <2>1, <2>2
<1>9. ASSUME c # << >>
      PROVE  c[1][2] = 0
  <2>1. CASE m # 0
    <3>1. 1 \in 1 .. m /\ a # << >>
      BY <1>3, <2>1
    <3> QED
      BY <1>2, <1>5, <3>1 DEF Joined
  <2>2. CASE m = 0
    <3>1. n # 0
      BY <1>5, <1>9, <2>2, EmptySeq
    <3>2. 1 \in 1 .. n /\ m + 1 = 1 /\ b # << >>
      BY <1>3, <2>2, <3>1
    <3>3. c[m + 1] = b[1]
      BY <1>5, <3>2
    <3> QED
      BY <1>2, <3>2, <3>3 DEF Joined
  <2> QED
    BY <2>1, <2>2
<1>10. Joined(c)
  BY <1>8, <1>9 DEF Joined
<1> QED
  BY <1>1, <1>4, <1>5, <1>8, <1>10 DEF JoinedSeqs

\* One answer.
LEMMA AnswerJoined ==
    ASSUME NEW h \in Hosts, NEW i \in DOMAIN stream, NEW I, i \in I
    PROVE  /\ Answer(h, i) \in JoinedSeqs(I) /\ Len(Answer(h, i)) = AnswerLen(i)
           /\ \A k \in 1 .. AnswerLen(i) : Answer(h, i)[k] = <<i, k - 1, h>>
<1>1. PICK len \in 0 .. 3 : len = AnswerLen(i)
  BY AnswerLenType
<1>2. PICK U : U = Units
  OBVIOUS
<1>3. PICK a : a = [p \in 1 .. len |-> <<i, p - 1, h>>]
  OBVIOUS
<1>4. ASSUME NEW p \in 1 .. len
      PROVE  a[p] = <<i, p - 1, h>> /\ a[p] \in U
  <2>1. a[p] = <<i, p - 1, h>>
    BY <1>3
  <2>2. p - 1 \in 0 .. 8 /\ p - 1 < AnswerLen(i) /\ AnswerLen(i) >= 1
    BY <1>1
  <2>3. <<i, p - 1, h>> \in Units
    BY <2>2 DEF Units
  <2> QED
    BY <1>2, <2>1, <2>3
<1>5. a \in [1 .. len -> U] /\ len \in Nat
  BY <1>3, <1>4
<1>6. a \in Seq(U) /\ Len(a) = len
  BY <1>5, FunctionIsSeq
<1>7. ASSUME NEW k \in 1 .. len
      PROVE  a[k][1] \in I /\ Goes(a, k)
  <2>1. a[k][1] = i /\ a[k][2] = k - 1 /\ (k - 1) + 1 = k
    BY <1>4
  <2>2. CASE k < len
    <3>1. k + 1 \in 1 .. len /\ (k + 1) - 1 = k
      BY <2>2
    <3>2. a[k + 1][1] = i /\ a[k + 1][2] = k
      <4>1. a[k + 1] = <<i, (k + 1) - 1, h>>
        BY <1>4, <3>1
      <4> QED
        BY <3>1, <4>1
    <3> QED
      BY <1>1, <1>6, <2>1, <2>2, <3>2 DEF Goes
  <2>3. CASE k = len
    BY <1>1, <1>6, <2>1, <2>3 DEF Goes
  <2> QED
    BY <2>1, <2>2, <2>3
<1>8. a # << >> => a[1][2] = 0
  <2> SUFFICES ASSUME a # << >>
               PROVE  a[1][2] = 0
    OBVIOUS
  <2>1. len # 0
    BY <1>6, EmptySeq
  <2>2. 1 \in 1 .. len
    BY <2>1
  <2>3. a[1] = <<i, 1 - 1, h>>
    BY <1>4, <2>2
  <2> QED
    BY <2>3
<1>9. a \in JoinedSeqs(I)
  BY <1>2, <1>6, <1>7, <1>8 DEF JoinedSeqs, Joined
<1>10. Answer(h, i) = a
  BY <1>1, <1>3 DEF Answer
<1> QED
  BY <1>1, <1>4, <1>6, <1>9, <1>10

\* The answers to some items.
LEMMA AnswersJoined ==
    ASSUME NEW h \in Hosts, NEW I \in SUBSET DOMAIN stream, NEW items \in Seq(I)
    PROVE  Answers(h, items) \in JoinedSeqs(I)
<1> DEFINE ss == [n \in DOMAIN items |-> Answer(h, items[n])]
<1>1. PICK W : W = JoinedSeqs(I)
  OBVIOUS
<1>2. << >> \in W
  BY <1>1 DEF JoinedSeqs, Joined
<1>3. \A a, b \in W : a \o b \in W
  BY <1>1, JoinedConcat
<1>4. ss \in Seq(W)
  <2>1. PICK n \in Nat : DOMAIN items = 1 .. n
    OBVIOUS
  <2>2. \A k \in 1 .. n : items[k] \in I /\ items[k] \in DOMAIN stream
    BY <2>1
  <2>3. \A k \in 1 .. n : Answer(h, items[k]) \in W
    BY <1>1, <2>2, AnswerJoined
  <2>4. ss \in [1 .. n -> W]
    BY <2>1, <2>3
  <2> HIDE DEF ss
  <2> QED
    BY <2>4, FunctionIsSeq
<1> HIDE DEF ss
<1>5. FlattenSeq(ss) \in W
  BY <1>2, <1>3, <1>4, FlattenIn
<1> QED
  BY <1>1, <1>5 DEF Answers, ss

\* The answers to one list of items after another.
LEMMA AnswersConcat ==
    ASSUME NEW h \in Hosts, NEW a \in Seq(DOMAIN stream), NEW b \in Seq(DOMAIN stream)
    PROVE  Answers(h, a \o b) = Answers(h, a) \o Answers(h, b)
<1> DEFINE ss(s) == [n \in DOMAIN s |-> Answer(h, s[n])]
<1>1. PICK T, U : T = DOMAIN stream /\ U = Units
  OBVIOUS
<1>2. PICK W : W = Seq(U)
  OBVIOUS
<1>3. \A i \in T : Answer(h, i) \in W
  BY <1>1, <1>2, AnswerJoined DEF JoinedSeqs
<1>4. ASSUME NEW s \in Seq(T)
      PROVE  ss(s) \in Seq(W) /\ Len(ss(s)) = Len(s) /\ \A k \in 1 .. Len(s) : ss(s)[k] = Answer(h, s[k])
  <2>1. PICK n \in Nat : n = Len(s) /\ DOMAIN s = 1 .. n
    OBVIOUS
  <2>2. PICK f : f = ss(s)
    OBVIOUS
  <2>3. \A k \in 1 .. n : s[k] \in T
    BY <2>1
  <2>4. \A k \in 1 .. n : f[k] = Answer(h, s[k])
    BY <2>1, <2>2
  <2>5. f \in [1 .. n -> W]
    BY <1>3, <2>1, <2>2, <2>3
  <2>6. f \in Seq(W) /\ Len(f) = n
    BY <2>5, FunctionIsSeq
  <2> QED
    BY <2>1, <2>2, <2>4, <2>6
<1> HIDE DEF ss
<1>5. PICK c : c = a \o b
  OBVIOUS
<1>6. a \in Seq(T) /\ b \in Seq(T)
  BY <1>1
<1>7. /\ c \in Seq(T) /\ Len(c) = Len(a) + Len(b)
      /\ \A k \in 1 .. Len(a) : c[k] = a[k]
      /\ \A k \in 1 .. Len(b) : c[Len(a) + k] = b[k]
  BY <1>5, <1>6, ConcatAt
<1>8. PICK m, n \in Nat : m = Len(a) /\ n = Len(b)
  BY <1>6
<1>9. PICK x, y, z, w : x = ss(a) /\ y = ss(b) /\ z = ss(c) /\ w = x \o y
  OBVIOUS
<1>10. /\ x \in Seq(W) /\ Len(x) = m /\ \A k \in 1 .. m : x[k] = Answer(h, a[k])
       /\ y \in Seq(W) /\ Len(y) = n /\ \A k \in 1 .. n : y[k] = Answer(h, b[k])
       /\ z \in Seq(W) /\ Len(z) = m + n /\ \A k \in 1 .. (m + n) : z[k] = Answer(h, c[k])
  BY <1>4, <1>6, <1>7, <1>8, <1>9
<1>11. /\ w \in Seq(W) /\ Len(w) = m + n
       /\ \A k \in 1 .. m : w[k] = x[k]
       /\ \A k \in 1 .. n : w[m + k] = y[k]
  <2>1. x \in Seq(W) /\ y \in Seq(W)
    BY <1>10
  <2>2. /\ x \o y \in Seq(W) /\ Len(x \o y) = Len(x) + Len(y)
        /\ \A k \in 1 .. Len(x) : (x \o y)[k] = x[k]
        /\ \A k \in 1 .. Len(y) : (x \o y)[Len(x) + k] = y[k]
    BY ONLY <2>1, ConcatAt
  <2> QED
    BY <1>9, <1>10, <2>2
<1>12. ASSUME NEW k \in 1 .. (m + n)
       PROVE  w[k] = z[k]
  <2>1. CASE k <= m
    <3>1. k \in 1 .. m
      BY <2>1
    <3> QED
      BY <1>7, <1>8, <1>10, <1>11, <3>1
  <2>2. CASE k > m
    <3>1. PICK j \in 1 .. n : k = m + j
      <4>1. k - m \in 1 .. n /\ k = m + (k - m)
        BY <2>2
      <4> QED
        BY <4>1
    <3>2. w[k] = Answer(h, b[j]) /\ c[k] = b[j]
      BY <1>7, <1>8, <1>10, <1>11, <3>1
    <3> QED
      BY <1>10, <3>2
  <2> QED
    BY <2>1, <2>2
<1>13. w = z
  BY <1>10, <1>11, <1>12, SeqEqual
<1>14. FlattenSeq(x \o y) = FlattenSeq(x) \o FlattenSeq(y)
  <2>1. x \in Seq(Seq(U)) /\ y \in Seq(Seq(U))
    BY <1>2, <1>10
  <2> QED
    BY <2>1, FlattenConcat
<1>15. \A s : Answers(h, s) = FlattenSeq(ss(s))
  BY DEF Answers, ss
<1>16. Answers(h, c) = FlattenSeq(z) /\ Answers(h, a) = FlattenSeq(x) /\ Answers(h, b) = FlattenSeq(y)
  BY <1>9, <1>15
<1> QED
  BY <1>5, <1>9, <1>13, <1>14, <1>16

\* The answers to what a host is asked: those to quiet gets go on, and the last
\* one ends.
Talk(F) ==
    /\ F \in Seq(Units) /\ F # << >> /\ Joined(F)
    /\ \A k \in 1 .. Len(F) :
          IF stream[F[k][1]].op = "getkq" THEN k < Len(F)
          ELSE F[k][2] + 1 < AnswerLen(F[k][1]) \/ k = Len(F)

\* What a host answers is such a talk.
LEMMA TalkAnswers ==
    ASSUME NEW h \in Hosts, NEW items, Asks(items)
    PROVE  Talk(Answers(h, items))
<1>1. PICK a \in Seq(Quiet), z \in DOMAIN stream \ Quiet : items = a \o <<z>>
  BY DEF Asks
<1>2. PICK T, U : T = DOMAIN stream /\ U = Units
  OBVIOUS
<1>3. Quiet \subseteq T /\ z \in T
  BY <1>2 DEF Quiet, With
<1>4. PICK y : IsOne(y, z)
  BY DEF IsOne
<1>5. a \in Seq(T) /\ y \in Seq(T)
  <2>1. y \in Seq(T)
    BY <1>3, <1>4 DEF IsOne
  <2> QED
    BY <1>3, <2>1, SeqMonotonic
<1>6. PICK x, w : x = Answers(h, a) /\ w = Answer(h, z)
  OBVIOUS
<1>7. Answers(h, y) = w
  <2>1. w \in Seq(U)
    BY <1>2, <1>3, <1>6, AnswerJoined DEF JoinedSeqs
  <2>2. [n \in DOMAIN <<z>> |-> Answer(h, <<z>>[n])] = <<w>>
    BY <1>6
  <2>3. FlattenSeq(<<w>>) = w
    BY <2>1, FlattenFew
  <2> QED
    BY <1>4, <2>2, <2>3 DEF Answers, IsOne
<1>8. Answers(h, items) = x \o w
  <2>1. Answers(h, a \o y) = Answers(h, a) \o Answers(h, y)
    BY <1>2, <1>5, AnswersConcat
  <2> QED
    BY <1>1, <1>4, <1>6, <1>7, <2>1 DEF IsOne
<1>9. /\ x \in JoinedSeqs(Quiet) /\ x \in JoinedSeqs(T)
      /\ w \in JoinedSeqs(T) /\ w \in JoinedSeqs({z})
      /\ Len(w) = AnswerLen(z) /\ \A k \in 1 .. AnswerLen(z) : w[k] = <<z, k - 1, h>>
  <2>1. x \in JoinedSeqs(Quiet)
    BY <1>2, <1>3, <1>6, AnswersJoined
  <2>2. x \in JoinedSeqs(T)
    BY <1>2, <1>5, <1>6, AnswersJoined
  <2>3. /\ w \in JoinedSeqs(T) /\ w \in JoinedSeqs({z})
        /\ Len(w) = AnswerLen(z) /\ \A k \in 1 .. AnswerLen(z) : w[k] = <<z, k - 1, h>>
    BY <1>2, <1>3, <1>6, AnswerJoined
  <2> QED
    BY <2>1, <2>2, <2>3
<1>10. PICK F : F = x \o w
  OBVIOUS
<1>11. F \in Seq(U) /\ Joined(F)
  <2>1. F \in JoinedSeqs(T)
    BY <1>9, <1>10, JoinedConcat
  <2> QED
    BY <1>2, <2>1 DEF JoinedSeqs
<1>12. PICK m, n \in Nat : m = Len(x) /\ n = Len(w)
  BY <1>9 DEF JoinedSeqs
<1>13. /\ Len(F) = m + n
       /\ \A k \in 1 .. m : F[k] = x[k]
       /\ \A k \in 1 .. n : F[m + k] = w[k]
  <2>1. x \in Seq(U) /\ w \in Seq(U)
    BY <1>2, <1>9 DEF JoinedSeqs
  <2> QED
    BY <1>10, <1>12, <2>1, ConcatAt
<1>14. n \in 1 .. 3 /\ stream[z].op # "getkq" /\ n = AnswerLen(z)
  <2>1. stream[z].op # "getkq"
    BY DEF Quiet, With
  <2>2. AnswerLen(z) \in 1 .. 3
    BY <2>1 DEF AnswerLen
  <2> QED
    BY <1>9, <1>12, <2>1, <2>2
<1>15. F # << >>
  <2>0. m \in Nat /\ n \in 1 .. 3
    BY <1>12, <1>14
  <2>1. m + n # 0
    BY ONLY <2>0
  <2> QED
    BY <1>11, <1>13, <2>1, EmptySeq
<1>16. ASSUME NEW k \in 1 .. Len(F)
       PROVE  IF stream[F[k][1]].op = "getkq" THEN k < Len(F)
              ELSE F[k][2] + 1 < AnswerLen(F[k][1]) \/ k = Len(F)
  <2>1. CASE k <= m
    <3>1. k \in 1 .. m /\ k < m + n
      BY <1>14, <2>1
    <3>2. F[k][1] \in Quiet
      BY <1>9, <1>12, <1>13, <3>1 DEF JoinedSeqs
    <3>3. stream[F[k][1]].op = "getkq"
      BY <3>2 DEF Quiet, With
    <3> QED
      BY <1>13, <3>1, <3>3
  <2>2. CASE k > m
    <3>1. PICK j \in 1 .. n : k = m + j
      <4>1. k - m \in 1 .. n /\ k = m + (k - m)
        BY <1>13, <2>2
      <4> QED
        BY <4>1
    <3>2. F[k] = w[j] /\ w[j] = <<z, j - 1, h>>
      BY <1>9, <1>13, <1>14, <3>1
    <3>3. F[k][1] = z /\ F[k][2] = j - 1 /\ (j - 1) + 1 = j
      BY <3>1, <3>2
    <3>4. j < n \/ k = Len(F)
      BY <1>13, <3>1
    <3> QED
      BY <1>14, <3>3, <3>4
  <2> QED
    BY <1>13, <2>1, <2>2
<1>17. Talk(F)
  BY <1>2, <1>11, <1>15, <1>16 DEF Talk
<1> QED
  BY <1>8, <1>10, <1>17

-----------------------------------------------------------------------------
(***************************************************************************)
(* What PARSE_RESP finds                                                   *)
(***************************************************************************)

\* The items of l lie one after the other from a to b.
Tiles(l, a, b) ==
    /\ \A k \in DOMAIN l : l[k].off = IF k = 1 THEN a ELSE l[k - 1].off + l[k - 1].len
    /\ b = IF l = << >> THEN a ELSE l[Len(l)].off + l[Len(l)].len

\* One item.
LEMMA TilesOne ==
    ASSUME NEW mem, NEW p \in Nat, NEW len \in Nat, NEW q, q = p + len,
           NEW y, IsOne(y, RespItem(mem, p, len))
    PROVE  Tiles(y, p, q) /\ y \in Seq(AnyItem) /\ Len(y) = 1 /\ y[1] = RespItem(mem, p, len) /\ y # << >>
<1>1. PICK x : x = RespItem(mem, p, len)
  OBVIOUS
<1>2. x.off = p /\ x.len = len /\ x \in AnyItem
  BY <1>1, ItemAny DEF RespItem
<1>3. y \in Seq(AnyItem) /\ Len(y) = 1 /\ y[1] = x /\ y # << >>
  BY <1>1, <1>2 DEF IsOne
<1> QED
  BY <1>1, <1>2, <1>3 DEF Tiles

\* Items from a to b and items from b to c.
LEMMA TilesConcat ==
    ASSUME NEW I, NEW l \in Seq(I), NEW m \in Seq(I), NEW a, NEW b, NEW c,
           Tiles(l, a, b), Tiles(m, b, c)
    PROVE  Tiles(l \o m, a, c)
<1>1. CASE l = << >>
  <2>1. l \o m = m /\ a = b
    BY <1>1 DEF Tiles
  <2> QED
    BY <2>1
<1>2. CASE m = << >>
  <2>1. l \o m = l /\ c = b
    BY <1>2 DEF Tiles
  <2> QED
    BY <2>1
<1>3. CASE l # << >> /\ m # << >>
  <2>1. PICK x, y \in Nat : x = Len(l) /\ y = Len(m)
    OBVIOUS
  <2>2. x # 0 /\ y # 0
    BY <1>3, <2>1, EmptySeq
  <2>3. PICK s : s = l \o m
    OBVIOUS
  <2>4. /\ s \in Seq(I) /\ Len(s) = x + y
        /\ \A k \in 1 .. x : s[k] = l[k]
        /\ \A k \in 1 .. y : s[x + k] = m[k]
    BY <2>1, <2>3, ConcatAt
  <2>5. s # << >>
    BY <2>2, <2>4, EmptySeq
  <2>6. b = l[x].off + l[x].len /\ c = m[y].off + m[y].len
    BY <1>3, <2>1 DEF Tiles
  <2>7. c = s[Len(s)].off + s[Len(s)].len
    <3>1. y \in 1 .. y
      BY <2>2
    <3> QED
      BY <2>4, <2>6, <3>1
  <2>8. ASSUME NEW k \in DOMAIN s
        PROVE  s[k].off = IF k = 1 THEN a ELSE s[k - 1].off + s[k - 1].len
    <3>1. k \in 1 .. (x + y)
      BY <2>4
    <3>2. CASE k <= x
      <4>1. k \in 1 .. x /\ k \in DOMAIN l /\ (k # 1 => k - 1 \in 1 .. x)
        BY <2>1, <3>1, <3>2
      <4>2. s[k] = l[k] /\ (k # 1 => s[k - 1] = l[k - 1])
        BY <2>4, <4>1
      <4>3. l[k].off = IF k = 1 THEN a ELSE l[k - 1].off + l[k - 1].len
        BY <4>1 DEF Tiles
      <4> QED
        BY <4>2, <4>3
    <3>3. CASE k > x
      <4>1. PICK j \in 1 .. y : k = x + j
        <5>1. k - x \in 1 .. y /\ k = x + (k - x)
          BY <3>1, <3>3
        <5> QED
          BY <5>1
      <4>2. k # 1 /\ j \in DOMAIN m /\ s[k] = m[j]
        BY <2>1, <2>2, <2>4, <4>1
      <4>3. m[j].off = IF j = 1 THEN b ELSE m[j - 1].off + m[j - 1].len
        BY <4>2 DEF Tiles
      <4>4. CASE j = 1
        <5>1. k - 1 = x /\ x \in 1 .. x
          BY <2>2, <4>1, <4>4
        <5>2. s[k - 1] = l[x]
          BY <2>4, <5>1
        <5> QED
          BY <2>6, <4>2, <4>3, <4>4, <5>2
      <4>5. CASE j # 1
        <5>1. k - 1 = x + (j - 1) /\ j - 1 \in 1 .. y
          BY <4>1, <4>5
        <5>2. s[k - 1] = m[j - 1]
          BY <2>4, <5>1
        <5> QED
          BY <4>2, <4>3, <4>5, <5>2
      <4> QED
        BY <4>4, <4>5
    <3> QED
      BY <3>1, <3>2, <3>3
  <2> QED
    BY <2>3, <2>5, <2>7, <2>8 DEF Tiles
<1> QED
  BY <1>1, <1>2, <1>3

\* Only the last item of l may be one that CREATE_RESP puts at the end.
EndLast(l) == \A k \in DOMAIN l : l[k].end => k = Len(l)

\* Items that go on, and items after them.
LEMMA EndConcat ==
    ASSUME NEW I, NEW l \in Seq(I), NEW m \in Seq(I), EndLast(m),
           \A k \in DOMAIN l : ~ l[k].end
    PROVE  /\ EndLast(l \o m)
           /\ (\A k \in DOMAIN m : ~ m[k].end) => \A k \in DOMAIN (l \o m) : ~ (l \o m)[k].end
<1>1. PICK x, y \in Nat : x = Len(l) /\ y = Len(m)
  OBVIOUS
<1>2. PICK s : s = l \o m
  OBVIOUS
<1>3. /\ s \in Seq(I) /\ Len(s) = x + y
      /\ \A k \in 1 .. x : s[k] = l[k]
      /\ \A k \in 1 .. y : s[x + k] = m[k]
  BY <1>1, <1>2, ConcatAt
<1>4. ASSUME NEW k \in DOMAIN s
      PROVE  /\ s[k].end => k = Len(s)
             /\ (\A j \in DOMAIN m : ~ m[j].end) => ~ s[k].end
  <2>1. k \in 1 .. (x + y)
    BY <1>3
  <2>2. CASE k <= x
    <3>1. k \in 1 .. x /\ k \in DOMAIN l
      BY <1>1, <2>1, <2>2
    <3> QED
      BY <1>3, <3>1
  <2>3. CASE k > x
    <3>1. PICK j \in 1 .. y : k = x + j
      <4>1. k - x \in 1 .. y /\ k = x + (k - x)
        BY <2>1, <2>3
      <4> QED
        BY <4>1
    <3>2. j \in DOMAIN m /\ s[k] = m[j]
      BY <1>1, <1>3, <3>1
    <3> QED
      BY <1>1, <1>3, <3>1, <3>2 DEF EndLast
  <2> QED
    BY <2>1, <2>2, <2>3
<1> QED
  BY <1>2, <1>4 DEF EndLast

\* recv() has returned the first size units of the answers F of a host.
Cut(F, size) == size = Len(F) \/ size = 1 \/ F[size + 1][2] = 0

\* The result of PARSE_RESP from p on: the answer is incomplete, or all that
\* has come is taken, and SUCCESS if nothing more is to come.
Parsed(r, F, p, size) ==
    /\ r.items \in Seq(AnyItem)
    /\ \/ /\ size = 1 /\ p = 0 /\ size < Len(F)
          /\ r.ret = {"AGAIN"} /\ r.items = << >> /\ r.pos = 0
       \/ /\ r.pos = size /\ r.items # << >> /\ Tiles(r.items, p, size)
          /\ r.ret = IF size = Len(F) THEN {"SUCCESS"} ELSE {"AGAIN"}
          /\ EndLast(r.items)
          /\ size < Len(F) => /\ F[size + 1][2] = 0 /\ proto = "binary"
                              /\ \A k \in DOMAIN r.items : ~ r.items[k].end

\* What the first units of a talk say of an answer that begins at p: it is
\* complete, unless it is the first and recv() returned its header only.
LEMMA TalkStep ==
    ASSUME StreamOK, proto = "binary", NEW F, Talk(F), NEW size \in 1 .. Len(F), Cut(F, size),
           NEW p \in 0 .. (size - 1), F[p + 1][2] = 0,
           NEW i, i = F[p + 1][1], NEW len, len = AnswerLen(i), NEW q, q = p + len
    PROVE  /\ len \in 1 .. 2 /\ i \in DOMAIN stream
           /\ size < len => size = 1 /\ p = 0 /\ size < Len(F)
           /\ ~ (size < len) => /\ q \in 1 .. size
                                /\ q < Len(F) => F[q + 1][2] = 0
                                /\ q < Len(F) <=> stream[i].op = "getkq"
<1>1. PICK U : U = Units
  OBVIOUS
<1>2. F \in Seq(U) /\ Len(F) \in Nat
  BY <1>1 DEF Talk
<1>3. p + 1 \in 1 .. Len(F) /\ p \in Nat /\ size \in Nat
  BY <1>2
<1>4. F[p + 1] \in Units
  BY <1>1, <1>2, <1>3
<1>5. len \in 1 .. 2 /\ i \in DOMAIN stream
  <2>1. i \in DOMAIN stream /\ F[p + 1][2] < AnswerLen(i)
    BY <1>4 DEF Units
  <2>2. AnswerLen(i) \in 0 .. 2
    BY <2>1, AnswerLenType
  <2> QED
    BY <2>1, <2>2
<1>6. Goes(F, p + 1)
  BY <1>3 DEF Talk, Joined
<1>7. len = 2 => p + 1 < Len(F) /\ F[(p + 1) + 1][1] = i /\ F[(p + 1) + 1][2] = 1
  BY <1>6 DEF Goes
<1>8. ASSUME size < len
      PROVE  size = 1 /\ p = 0 /\ size < Len(F)
  BY <1>3, <1>5, <1>7, <1>8
<1>9. ASSUME ~ (size < len)
      PROVE  /\ q \in 1 .. size
             /\ q < Len(F) => F[q + 1][2] = 0
             /\ q < Len(F) <=> stream[i].op = "getkq"
  <2>1. q \in 1 .. size
    <3>1. CASE len = 1
      BY <1>3, <3>1
    <3>2. CASE len = 2
      <4>1. p + 1 # size
        <5> SUFFICES ASSUME p + 1 = size
                     PROVE  FALSE
          OBVIOUS
        <5>1. size # 1 /\ size # Len(F)
          BY <1>7, <1>9, <3>2
        <5>2. F[size + 1][2] = 0
          BY <5>1 DEF Cut
        <5> QED
          BY <1>7, <3>2, <5>2
      <4> QED
        BY <1>3, <3>2, <4>1
    <3> QED
      BY <1>5, <3>1, <3>2
  <2>2. F[q][1] = i /\ F[q][2] + 1 = len /\ q \in 1 .. Len(F)
    <3>1. q \in 1 .. Len(F)
      BY <1>2, <1>3, <2>1
    <3>2. CASE len = 1
      <4>1. q = p + 1
        BY <3>2
      <4> QED
        BY <3>1, <3>2, <4>1
    <3>3. CASE len = 2
      <4>1. q = (p + 1) + 1
        BY <1>3, <3>3
      <4> QED
        BY <1>7, <3>1, <3>3, <4>1
    <3> QED
      BY <1>5, <3>2, <3>3
  <2>3. Goes(F, q)
    BY <2>2 DEF Talk, Joined
  <2>4. ~ (F[q][2] + 1 < AnswerLen(F[q][1]))
    BY <1>5, <2>2
  <2>5. q < Len(F) => F[q + 1][2] = 0
    BY <2>3, <2>4 DEF Goes
  <2>6. IF stream[F[q][1]].op = "getkq" THEN q < Len(F)
        ELSE F[q][2] + 1 < AnswerLen(F[q][1]) \/ q = Len(F)
    BY <2>2 DEF Talk
  <2>7. IF stream[i].op = "getkq" THEN q < Len(F) ELSE q = Len(F)
    BY <2>2, <2>4, <2>6
  <2> QED
    BY <1>2, <2>1, <2>5, <2>7
<1> QED
  BY <1>5, <1>8, <1>9

\* The loop over binary answers, from any answer on.
LEMMA BinaryParsed ==
    ASSUME StreamOK, proto = "binary", NEW F, Talk(F), NEW size \in 1 .. Len(F), Cut(F, size),
           NEW mem \in Seq(Units), size <= Len(mem), \A k \in 1 .. size : mem[k] = F[k],
           NEW pos \in 0 .. (size - 1), F[pos + 1][2] = 0
    PROVE  Parsed(BinaryLoop(mem, size)[pos], F, pos, size)
<1> DEFINE D == 0 .. (size - 1)
           rank == [p \in D |-> size - p]
           S == {p \in D : F[p + 1][2] = 0 => Parsed(BinaryLoop(mem, size)[p], F, p, size)}
<1>1. PICK loop : loop = BinaryLoop(mem, size)
  OBVIOUS
<1>2. size \in Nat /\ size >= 1 /\ Len(F) \in Nat /\ size <= Len(F) /\ size \in 1 .. Len(mem)
  <2>1. Len(F) \in Nat
    BY DEF Talk
  <2> QED
    BY <2>1
<1>3. /\ \A p \in D : loop[p] \in Result(ItemsTo(size + 1), 0 .. (size + 1))
      /\ \A p \in D : loop[p] = BinaryRound(mem, size, loop, p)
  <2>1. /\ \A p \in 0 .. (size - 1) : loop[p] \in Result(ItemsTo(size + 1), 0 .. (size + 1))
        /\ \A p \in 0 .. (size + 1) : loop[p] = BinaryRound(mem, size, loop, p)
    BY <1>1, <1>2, BinaryLoopType
  <2> QED
    BY <1>2, <2>1
<1>4. rank \in [D -> Nat]
  BY <1>2
<1>5. ASSUME NEW p \in D, \A q \in D : rank[q] < rank[p] => q \in S
      PROVE  p \in S
  <2> SUFFICES ASSUME F[p + 1][2] = 0
               PROVE  Parsed(loop[p], F, p, size)
    BY <1>1
  <2>1. PICK i, len, q : i = F[p + 1][1] /\ len = AnswerLen(i) /\ q = p + len
    OBVIOUS
  <2>2. /\ len \in 1 .. 2 /\ i \in DOMAIN stream
        /\ size < len => size = 1 /\ p = 0 /\ size < Len(F)
        /\ ~ (size < len) => /\ q \in 1 .. size
                             /\ q < Len(F) => F[q + 1][2] = 0
                             /\ q < Len(F) <=> stream[i].op = "getkq"
    <3> HIDE DEF S, rank
    <3> QED
      BY <2>1, TalkStep
  <2>3. p \in Nat /\ p + 1 \in 1 .. size /\ mem[p + 1] = F[p + 1] /\ mem[p + 1][1] = i /\ len \in Nat
    <3>1. p \in Nat /\ p + 1 \in 1 .. size /\ len \in Nat
      BY <1>2, <2>2
    <3>2. mem[p + 1] = F[p + 1]
      BY <3>1
    <3> QED
      BY <2>1, <3>1, <3>2
  <2>4. IsBinary(mem[p + 1])
    BY <2>3 DEF IsBinary
  <2>5. PICK x, y : x = RespItem(mem, p, len) /\ IsOne(y, x)
    BY DEF IsOne
  <2>6. PICK rest : rest = loop[q]
    OBVIOUS
  <2>7. loop[p] = IF size < len THEN RespResult({"AGAIN"}, << >>, p)
                  ELSE IF q < size THEN [rest EXCEPT !.items = y \o @]
                  ELSE RespResult(IF stream[i].op = "getkq" THEN {"AGAIN"} ELSE {"SUCCESS"}, y, q)
    <3>1. loop[p] = BinaryRound(mem, size, loop, p)
      BY <1>3
    <3>2. mem[p + 1][1] = i
      BY <2>3
    <3> HIDE DEF D, S, rank
    <3> QED
      BY <2>1, <2>4, <2>5, <2>6, <3>1, <3>2, Zenon DEF BinaryRound, TooShort, IsOne
  <2>8. /\ Tiles(y, p, q) /\ y \in Seq(AnyItem) /\ Len(y) = 1 /\ y[1] = x /\ y # << >>
    BY <2>1, <2>3, <2>5, TilesOne
  <2>9. stream[i].op = "getkq" => ~ x.end
    <3>1. x.end = (IsBinary(mem[1]) /\ stream[mem[p + 1][1]].op = "noop")
      BY <2>5 DEF RespItem
    <3>2. stream[i].op = "getkq" => stream[mem[p + 1][1]].op # "noop"
      BY <2>3
    <3> QED
      BY <3>1, <3>2
  <2>10. EndLast(y) /\ (stream[i].op = "getkq" => \A k \in DOMAIN y : ~ y[k].end)
    <3>1. DOMAIN y = {1}
      BY <2>8
    <3> QED
      BY <2>8, <2>9, <3>1 DEF EndLast
  <2>11. CASE size < len
    <3>1. loop[p] = RespResult({"AGAIN"}, << >>, p)
      BY <2>7, <2>11
    <3>2. loop[p].ret = {"AGAIN"} /\ loop[p].items = << >> /\ loop[p].pos = p
      BY <3>1 DEF RespResult
    <3>3. << >> \in Seq(AnyItem)
      OBVIOUS
    <3> QED
      BY <2>2, <2>11, <3>2, <3>3 DEF Parsed
  <2>12. CASE ~ (size < len) /\ ~ (q < size)
    <3>1. q = size
      BY <1>2, <2>2, <2>12
    <3>2. loop[p] = RespResult(IF stream[i].op = "getkq" THEN {"AGAIN"} ELSE {"SUCCESS"}, y, q)
      BY <2>7, <2>12
    <3>3. /\ loop[p].ret = (IF stream[i].op = "getkq" THEN {"AGAIN"} ELSE {"SUCCESS"})
          /\ loop[p].items = y /\ loop[p].pos = size
      BY <3>1, <3>2 DEF RespResult
    <3>4. size = Len(F) <=> stream[i].op # "getkq"
      BY <1>2, <2>2, <2>12, <3>1
    <3>5. size < Len(F) => F[size + 1][2] = 0 /\ \A k \in DOMAIN y : ~ y[k].end
      BY <2>2, <2>10, <2>12, <3>1, <3>4
    <3> QED
      BY <2>8, <2>10, <3>1, <3>3, <3>4, <3>5 DEF Parsed
  <2>13. CASE ~ (size < len) /\ q < size
    <3>1. q \in D /\ rank[q] < rank[p] /\ q # 0 /\ q < Len(F)
      <4>1. len \in 1 .. 2 /\ q \in 1 .. size /\ q < size /\ q = p + len /\ p \in 0 .. (size - 1)
        BY <2>1, <2>2, <2>13
      <4>2. q \in 0 .. (size - 1) /\ size - q < size - p /\ q # 0 /\ q < Len(F)
        BY <1>2, <4>1
      <4> QED
        BY <4>2
    <3>2. F[q + 1][2] = 0 /\ stream[i].op = "getkq"
      BY <2>2, <2>13, <3>1
    <3>3. Parsed(rest, F, q, size)
      BY <1>1, <1>5, <2>6, <3>1, <3>2
    <3>4. PICK l : l = rest.items
      OBVIOUS
    <3>5. /\ l \in Seq(AnyItem) /\ rest.pos = size /\ l # << >> /\ Tiles(l, q, size)
          /\ rest.ret = (IF size = Len(F) THEN {"SUCCESS"} ELSE {"AGAIN"})
          /\ EndLast(l)
          /\ size < Len(F) => /\ F[size + 1][2] = 0
                              /\ \A k \in DOMAIN l : ~ l[k].end
      BY <3>1, <3>3, <3>4 DEF Parsed
    <3>6. PICK m : m = y \o l
      OBVIOUS
    <3>7. loop[p].ret = rest.ret /\ loop[p].pos = rest.pos /\ loop[p].items = m
      <4>1. rest \in Result(ItemsTo(size + 1), 0 .. (size + 1))
        BY <1>3, <2>6, <3>1
      <4>2. loop[p] = [rest EXCEPT !.items = y \o @]
        BY <2>7, <2>13
      <4>3. loop[p] = [rest EXCEPT !.items = m]
        BY <3>4, <3>6, <4>2
      <4> QED
        BY <4>1, <4>3 DEF Result
    <3>8. m \in Seq(AnyItem) /\ m # << >>
      <4>1. m \in Seq(AnyItem) /\ Len(m) = Len(y) + Len(l)
        <5>1. y \in Seq(AnyItem) /\ l \in Seq(AnyItem)
          BY <2>8, <3>5
        <5> QED
          BY ONLY <3>6, <5>1
      <4>2. Len(l) \in Nat
        BY <3>5
      <4>3. Len(m) # 0
        BY <2>8, <4>1, <4>2
      <4> QED
        BY <4>1, <4>3, EmptySeq
    <3>9. Tiles(m, p, size)
      BY <2>8, <3>5, <3>6, TilesConcat
    <3>10. /\ EndLast(m)
           /\ (\A k \in DOMAIN l : ~ l[k].end) => \A k \in DOMAIN m : ~ m[k].end
      <4>1. \A k \in DOMAIN y : ~ y[k].end
        BY <2>10, <3>2
      <4> QED
        BY <2>8, <3>5, <3>6, <4>1, EndConcat
    <3> QED
      BY <3>5, <3>7, <3>8, <3>9, <3>10 DEF Parsed
  <2> QED
    BY <2>11, <2>12, <2>13
<1>6. D \subseteq S
  <2> HIDE DEF D, S, rank
  <2> QED
    BY <1>4, <1>5, RankInduction
<1> QED
  BY <1>6

\* In text a host answers one request at a time.
LEMMA TextTalk ==
    ASSUME StreamOK, proto = "text", NEW F, Talk(F), NEW i, i = F[1][1]
    PROVE  /\ Len(F) = AnswerLen(i) /\ Len(F) \in 1 .. 3
           /\ \A k \in 1 .. Len(F) : F[k][1] = i /\ F[k][2] = k - 1
<1>1. PICK U : U = Units
  OBVIOUS
<1>2. F \in Seq(U) /\ Len(F) \in Nat /\ F # << >>
  BY <1>1 DEF Talk
<1>3. Len(F) # 0
  BY <1>2, EmptySeq
<1>4. 1 \in 1 .. Len(F) /\ F[1][2] = 0
  BY <1>2, <1>3 DEF Talk, Joined
<1>5. i \in DOMAIN stream /\ AnswerLen(i) \in 1 .. 3
  <2>1. F[1] \in Units
    BY <1>1, <1>2, <1>4
  <2>2. i \in DOMAIN stream /\ 0 < AnswerLen(i)
    BY <1>4, <2>1 DEF Units
  <2>3. AnswerLen(i) \in 0 .. 3
    BY AnswerLenType
  <2> QED
    BY <2>2, <2>3
<1>6. stream[i].op # "getkq"
  BY <1>5, QuietGets
<1>7. ASSUME NEW k \in 1 .. Len(F), F[k][1] = i, F[k][2] = k - 1
      PROVE  /\ k < AnswerLen(i) => k < Len(F) /\ F[k + 1][1] = i /\ F[k + 1][2] = k
             /\ ~ (k < AnswerLen(i)) => k = Len(F)
  <2>1. Goes(F, k) /\ (k - 1) + 1 = k
    BY <1>2 DEF Talk, Joined
  <2>2. F[k][2] + 1 < AnswerLen(F[k][1]) \/ k = Len(F)
    BY <1>6, <1>7 DEF Talk
  <2>3. k < AnswerLen(i) => k < Len(F) /\ F[k + 1][1] = i /\ F[k + 1][2] = k
    BY <1>7, <2>1 DEF Goes
  <2>4. ~ (k < AnswerLen(i)) => k = Len(F)
    BY <1>7, <2>1, <2>2
  <2> QED
    BY <2>3, <2>4
<1>8. /\ 1 < AnswerLen(i) => 1 < Len(F) /\ F[2][1] = i /\ F[2][2] = 1
      /\ ~ (1 < AnswerLen(i)) => 1 = Len(F)
  <2>1. F[1][1] = i /\ F[1][2] = 1 - 1 /\ 1 + 1 = 2
    BY <1>4
  <2> QED
    BY <1>4, <1>7, <2>1
<1>9. CASE AnswerLen(i) = 1
  <2>1. Len(F) = 1 /\ F[1][1] = i /\ F[1][2] = 1 - 1
    BY <1>4, <1>8, <1>9
  <2>2. \A k \in 1 .. Len(F) : k = 1
    BY <2>1
  <2>3. \A k \in 1 .. Len(F) : F[k][1] = i /\ F[k][2] = k - 1
    BY <2>1, <2>2
  <2> QED
    BY <1>9, <2>1, <2>3
<1>10. ASSUME AnswerLen(i) # 1
       PROVE  /\ 2 \in 1 .. Len(F) /\ F[2][1] = i /\ F[2][2] = 1
              /\ 2 < AnswerLen(i) => 2 < Len(F) /\ F[3][1] = i /\ F[3][2] = 2
              /\ ~ (2 < AnswerLen(i)) => 2 = Len(F)
  <2>1. 2 \in 1 .. Len(F) /\ F[2][1] = i /\ F[2][2] = 2 - 1 /\ 2 + 1 = 3
    BY <1>2, <1>5, <1>8, <1>10
  <2>2. PICK k \in 1 .. Len(F) : k = 2
    BY <2>1
  <2>3. F[k][1] = i /\ F[k][2] = k - 1
    BY <2>1, <2>2
  <2>4. /\ k < AnswerLen(i) => k < Len(F) /\ F[k + 1][1] = i /\ F[k + 1][2] = k
        /\ ~ (k < AnswerLen(i)) => k = Len(F)
    BY <1>7, <2>3
  <2> QED
    BY <2>1, <2>2, <2>4
<1>11. CASE AnswerLen(i) = 2
  <2>1. Len(F) = 2 /\ F[2][1] = i /\ F[2][2] = 1
    BY <1>10, <1>11
  <2> QED
    BY <1>4, <1>11, <2>1
<1>12. CASE AnswerLen(i) = 3
  <2>1. 2 < Len(F) /\ F[2][1] = i /\ F[2][2] = 1 /\ F[3][1] = i /\ F[3][2] = 2
    BY <1>10, <1>12
  <2>2. 3 \in 1 .. Len(F) /\ F[3][2] = 3 - 1
    BY <1>2, <2>1
  <2>3. 3 = Len(F)
    <3>1. PICK k \in 1 .. Len(F) : k = 3
      BY <2>2
    <3>2. F[k][1] = i /\ F[k][2] = k - 1
      BY <2>1, <2>2, <3>1
    <3>3. ~ (k < AnswerLen(i)) => k = Len(F)
      BY <1>7, <3>2
    <3> QED
      BY <1>12, <3>1, <3>3
  <2>4. \A k \in 1 .. Len(F) : k = 1 \/ k = 2 \/ k = 3
    <3>1. \A k \in 1 .. 3 : k = 1 \/ k = 2 \/ k = 3
      OBVIOUS
    <3>2. 1 .. Len(F) = 1 .. 3
      BY <2>3
    <3> QED
      BY <3>1, <3>2, Zenon
  <2>5. F[1][1] = i /\ F[1][2] = 1 - 1 /\ F[2][2] = 2 - 1 /\ F[3][2] = 3 - 1
    BY <1>4, <2>1, <2>2
  <2>6. \A k \in 1 .. Len(F) : F[k][1] = i /\ F[k][2] = k - 1
    BY <2>1, <2>4, <2>5
  <2> QED
    BY <1>12, <2>3, <2>6
<1> QED
  BY <1>5, <1>9, <1>11, <1>12

\* The loop over text answers.
LEMMA TextParsed ==
    ASSUME StreamOK, proto = "text", NEW F, Talk(F), NEW size \in 1 .. Len(F), Cut(F, size),
           NEW mem, \A k \in 1 .. size : mem[k] = F[k]
    PROVE  Parsed(TextLoop(mem, size)[0], F, 0, size)
<1>1. PICK i : i = F[1][1]
  OBVIOUS
<1>2. /\ Len(F) = AnswerLen(i) /\ Len(F) \in 1 .. 3
      /\ \A k \in 1 .. Len(F) : F[k][1] = i /\ F[k][2] = k - 1
  BY <1>1, TextTalk
<1>3. size \in 1 .. 3 /\ size <= Len(F) /\ size \in Nat \ {0}
  BY <1>2
<1>4. \A k \in 1 .. size : mem[k][1] = i /\ mem[k][2] = k - 1
  BY <1>2, <1>3
<1>5. size = 1 \/ size = Len(F)
  <2> SUFFICES ASSUME size # 1, size # Len(F)
               PROVE  FALSE
    OBVIOUS
  <2>1. F[size + 1][2] = 0 /\ size + 1 \in 1 .. Len(F)
    BY <1>2, <1>3 DEF Cut
  <2>2. F[size + 1][2] = (size + 1) - 1
    BY <1>2, <2>1
  <2> QED
    BY <1>3, <2>1, <2>2
<1>6. PICK loop : loop = TextLoop(mem, size)
  OBVIOUS
<1>7. \A p \in 0 .. (size + 1) : loop[p] = TextRound(mem, size, loop, p)
  BY <1>3, <1>6, TextLoopType
<1>8. loop[0] = TextRound(mem, size, loop, 0) /\ 0 # size
  BY <1>3, <1>7
<1>9. mem[0 + 1][1] = i /\ mem[0 + 1][2] = 0
  BY <1>3, <1>4
<1>10. IsValue(mem[0 + 1]) <=> AnswerLen(i) > 1
  BY <1>9 DEF IsValue
<1>11. ~ IsBinary(mem[1])
  BY DEF IsBinary
<1>12. \A p, len : ~ RespItem(mem, p, len).end
  BY <1>11 DEF RespItem
<1>13. CASE AnswerLen(i) = 1
  <2>1. size = 1 /\ Len(F) = 1 /\ ~ IsValue(mem[0 + 1]) /\ size - 0 = 1
    BY <1>2, <1>3, <1>10, <1>13
  <2>2. loop[0] = RespResult({"SUCCESS"}, <<RespItem(mem, 0, size - 0)>>, size)
    BY <1>8, <2>1, Zenon DEF TextRound
  <2>3. PICK y : IsOne(y, RespItem(mem, 0, 1))
    BY DEF IsOne
  <2>4. loop[0].ret = {"SUCCESS"} /\ loop[0].items = y /\ loop[0].pos = size
    BY <2>1, <2>2, <2>3 DEF RespResult, IsOne
  <2>5. Tiles(y, 0, 1) /\ y \in Seq(AnyItem) /\ Len(y) = 1 /\ y[1] = RespItem(mem, 0, 1) /\ y # << >>
    <3>1. 0 \in Nat /\ 1 \in Nat /\ 1 = 0 + 1
      OBVIOUS
    <3> QED
      BY <2>3, <3>1, TilesOne
  <2>6. DOMAIN y = {1}
    BY <2>5
  <2>7. EndLast(y)
    BY <2>5, <2>6 DEF EndLast
  <2>8. loop[0].ret = IF size = Len(F) THEN {"SUCCESS"} ELSE {"AGAIN"}
    BY <2>1, <2>4
  <2> QED
    BY <1>6, <2>1, <2>4, <2>5, <2>7, <2>8 DEF Parsed
<1>14. CASE AnswerLen(i) # 1 /\ size = 1
  <2>1. IsValue(mem[0 + 1]) /\ TooShort(size - 0, 2) /\ size < Len(F)
    BY <1>2, <1>10, <1>14 DEF TooShort
  <2>2. loop[0] = RespResult({"AGAIN"}, << >>, 0)
    BY <1>8, <2>1, Zenon DEF TextRound
  <2>3. loop[0].ret = {"AGAIN"} /\ loop[0].items = << >> /\ loop[0].pos = 0 /\ << >> \in Seq(AnyItem)
    BY <2>2 DEF RespResult
  <2> QED
    BY <1>6, <1>14, <2>1, <2>3 DEF Parsed
<1>15. CASE AnswerLen(i) # 1 /\ size # 1
  <2>1. size = Len(F) /\ size \in {2, 3} /\ IsValue(mem[0 + 1]) /\ ~ TooShort(size - 0, 2)
    BY <1>2, <1>3, <1>5, <1>10, <1>15 DEF TooShort
  <2>2. PICK y : IsOne(y, RespItem(mem, 0, 2))
    BY DEF IsOne
  <2>3. PICK rest : rest = loop[2]
    OBVIOUS
  <2>4. loop[0] = [rest EXCEPT !.items = y \o @]
    <3>1. 0 + 2 = 2
      OBVIOUS
    <3> QED
      BY <1>8, <2>1, <2>2, <2>3, <3>1, Zenon DEF TextRound, IsOne
  <2>5. Tiles(y, 0, 2) /\ y \in Seq(AnyItem) /\ Len(y) = 1 /\ y[1] = RespItem(mem, 0, 2) /\ y # << >>
    <3>1. 0 \in Nat /\ 2 \in Nat /\ 2 = 0 + 2
      OBVIOUS
    <3> QED
      BY <2>2, <3>1, TilesOne
  <2>6. DOMAIN y = {1}
    BY <2>5
  <2>7. \A k \in DOMAIN y : ~ y[k].end
    BY <1>12, <2>5, <2>6
  <2>8. \E l \in Seq(AnyItem) : /\ rest = RespResult({"SUCCESS"}, l, size)
                                /\ Tiles(l, 2, size) /\ EndLast(l)
    <3>1. 2 \in 0 .. (size + 1)
      BY <1>3, <2>1
    <3>2. rest = TextRound(mem, size, loop, 2)
      BY <1>7, <2>3, <3>1
    <3>3. CASE size = 2
      <4>1. rest = RespResult({"SUCCESS"}, << >>, size)
        BY <3>2, <3>3, Zenon DEF TextRound
      <4>2. << >> \in Seq(AnyItem) /\ Tiles(<< >>, 2, size) /\ EndLast(<< >>)
        BY <3>3 DEF Tiles, EndLast
      <4> QED
        BY <4>1, <4>2
    <3>4. CASE size = 3
      <4>1. mem[2 + 1][2] = 2
        BY <1>4, <3>4
      <4>2. ~ IsValue(mem[2 + 1]) /\ 2 # size /\ size - 2 = 1
        BY <3>4, <4>1 DEF IsValue
      <4>3. rest = RespResult({"SUCCESS"}, <<RespItem(mem, 2, size - 2)>>, size)
        BY <3>2, <4>2, Zenon DEF TextRound
      <4>4. PICK l : IsOne(l, RespItem(mem, 2, 1))
        BY DEF IsOne
      <4>5. rest = RespResult({"SUCCESS"}, l, size)
        BY <4>2, <4>3, <4>4 DEF IsOne
      <4>6. Tiles(l, 2, 3) /\ l \in Seq(AnyItem) /\ Len(l) = 1
        <5>1. 2 \in Nat /\ 1 \in Nat /\ 3 = 2 + 1
          OBVIOUS
        <5> QED
          BY <4>4, <5>1, TilesOne
      <4>7. DOMAIN l = {1}
        BY <4>6
      <4>8. EndLast(l)
        BY <4>6, <4>7 DEF EndLast
      <4> QED
        BY <3>4, <4>5, <4>6, <4>8
    <3> QED
      BY <2>1, <3>3, <3>4
  <2>9. PICK l \in Seq(AnyItem) : /\ rest = RespResult({"SUCCESS"}, l, size)
                                  /\ Tiles(l, 2, size) /\ EndLast(l)
    BY <2>8
  <2>10. PICK m : m = y \o l
    OBVIOUS
  <2>11. loop[0].ret = {"SUCCESS"} /\ loop[0].pos = size /\ loop[0].items = m
    <3>1. rest.items = l
      BY <2>9 DEF RespResult
    <3>2. loop[0] = [rest EXCEPT !.items = m]
      BY <2>4, <2>10, <3>1
    <3> QED
      BY <2>9, <3>2 DEF RespResult
  <2>12. Tiles(m, 0, size) /\ EndLast(m)
    BY <2>5, <2>7, <2>9, <2>10, TilesConcat, EndConcat
  <2>13. m \in Seq(AnyItem) /\ m # << >>
    <3> HIDE DEF AnyItem
    <3>0. y \in Seq(AnyItem) /\ l \in Seq(AnyItem)
      BY <2>5
    <3>1. m \in Seq(AnyItem) /\ Len(m) = Len(y) + Len(l) /\ Len(l) \in Nat
      BY ONLY <2>10, <3>0, ConcatAt
    <3>2. Len(m) # 0
      BY <2>5, <3>1
    <3> QED
      BY <3>1, <3>2, EmptySeq
  <2>14. ~ (size < Len(F))
    BY <2>1
  <2> QED
    BY <1>6, <2>1, <2>11, <2>12, <2>13, <2>14 DEF Parsed
<1> QED
  BY <1>5, <1>13, <1>14, <1>15

\* PARSE_RESP of what has come from one host, from the answer on that it could
\* not take before.
LEMMA ParseTalk ==
    ASSUME StreamOK, NEW F, Talk(F), NEW size \in 1 .. Len(F), Cut(F, size),
           NEW mem \in Seq(Units), size <= Len(mem), \A k \in 1 .. size : mem[k] = F[k],
           NEW pos \in 0 .. (size - 1), F[pos + 1][2] = 0, proto = "text" => pos = 0
    PROVE  Parsed(PARSE_RESP(mem, size, pos), F, pos, size)
<1>1. Len(F) \in Nat
  BY DEF Talk
<1>2. size \in Nat /\ pos \in Nat /\ ~ (pos >= size) /\ 1 \in 1 .. size
  BY <1>1
<1>3. PARSE_RESP(mem, size, pos) =
         IF IsBinary(mem[1]) THEN BinaryLoop(mem, size)[pos] ELSE TextLoop(mem, size)[pos]
  BY <1>2, ParseRespLoops
<1>4. IsBinary(mem[1]) <=> proto = "binary"
  <2>1. mem[1] = F[1] /\ F[1][2] = 0
    BY <1>2 DEF Talk, Joined
  <2> QED
    BY <2>1 DEF IsBinary
<1>5. CASE proto = "binary"
  BY <1>3, <1>4, <1>5, BinaryParsed
<1>6. CASE proto = "text"
  <2>1. pos = 0 /\ ~ IsBinary(mem[1])
    BY <1>4, <1>6
  <2>2. Parsed(TextLoop(mem, size)[0], F, 0, size)
    BY <1>6, TextParsed
  <2> QED
    BY <1>3, <2>1, <2>2
<1> QED
  BY <1>5, <1>6, StreamType

-----------------------------------------------------------------------------
(***************************************************************************)
(* The inductive invariant                                                 *)
(***************************************************************************)

\* The groups of the two rounds for request r, and what a living host answers.
GroupOf(r, b) == IF b = 1 THEN createReqGroup(ItemsOf(r)) ELSE createSyncGroup(ItemsOf(r))
AnswersOf(r, b) == [h \in Hosts |-> Answers(h, CREATE_REQ(GroupOf(r, b)[h]))]

\* What the stream alone determines.
Known ==
    [bytes |-> Bytes,
     request |-> [i \in Nat |-> RequestOf(i)],
     start |-> {i \in DOMAIN stream : Start(i)},
     complete |-> {r \in Nat : ItemsOf(r) \in Seq(DOMAIN stream) /\ Complete(ItemsOf(r))},
     group |-> [x \in Nat \X {1, 2} |-> GroupOf(x[1], x[2])],
     answers |-> [x \in Nat \X {1, 2} |-> AnswersOf(x[1], x[2])],
     expected |-> [r \in Nat |-> Expected(r)],
     text |-> proto = "text"]

GroupAt(K, r, b) == K.group[<<r, b>>]
HostsOf(K, r, b) == DOMAIN GroupAt(K, r, b)
AnswersAt(K, r, b, h) == K.answers[<<r, b>>][h]

\* The request that is being read or served.
Current == Len(replies) + 1
Serving == pc \in {"talk", "recv", "reply"}

\* Ready, for the bytes that K knows.
Clear(K, u, c) ==
    u < Len(K.bytes) => /\ K.bytes[u + 1][2] = 0 /\ K.bytes[u + 1][1] \in K.start
                        /\ K.request[K.bytes[u + 1][1]] >= c

\* The input buffer holds a part of the bytes of the current request, from its
\* first one on, and is empty while a request is served.
ReadInv(K) ==
    LET used == sent - Len(read_buf)
    IN  /\ Len(read_buf) <= sent
        /\ read_buf = SubSeq(K.bytes, used + 1, sent)
        /\ \A k \in DOMAIN read_buf : K.request[read_buf[k][1]] <= Current
        /\ Clear(K, used, IF Serving THEN Current + 1 ELSE Current)
        /\ Serving => read_buf = << >>

\* The round of talkToBackend, and the hosts that it is through with.
Round(K) == IF HostsOf(K, Current, 2) # {} /\ DOMAIN sync_group = {} THEN 2 ELSE 1
Done(K) == HostsOf(K, Current, Round(K)) \ DOMAIN req_group

\* The groups are what is left to do of the two rounds of a complete request.
GroupInv(K) ==
    /\ Serving => /\ Current \in K.complete
                  /\ Round(K) = 2 \/ sync_group = GroupAt(K, Current, 2)
                  /\ DOMAIN req_group \subseteq HostsOf(K, Current, Round(K))
                  /\ \A h \in DOMAIN req_group : req_group[h] = GroupAt(K, Current, Round(K))[h]
                  /\ \A d \in Done(K) : \A h \in DOMAIN req_group : d < h
    /\ pc \notin {"talk", "recv"} =>
          DOMAIN req_group = {} /\ DOMAIN sync_group = {} /\ resp_list = << >>

\* A living host is being heard.
Heard == pc = "recv" /\ Host \notin Dead

\* The first len units of buf are what has come of the answers F, w what is
\* still to come.
Partial(F, buf, len, w, p, text) ==
    /\ w # << >> /\ SubSeq(buf, 1, len) \o w = F
    /\ p \in 0 .. len
    /\ F[p + 1][2] = 0
    /\ text => p = 0

\* Nothing is left on a wire but the rest of what the current host answers.
WireInv(K) ==
    /\ \A h \in Hosts : (Heard /\ h = Host) \/ wire[h] = << >>
    /\ Heard => Partial(AnswersAt(K, Current, Round(K), Host), resp_buf, resp_buf_len,
                        wire[Host], position, K.text)

\* resp_list is empty as long as nobody has answered.
ListInv(K) == Serving /\ pc # "reply" /\ ~ Heard => (resp_list = << >> <=> Done(K) \subseteq Dead)

\* Every host of S up to h is silent.
Silent(S, h) == \A g \in S : g <= h => g \in Dead
BlamedIn(K, h, r) == Silent(HostsOf(K, r, IF h \in HostsOf(K, r, 2) THEN 2 ELSE 1), h)
Asked(K, h, m) == {r \in 1 .. m : h \in HostsOf(K, r, 1) \cup HostsOf(K, r, 2)}
BlamedBy(K, h, m) == Asked(K, h, m) # {} /\ BlamedIn(K, h, Max(Asked(K, h, m)))

\* Whom the counters accuse at any moment.
BlameInv(K) ==
    \A h \in Hosts :
        st_cont_fail[h] > 0 <=>
            IF Serving /\ h \in Done(K) THEN Silent(HostsOf(K, Current, Round(K)), h)
            ELSE IF Serving /\ Round(K) = 2 /\ h \in HostsOf(K, Current, 1)
            THEN Silent(HostsOf(K, Current, 1), h)
            ELSE BlamedBy(K, h, Len(replies))

\* resp_list is all that the one living host has answered.
Collected(F) ==
    /\ Tiles(resp_list, 0, Len(F)) /\ EndLast(resp_list)
    /\ Len(F) <= Len(resp_buf) /\ SubSeq(resp_buf, 1, Len(F)) = F

ResponseInv(K) ==
    /\ Heard => /\ Tiles(resp_list, 0, position)
                /\ \A k \in DOMAIN resp_list : ~ resp_list[k].end
    /\ Serving /\ pc # "reply" /\ ~ Heard =>
          \A h \in Done(K) \ Dead : Collected(AnswersAt(K, Current, Round(K), h))
    /\ pc = "reply" => client_buf = K.expected[Current]
    /\ \A r \in 1 .. Len(replies) : replies[r] = K.expected[r]

\* No request has two hosts that answer.
OneAnswers == \A r \in Nat : \A g, h \in MainHosts(r) \ Dead : g = h

\* K is what the stream determines.
IsKnown(K) == K = Known

\* What the stream determines does not change.
LEMMA KnownStays ==
    ASSUME NEW K, IsKnown(K), proto' = proto, stream' = stream
    PROVE  IsKnown(K)'
<1>1. Bytes' = Bytes
  BY DEF Bytes, RequestLen, HasBody
<1>2. \A i : RequestOf(i)' = RequestOf(i) /\ Start(i)' = Start(i)
  BY DEF RequestOf, Start
<1>3. \A r : ItemsOf(r)' = ItemsOf(r)
  BY DEF RequestOf, ItemsOf
<1>4. \A list : Complete(list)' = Complete(list)
  BY DEF Complete
<1>5. \A ops : With(ops)' = With(ops)
  BY DEF With
<1>6. \A list, table, h : Keyed(list, table, h)' = Keyed(list, table, h)
  BY <1>5 DEF Keyed
<1>7. \A list, table : Grouped(list, table)' = Grouped(list, table)
  BY <1>6 DEF Grouped
<1>8. \A list : createReqGroup(list)' = createReqGroup(list)
  BY <1>5, <1>7 DEF createReqGroup
<1>9. \A list : createSyncGroup(list)' = createSyncGroup(list)
  BY <1>5, <1>7 DEF createSyncGroup
<1>10. \A h, list : Answers(h, list)' = Answers(h, list)
  BY DEF Answers, Answer, AnswerLen
<1>11. \A list : CREATE_REQ(list)' = CREATE_REQ(list)
  BY <1>5 DEF CREATE_REQ
<1>12. \A r, b : GroupOf(r, b)' = GroupOf(r, b)
  BY <1>3, <1>8, <1>9 DEF GroupOf
<1>13. \A r, b : AnswersOf(r, b)' = AnswersOf(r, b)
  BY <1>10, <1>11, <1>12 DEF AnswersOf
<1>14. \A r : MainHosts(r)' = MainHosts(r) /\ SyncHosts(r)' = SyncHosts(r)
  BY <1>3, <1>7, <1>9 DEF MainHosts, SyncHosts
<1>15. \A r : Expected(r)' = Expected(r)
  BY <1>3, <1>5, <1>6, <1>10, <1>14, ZenonT(30) DEF Expected
<1> QED
  BY <1>1, <1>2, <1>3, <1>4, <1>12, <1>13, <1>15 DEF IsKnown, Known

\* The parts of what is known.
LEMMA KnownParts ==
    ASSUME NEW K, IsKnown(K)
    PROVE  /\ K.bytes = Bytes /\ K.text = (proto = "text")
           /\ \A i \in Nat : K.request[i] = RequestOf(i)
           /\ \A i : i \in K.start <=> i \in DOMAIN stream /\ Start(i)
           /\ \A r \in Nat : /\ r \in K.complete <=> ItemsOf(r) \in Seq(DOMAIN stream) /\ Complete(ItemsOf(r))
                             /\ GroupAt(K, r, 1) = createReqGroup(ItemsOf(r))
                             /\ GroupAt(K, r, 2) = createSyncGroup(ItemsOf(r))
                             /\ HostsOf(K, r, 1) = MainHosts(r)
                             /\ HostsOf(K, r, 2) = SyncHosts(r)
                             /\ K.expected[r] = Expected(r)
           /\ \A r \in Nat : \A b \in {1, 2} : \A h \in Hosts :
                 AnswersAt(K, r, b, h) = Answers(h, CREATE_REQ(GroupAt(K, r, b)[h]))
<1>1. /\ K.bytes = Bytes /\ K.text = (proto = "text")
      /\ K.request = [i \in Nat |-> RequestOf(i)]
      /\ K.start = {i \in DOMAIN stream : Start(i)}
  BY DEF IsKnown, Known
<1>2. /\ K.complete = {r \in Nat : ItemsOf(r) \in Seq(DOMAIN stream) /\ Complete(ItemsOf(r))}
      /\ K.group = [x \in Nat \X {1, 2} |-> GroupOf(x[1], x[2])]
      /\ K.answers = [x \in Nat \X {1, 2} |-> AnswersOf(x[1], x[2])]
      /\ K.expected = [r \in Nat |-> Expected(r)]
  BY DEF IsKnown, Known
<1>3. ASSUME NEW r \in Nat, NEW b \in {1, 2}
      PROVE  GroupAt(K, r, b) = GroupOf(r, b) /\ K.answers[<<r, b>>] = AnswersOf(r, b)
  <2>1. <<r, b>> \in Nat \X {1, 2} /\ <<r, b>>[1] = r /\ <<r, b>>[2] = b
    OBVIOUS
  <2> QED
    BY <1>2, <2>1 DEF GroupAt
<1>4. ASSUME NEW r \in Nat
      PROVE  /\ GroupAt(K, r, 1) = createReqGroup(ItemsOf(r))
             /\ GroupAt(K, r, 2) = createSyncGroup(ItemsOf(r))
  <2>1. GroupAt(K, r, 1) = GroupOf(r, 1) /\ GroupAt(K, r, 2) = GroupOf(r, 2)
    BY <1>3
  <2> QED
    BY <2>1 DEF GroupOf
<1>5. ASSUME NEW r \in Nat
      PROVE  HostsOf(K, r, 1) = MainHosts(r) /\ HostsOf(K, r, 2) = SyncHosts(r)
  <2>1. DOMAIN createReqGroup(ItemsOf(r)) = DOMAIN Grouped(ItemsOf(r), Owner)
    BY DEF createReqGroup
  <2> QED
    BY <1>4, <2>1 DEF HostsOf, MainHosts, SyncHosts
<1>6. ASSUME NEW r \in Nat, NEW b \in {1, 2}, NEW h \in Hosts
      PROVE  AnswersAt(K, r, b, h) = Answers(h, CREATE_REQ(GroupAt(K, r, b)[h]))
  <2>1. GroupAt(K, r, b) = GroupOf(r, b) /\ K.answers[<<r, b>>] = AnswersOf(r, b)
    BY <1>3
  <2>2. AnswersAt(K, r, b, h) = AnswersOf(r, b)[h]
    BY <2>1 DEF AnswersAt
  <2>3. AnswersOf(r, b)[h] = Answers(h, CREATE_REQ(GroupOf(r, b)[h]))
    BY DEF AnswersOf
  <2> QED
    BY <2>1, <2>2, <2>3
<1>7. \A r \in Nat : r \in K.complete <=> ItemsOf(r) \in Seq(DOMAIN stream) /\ Complete(ItemsOf(r))
  BY <1>2
<1>8. \A r \in Nat : K.expected[r] = Expected(r)
  BY <1>2
<1> QED
  BY <1>1, <1>4, <1>5, <1>6, <1>7, <1>8

\* Requests are sent to hosts; for a complete one, a host of the group answers
\* with a talk, and only one host has the copy.
LEMMA KnownHosts ==
    ASSUME StreamOK, NEW K, IsKnown(K), NEW r \in Nat
    PROVE  /\ HostsOf(K, r, 1) \subseteq Hosts /\ HostsOf(K, r, 2) \subseteq Hosts
           /\ r \in K.complete => \A b \in {1, 2} : \A h \in HostsOf(K, r, b) : Talk(AnswersAt(K, r, b, h))
           /\ r \in K.complete => \A g, h \in HostsOf(K, r, 2) : g = h
<1>1. PICK L : L = ItemsOf(r)
  OBVIOUS
<1>2. GroupAt(K, r, 1) = createReqGroup(L) /\ GroupAt(K, r, 2) = createSyncGroup(L)
  BY <1>1, KnownParts
<1>3. DOMAIN createReqGroup(L) \subseteq Hosts /\ DOMAIN createSyncGroup(L) \subseteq Hosts
  BY DEF createReqGroup, createSyncGroup, Grouped
<1>4. HostsOf(K, r, 1) \subseteq Hosts /\ HostsOf(K, r, 2) \subseteq Hosts
  BY <1>2, <1>3 DEF HostsOf
<1>5. ASSUME r \in K.complete
      PROVE  L \in Seq(DOMAIN stream) /\ Complete(L)
  BY <1>1, <1>5, KnownParts
<1>6. ASSUME r \in K.complete, NEW h \in HostsOf(K, r, 1)
      PROVE  Talk(AnswersAt(K, r, 1, h))
  <2>1. h \in DOMAIN createReqGroup(L) /\ h \in Hosts
    BY <1>2, <1>4 DEF HostsOf
  <2>2. Asks(CREATE_REQ(createReqGroup(L)[h]))
    BY <1>5, <1>6, <2>1, ReqGroupAsks
  <2>3. AnswersAt(K, r, 1, h) = Answers(h, CREATE_REQ(createReqGroup(L)[h]))
    BY <1>2, <2>1, KnownParts
  <2> QED
    BY <2>1, <2>2, <2>3, TalkAnswers
<1>7. ASSUME r \in K.complete, NEW h \in HostsOf(K, r, 2)
      PROVE  Talk(AnswersAt(K, r, 2, h)) /\ HostsOf(K, r, 2) = {h}
  <2>1. h \in DOMAIN createSyncGroup(L) /\ h \in Hosts
    BY <1>2, <1>4 DEF HostsOf
  <2>2. Asks(CREATE_REQ(createSyncGroup(L)[h])) /\ DOMAIN createSyncGroup(L) = {h}
    BY <1>5, <1>7, <2>1, SyncGroupAsks
  <2>3. AnswersAt(K, r, 2, h) = Answers(h, CREATE_REQ(createSyncGroup(L)[h]))
    BY <1>2, <2>1, KnownParts
  <2> QED
    BY <1>2, <2>1, <2>2, <2>3, TalkAnswers DEF HostsOf
<1> QED
  BY <1>4, <1>6, <1>7

\* The bytes of the client are in the order of its requests.
LEMMA BytesOrder ==
    ASSUME StreamOK, NEW j, NEW n, j \in 1 .. n, n \in 1 .. Len(Bytes)
    PROVE  /\ Bytes[j][1] \in Nat \ {0} /\ Bytes[n][1] \in Nat /\ Bytes[j][1] \in DOMAIN stream
           /\ RequestOf(Bytes[j][1]) <= RequestOf(Bytes[n][1])
<1>1. PICK s, X : s = Bytes /\ X = (DOMAIN stream) \X {0, 1}
  OBVIOUS
<1>2. s \in Seq(X) /\ Len(s) \in Nat
  BY <1>1, BytesType
<1>3. \A k \in 1 .. (Len(s) - 1) : s[k + 1] = Following(s[k])
  BY <1>1, BytesChained DEF Chained
<1>4. ASSUME NEW k \in 1 .. Len(s)
      PROVE  s[k] \in X /\ s[k][1] \in DOMAIN stream /\ s[k][1] \in Nat \ {0}
  BY <1>1, <1>2, StreamType
<1>5. n \in 1 .. Len(s) /\ j \in 1 .. Len(s) /\ j \in Nat /\ n \in Nat
  BY <1>1, <1>2
<1> DEFINE S == {d \in Nat : j + d <= n => s[j][1] <= s[j + d][1]}
<1>6. 0 \in S
  BY <1>4, <1>5
<1>7. ASSUME NEW d \in S
      PROVE  d + 1 \in S
  <2> SUFFICES ASSUME j + (d + 1) <= n
               PROVE  s[j][1] <= s[j + (d + 1)][1]
    OBVIOUS
  <2>1. PICK k \in 1 .. (Len(s) - 1) : k = j + d
    BY <1>2, <1>5
  <2>2. s[k + 1] = Following(s[k]) /\ k + 1 = j + (d + 1) /\ k \in 1 .. Len(s)
    BY <1>2, <1>3, <1>5, <2>1
  <2>3. s[k + 1][1] \in {s[k][1], s[k][1] + 1}
    BY <2>2 DEF Following
  <2>4. s[j][1] <= s[k][1]
    BY <1>5, <2>1, <2>2
  <2>5. s[k][1] \in Nat /\ s[j][1] \in Nat
    BY <1>4, <1>5, <2>2
  <2> QED
    BY <2>2, <2>3, <2>4, <2>5
<1>8. S = Nat
  <2>1. S \in SUBSET Nat
    OBVIOUS
  <2> HIDE DEF S
  <2> QED
    BY <1>6, <1>7, <2>1, SetInduction
<1>9. s[j][1] <= s[n][1]
  <2>1. PICK d \in Nat : d = n - j
    BY <1>5
  <2>2. j + d = n
    BY <1>5, <2>1
  <2>3. d \in S
    <3> HIDE DEF S
    <3> QED
      BY <1>8
  <2> QED
    BY <1>5, <2>2, <2>3
<1>10. PICK a, b : a = s[j][1] /\ b = s[n][1]
  OBVIOUS
<1>11. a \in Nat \ {0} /\ b \in Nat /\ a <= b /\ a \in DOMAIN stream
  BY <1>4, <1>5, <1>9, <1>10
<1> QED
  BY <1>1, <1>10, <1>11, RequestOrder

\* The types of the state.
LEMMA StateTypes ==
    ASSUME TypeInv
    PROVE  /\ StreamOK
           /\ sent \in 0 .. Len(Bytes) /\ sent \in Nat /\ Len(Bytes) \in Nat
           /\ read_buf \in Seq((DOMAIN stream) \X {0, 1}) /\ Len(read_buf) \in Nat
           /\ Len(replies) \in Nat /\ Current \in Nat \ {0}
           /\ DOMAIN req_group \subseteq Hosts /\ DOMAIN sync_group \subseteq Hosts
           /\ pc \in {"wait", "read", "talk", "recv", "reply"}
           /\ pc = "recv" => DOMAIN req_group # {}
           /\ wire \in [Hosts -> WholeSeqs] /\ resp_buf \in Seq(Units)
           /\ st_cont_fail \in [Hosts -> Nat]
           /\ resp_buf_len \in 0 .. Len(resp_buf) /\ Len(resp_buf) \in Nat /\ resp_buf_len \in Nat
           /\ resp_list \in Seq(AnyItem)
<1>1. PICK U, A, W, T, b : Names(U, A, W, T, b)
  BY DEF Names, TypeInv
<1>2. Shape(U, A, W, T, b)
  BY <1>1 DEF TypeInv, Names
<1>3. StreamOK /\ U = Units /\ W = WholeSeqs /\ T = DOMAIN stream /\ b = Len(Bytes)
  BY <1>1 DEF Names
<1>4. b \in Nat
  <2>1. PICK X, s : X = (DOMAIN stream) \X {0, 1} /\ s = Bytes
    OBVIOUS
  <2>2. s \in Seq(X)
    BY <1>3, <2>1, BytesType
  <2> QED
    BY <1>3, <2>1, <2>2
<1>5. sent \in 0 .. b /\ sent \in Nat
  BY <1>2, <1>4 DEF Shape
<1>6. read_buf \in Seq(T \X {0, 1}) /\ Len(read_buf) \in Nat
  BY <1>2 DEF Shape
<1>7. Len(replies) \in Nat /\ Current \in Nat \ {0}
  <2>1. PICK Z : Z = Seq(A)
    OBVIOUS
  <2>2. replies \in Seq(Z)
    BY <1>2, <2>1 DEF Shape
  <2>3. Len(replies) \in Nat
    BY <2>2
  <2> QED
    BY <2>3 DEF Current
<1>8. /\ DOMAIN req_group \subseteq Hosts /\ DOMAIN sync_group \subseteq Hosts
      /\ pc \in {"wait", "read", "talk", "recv", "reply"}
      /\ pc = "recv" => DOMAIN req_group # {}
      /\ wire \in [Hosts -> W] /\ resp_buf \in Seq(U) /\ st_cont_fail \in [Hosts -> Nat]
      /\ resp_buf_len \in 0 .. Len(resp_buf) /\ resp_list \in Seq(ItemsTo(Len(resp_buf) + Ahead))
  BY <1>2, Zenon DEF Shape, GroupIn
<1>9. Len(resp_buf) \in Nat /\ resp_buf_len \in Nat
  BY <1>8
<1>10. resp_list \in Seq(AnyItem)
  <2>1. ItemsTo(Len(resp_buf) + Ahead) \subseteq AnyItem
    BY DEF ItemsTo
  <2> QED
    BY <1>8, <2>1, SeqMonotonic
<1> QED
  BY <1>3, <1>4, <1>5, <1>6, <1>7, <1>8, <1>9, <1>10

\* Clear is Ready.
LEMMA ClearReady ==
    ASSUME StreamOK, NEW K, IsKnown(K), NEW u \in Nat, NEW c \in Nat
    PROVE  Clear(K, u, c) <=> Ready(u, c)
<1>1. K.bytes = Bytes
  BY KnownParts
<1>2. PICK i : i = Bytes[u + 1][1]
  OBVIOUS
<1>3. i \in K.start <=> i \in DOMAIN stream /\ Start(i)
  BY KnownParts
<1>4. i \in DOMAIN stream => K.request[i] = RequestOf(i)
  <2>1. i \in DOMAIN stream => i \in Nat
    BY StreamType
  <2> QED
    BY <2>1, KnownParts
<1> QED
  BY <1>1, <1>2, <1>3, <1>4, Zenon DEF Clear, Ready

\* A request that PARSE_REQ refuses is sent to nobody.
LEMMA RefusedHosts ==
    ASSUME NEW c, NEW i \in DOMAIN stream, ItemsOf(c) = <<i>>, stream[i].op = "other"
    PROVE  MainHosts(c) = {} /\ SyncHosts(c) = {}
<1>1. i \notin With({"set"})
  BY DEF With
<1>2. i \in With({"noop", "other"})
  BY DEF With
<1>3. ASSUME NEW S, i \notin S
      PROVE  Only(<<i>>, S) = << >> /\ Only(<< >>, S) = << >>
  BY <1>3, OnlyOne
<1>4. \A table, h : Keyed(<<i>>, table, h) = << >>
  BY <1>2, <1>3 DEF Keyed
<1>5. \A table, h : Keyed(<< >>, table, h) = << >>
  <2>1. \A S : Only(<< >>, S) = << >>
    BY OnlyOne
  <2> QED
    BY <2>1 DEF Keyed
<1>6. Only(<<i>>, {j \in With({"set"}) : stream[j].key \in SyncKeys}) = << >>
  BY <1>1, <1>3
<1>7. MainHosts(c) = {}
  <2>1. DOMAIN Grouped(<<i>>, Owner) = {}
    BY <1>4 DEF Grouped
  <2> QED
    BY <2>1 DEF MainHosts
<1>8. SyncHosts(c) = {}
  <2>1. DOMAIN Grouped(<< >>, Backup) = {}
    BY <1>5 DEF Grouped
  <2>2. createSyncGroup(<<i>>) = Grouped(<< >>, Backup)
    BY <1>6 DEF createSyncGroup
  <2> QED
    BY <2>1, <2>2 DEF SyncHosts
<1> QED
  BY <1>7, <1>8

\* What readEvent does, up to talkToBackend.
ReadAgain ==
    pc' = "wait" /\ UNCHANGED <<read_buf, replies, req_group, sync_group>>
ReadIgnored ==
    pc' = "wait" /\ read_buf' = << >> /\ UNCHANGED <<replies, req_group, sync_group>>
ReadRefused(K) ==
    /\ pc' = "wait" /\ read_buf' = << >> /\ UNCHANGED <<req_group, sync_group>>
    /\ replies' = Append(replies, << >>)
    /\ HostsOf(K, Current, 1) = {} /\ HostsOf(K, Current, 2) = {}
ReadFound(K) ==
    /\ pc' = "talk" /\ read_buf' = << >> /\ UNCHANGED replies
    /\ req_group' = GroupAt(K, Current, 1) /\ sync_group' = GroupAt(K, Current, 2)
    /\ Current \in K.complete

\* It finds all of the current request, or waits for more of it.
LEMMA ReadOutcome ==
    ASSUME TypeInv, NEW K, IsKnown(K), ReadInv(K), ReadEvent
    PROVE  /\ pc = "read" /\ UNCHANGED <<sent, backend, resp_list, client_buf, st_cont_fail>>
           /\ \/ ReadAgain
              \/ Clear(K, sent, Current + 1) /\ (ReadIgnored \/ ReadRefused(K) \/ ReadFound(K))
<1>1. PICK buf, r, u, s, c : /\ buf = read_buf /\ r = PARSE_REQ(buf)
                             /\ u = sent - Len(read_buf) /\ s = sent /\ c = Current
  OBVIOUS
<1>2. pc = "read" /\ UNCHANGED <<sent, backend, resp_list, client_buf, st_cont_fail>>
  BY DEF ReadEvent
<1>3. /\ read_buf' = IF r.ret = "AGAIN" THEN read_buf ELSE << >>
      /\ IF r.ret = "SUCCESS"
         THEN /\ pc' = "talk"
              /\ req_group' = createReqGroup(r.list)
              /\ sync_group' = createSyncGroup(r.list)
         ELSE pc' = "wait" /\ UNCHANGED <<req_group, sync_group>>
      /\ replies' = IF r.ret = "ERROR" THEN Append(replies, << >>) ELSE replies
  BY <1>1 DEF ReadEvent
<1>4. CASE r.ret = "AGAIN"
  BY <1>2, <1>3, <1>4 DEF ReadAgain
<1>5. CASE r.ret # "AGAIN"
  <2>1. StreamOK /\ K.bytes = Bytes /\ c \in Nat /\ s \in Nat /\ Len(Bytes) \in Nat /\ s <= Len(Bytes)
    BY <1>1, StateTypes, KnownParts
  <2>2. u \in 0 .. Len(Bytes) /\ s \in u .. Len(Bytes) /\ u \in Nat
    BY <1>1, <2>1, StateTypes DEF ReadInv
  <2>3. buf = SubSeq(Bytes, u + 1, s)
    BY <1>1, <2>1 DEF ReadInv
  <2>4. Ready(u, c)
    <3>1. Clear(K, u, c)
      BY <1>1, <1>2 DEF ReadInv, Serving
    <3> QED
      BY <2>1, <2>2, <3>1, ClearReady
  <2>5. \A k \in DOMAIN buf : RequestOf(buf[k][1]) <= c
    <3> SUFFICES ASSUME NEW k \in DOMAIN buf
                 PROVE  RequestOf(buf[k][1]) <= c
      OBVIOUS
    <3>1. PICK X : X = (DOMAIN stream) \X {0, 1}
      OBVIOUS
    <3>2. buf \in Seq(X)
      BY <1>1, <3>1, StateTypes
    <3>3. buf[k] \in X
      BY <3>2
    <3>4. buf[k][1] \in Nat
      BY <2>1, <3>1, <3>3, StreamType
    <3>5. K.request[buf[k][1]] = RequestOf(buf[k][1])
      BY <3>4, KnownParts
    <3>6. K.request[buf[k][1]] <= c
      BY <1>1 DEF ReadInv
    <3> QED
      BY <3>5, <3>6
  <2>6. /\ Ready(s, c + 1)
        /\ r.ret \in {"SUCCESS", "ERROR", "IGNORE"}
        /\ r.ret = "SUCCESS" => /\ r.list = ItemsOf(c) /\ Complete(ItemsOf(c))
                                /\ ItemsOf(c) \in Seq(DOMAIN stream)
        /\ r.ret = "ERROR" => \E i \in DOMAIN stream : ItemsOf(c) = <<i>> /\ stream[i].op = "other"
    <3>1. IsParse(r, buf) /\ IsPart(buf, u, s)
      BY <1>1, <2>3 DEF IsPart, IsParse
    <3> QED
      BY ONLY <1>5, <2>1, <2>2, <2>4, <2>5, <3>1, ParseRequest
  <2>7. Clear(K, sent, Current + 1)
    <3>1. c + 1 \in Nat
      BY <2>1
    <3>2. Clear(K, s, c + 1)
      BY <2>1, <2>6, <3>1, ClearReady
    <3> QED
      BY <1>1, <3>2
  <2>8. CASE r.ret = "SUCCESS"
    <3>1. /\ GroupAt(K, c, 1) = createReqGroup(ItemsOf(c)) /\ GroupAt(K, c, 2) = createSyncGroup(ItemsOf(c))
          /\ c \in K.complete
      BY <2>1, <2>6, <2>8, KnownParts
    <3>2. req_group' = createReqGroup(ItemsOf(c)) /\ sync_group' = createSyncGroup(ItemsOf(c))
      BY <1>3, <2>6, <2>8
    <3>3. pc' = "talk" /\ read_buf' = << >> /\ UNCHANGED replies
      BY <1>3, <2>8
    <3>4. ReadFound(K)
      BY <1>1, <3>1, <3>2, <3>3 DEF ReadFound
    <3> QED
      BY <1>2, <2>7, <3>4
  <2>9. CASE r.ret = "ERROR"
    <3>1. MainHosts(c) = {} /\ SyncHosts(c) = {}
      BY <2>6, <2>9, RefusedHosts
    <3>2. HostsOf(K, c, 1) = {} /\ HostsOf(K, c, 2) = {}
      BY <2>1, <3>1, KnownParts
    <3>3. /\ pc' = "wait" /\ read_buf' = << >> /\ UNCHANGED <<req_group, sync_group>>
          /\ replies' = Append(replies, << >>)
      BY <1>3, <2>9
    <3>4. ReadRefused(K)
      BY <1>1, <3>2, <3>3 DEF ReadRefused
    <3> QED
      BY <1>2, <2>7, <3>4
  <2>10. CASE r.ret = "IGNORE"
    <3>1. ReadIgnored
      BY <1>3, <2>10 DEF ReadIgnored
    <3> QED
      BY <1>2, <2>7, <3>1
  <2> QED
    BY <2>6, <2>8, <2>9, <2>10
<1> QED
  BY <1>4, <1>5

\* The first elements of a sequence.
LEMMA SubSeqAt ==
    ASSUME NEW T, NEW s \in Seq(T), NEW m \in Nat, NEW n \in m .. Len(s)
    PROVE  /\ SubSeq(s, m + 1, n) \in Seq(T) /\ Len(SubSeq(s, m + 1, n)) = n - m
           /\ \A k \in 1 .. (n - m) : SubSeq(s, m + 1, n)[k] = s[m + k]
<1>1. Len(s) \in Nat /\ n \in Nat /\ m <= n /\ n <= Len(s)
  OBVIOUS
<1>2. PICK d \in Nat : d = n - m
  BY <1>1
<1>3. \A k \in 1 .. d : m + k \in 1 .. Len(s) /\ k + (m + 1) - 1 = m + k
  BY <1>1, <1>2
<1>4. PICK w : w = SubSeq(s, m + 1, n)
  OBVIOUS
<1>5. n - (m + 1) + 1 = d
  BY <1>1, <1>2
<1>6. w = [k \in 1 .. d |-> s[k + (m + 1) - 1]]
  BY <1>1, <1>4, <1>5
<1>7. w \in [1 .. d -> T] /\ \A k \in 1 .. d : w[k] = s[m + k]
  BY <1>3, <1>6
<1>8. w \in Seq(T) /\ Len(w) = d
  BY <1>7, FunctionIsSeq
<1> QED
  BY <1>2, <1>4, <1>7, <1>8

\* mem is buf after units of w were received.
IsMemory(mem, buf, old, w, len) == mem = Memory(buf, old, w, len)
IsSum(len, old, n) == len = old + n
IsText(text) == text <=> proto = "text"

\* recv() returns the first n units of w, what is still to come of F.
Receiving(F, buf, old, w, pos, text, n, len, mem) ==
    /\ StreamOK /\ Talk(F) /\ buf \in Seq(Units) /\ old \in 0 .. Len(buf) /\ w \in Seq(Units)
    /\ IsText(text) /\ Partial(F, buf, old, w, pos, text)
    /\ n \in 1 .. Len(w) /\ IsSum(len, old, n) /\ IsMemory(mem, buf, old, w, len)
    /\ mem \in Seq(Units) /\ len \in 1 .. Len(mem)
    /\ n < Len(w) => len = 1 \/ w[n + 1][2] = 0

\* PARSE_RESP takes what has come apart, and the rest is still to come.
TakenApart(F, w, pos, n, len, mem) ==
    /\ len \in 1 .. Len(F) /\ (len = Len(F) <=> n = Len(w))
    /\ pos \in 0 .. (len - 1)
    /\ Parsed(PARSE_RESP(mem, len, pos), F, pos, len)
    /\ SubSeq(mem, 1, len) \o SubSeq(w, n + 1, Len(w)) = F

\* One recv() of what a host answers, and PARSE_RESP.
LEMMA RecvTalk ==
    ASSUME NEW F, NEW buf, NEW old, NEW w, NEW pos, NEW text, NEW n, NEW len, NEW mem,
           Receiving(F, buf, old, w, pos, text, n, len, mem)
    PROVE  TakenApart(F, w, pos, n, len, mem)
<1>0. /\ StreamOK /\ Talk(F) /\ buf \in Seq(Units) /\ old \in 0 .. Len(buf) /\ w \in Seq(Units)
      /\ IsText(text) /\ Partial(F, buf, old, w, pos, text)
      /\ n \in 1 .. Len(w) /\ IsSum(len, old, n) /\ IsMemory(mem, buf, old, w, len)
      /\ mem \in Seq(Units) /\ len \in 1 .. Len(mem)
      /\ n < Len(w) => len = 1 \/ w[n + 1][2] = 0
  BY DEF Receiving
<1>1. PICK U : U = Units
  OBVIOUS
<1>2. /\ buf \in Seq(U) /\ w \in Seq(U) /\ mem \in Seq(U) /\ F \in Seq(U)
  BY <1>0, <1>1 DEF Talk
<1>3. PICK bl, wl, ml, fl \in Nat : bl = Len(buf) /\ wl = Len(w) /\ ml = Len(mem) /\ fl = Len(F)
  BY <1>2
<1>4. old \in 0 .. bl /\ n \in 1 .. wl /\ len = old + n /\ len \in 1 .. ml /\ old \in Nat /\ n \in Nat /\ len \in Nat
  BY <1>0, <1>3 DEF IsSum
<1>5. PICK a : a = SubSeq(buf, 1, old)
  OBVIOUS
<1>6. a \in Seq(U) /\ Len(a) = old /\ \A k \in 1 .. old : a[k] = buf[k]
  <2>1. 0 + 1 = 1 /\ old - 0 = old /\ \A k \in 1 .. old : 0 + k = k
    BY <1>4
  <2>2. PICK z \in Nat : z = 0
    OBVIOUS
  <2>3. old \in z .. Len(buf)
    BY <1>3, <1>4, <2>2
  <2>4. /\ SubSeq(buf, z + 1, old) \in Seq(U) /\ Len(SubSeq(buf, z + 1, old)) = old - z
        /\ \A k \in 1 .. (old - z) : SubSeq(buf, z + 1, old)[k] = buf[z + k]
    BY ONLY <1>2, <2>3, z \in Nat, SubSeqAt
  <2> QED
    BY <1>5, <2>1, <2>2, <2>4
<1>7. pos \in 0 .. old /\ F[pos + 1][2] = 0 /\ (text => pos = 0)
  BY <1>0 DEF Partial
<1>8. /\ fl = old + wl
      /\ \A k \in 1 .. old : F[k] = buf[k]
      /\ \A k \in 1 .. wl : F[old + k] = w[k]
  <2>1. PICK G : G = a \o w
    OBVIOUS
  <2>2. F = G
    BY <1>0, <1>5, <2>1 DEF Partial
  <2>3. /\ Len(G) = Len(a) + Len(w)
        /\ \A k \in 1 .. Len(a) : G[k] = a[k]
        /\ \A k \in 1 .. Len(w) : G[Len(a) + k] = w[k]
    <3>1. /\ Len(a \o w) = Len(a) + Len(w)
          /\ \A k \in 1 .. Len(a) : (a \o w)[k] = a[k]
          /\ \A k \in 1 .. Len(w) : (a \o w)[Len(a) + k] = w[k]
      <4>1. a \in Seq(U) /\ w \in Seq(U)
        BY <1>2, <1>6
      <4> QED
        BY ONLY <4>1, ConcatAt
    <3> QED
      BY <2>1, <3>1
  <2>4. fl = Len(G)
    BY <1>3, <2>2
  <2>5. /\ fl = old + wl
        /\ \A k \in 1 .. old : G[k] = buf[k]
        /\ \A k \in 1 .. wl : G[old + k] = w[k]
    BY <1>3, <1>6, <2>3, <2>4
  <2> QED
    BY <2>2, <2>5
<1>9. len \in 1 .. fl /\ (len = fl <=> n = wl) /\ pos \in 0 .. (len - 1)
  BY <1>4, <1>7, <1>8
<1>10. \A k \in 1 .. len : mem[k] = F[k]
  <2> SUFFICES ASSUME NEW k \in 1 .. len
               PROVE  mem[k] = F[k]
    OBVIOUS
  <2>1. k \in 1 .. (IF len < Len(buf) THEN Len(buf) ELSE len)
    BY <1>3, <1>4
  <2>2. mem[k] = IF k \in (old + 1) .. len THEN w[k - old] ELSE buf[k]
    BY <1>0, <2>1 DEF IsMemory, Memory
  <2>3. CASE k \in (old + 1) .. len
    <3>1. PICK j \in 1 .. wl : j = k - old
      BY <1>4, <2>3
    <3>2. k = old + j
      BY <1>4, <3>1
    <3> QED
      BY <1>8, <2>2, <2>3, <3>1, <3>2
  <2>4. CASE k \notin (old + 1) .. len
    <3>1. k \in 1 .. old
      BY <1>4, <2>4
    <3> QED
      BY <1>8, <2>2, <2>4, <3>1
  <2> QED
    BY <2>3, <2>4
<1>11. Cut(F, len)
  <2>1. CASE n = wl
    BY <1>3, <1>9, <2>1 DEF Cut
  <2>2. CASE n # wl
    <3>1. n < Len(w) /\ n + 1 \in 1 .. wl /\ old + (n + 1) = len + 1
      BY <1>3, <1>4, <2>2
    <3>2. PICK j \in 1 .. wl : j = n + 1
      BY <3>1
    <3>3. F[len + 1] = w[n + 1]
      BY <1>8, <3>1, <3>2
    <3> QED
      BY <1>0, <3>1, <3>3 DEF Cut
  <2> QED
    BY <2>1, <2>2
<1>12. Parsed(PARSE_RESP(mem, len, pos), F, pos, len)
  <2>1. len \in 1 .. Len(F) /\ len <= Len(mem) /\ mem \in Seq(Units) /\ (proto = "text" => pos = 0)
    BY <1>0, <1>3, <1>7, <1>9 DEF IsText
  <2>2. F[pos + 1][2] = 0
    BY <1>7
  <2>3. StreamOK /\ Talk(F)
    BY <1>0
  <2> QED
    BY ONLY <2>3, <1>9, <1>10, <1>11, <2>1, <2>2, ParseTalk
<1>13. SubSeq(mem, 1, len) \o SubSeq(w, n + 1, Len(w)) = F
  <2>1. PICK s, t : s = SubSeq(mem, 1, len) /\ t = SubSeq(w, n + 1, wl)
    OBVIOUS
  <2>2. s \in Seq(U) /\ Len(s) = len /\ \A k \in 1 .. len : s[k] = mem[k]
    <3>1. 0 + 1 = 1 /\ len - 0 = len /\ \A k \in 1 .. len : 0 + k = k
      BY <1>4
    <3>2. PICK z \in Nat : z = 0
      OBVIOUS
    <3>3. len \in z .. Len(mem)
      BY <1>3, <1>4, <3>2
    <3>4. /\ SubSeq(mem, z + 1, len) \in Seq(U) /\ Len(SubSeq(mem, z + 1, len)) = len - z
          /\ \A k \in 1 .. (len - z) : SubSeq(mem, z + 1, len)[k] = mem[z + k]
      BY ONLY <1>2, <3>3, z \in Nat, SubSeqAt
    <3> QED
      BY <2>1, <3>1, <3>2, <3>4
  <2>3. t \in Seq(U) /\ Len(t) = wl - n /\ \A k \in 1 .. (wl - n) : t[k] = w[n + k]
    <3>1. wl \in n .. Len(w) /\ n \in Nat /\ w \in Seq(U)
      BY <1>2, <1>3, <1>4
    <3>2. /\ SubSeq(w, n + 1, wl) \in Seq(U) /\ Len(SubSeq(w, n + 1, wl)) = wl - n
          /\ \A k \in 1 .. (wl - n) : SubSeq(w, n + 1, wl)[k] = w[n + k]
      BY ONLY <3>1, SubSeqAt
    <3> QED
      BY <2>1, <3>2
  <2>4. PICK st : st = s \o t
    OBVIOUS
  <2>5. /\ st \in Seq(U) /\ Len(st) = len + (wl - n)
        /\ \A k \in 1 .. len : st[k] = s[k]
        /\ \A k \in 1 .. (wl - n) : st[len + k] = t[k]
    <3>1. PICK d \in Nat : d = wl - n
      BY <1>4
    <3>2. s \in Seq(U) /\ t \in Seq(U) /\ Len(s) = len /\ Len(t) = d
      BY <2>2, <2>3, <3>1
    <3>3. /\ s \o t \in Seq(U) /\ Len(s \o t) = Len(s) + Len(t)
          /\ \A k \in 1 .. Len(s) : (s \o t)[k] = s[k]
          /\ \A k \in 1 .. Len(t) : (s \o t)[Len(s) + k] = t[k]
      <4>1. s \in Seq(U) /\ t \in Seq(U)
        BY <3>2
      <4> QED
        BY ONLY <4>1, ConcatAt
    <3> QED
      BY <2>4, <3>1, <3>2, <3>3
  <2>6. Len(st) = fl /\ fl = Len(F)
    BY <1>3, <1>4, <1>8, <2>5
  <2>7. ASSUME NEW k \in 1 .. fl
        PROVE  st[k] = F[k]
    <3>1. CASE k \in 1 .. len
      BY <1>10, <2>2, <2>5, <3>1
    <3>2. CASE k \notin 1 .. len
      <4>1. PICK j \in 1 .. (wl - n) : j = k - len
        BY <1>4, <1>8, <3>2
      <4>2. PICK i \in 1 .. wl : i = n + j
        BY <1>4, <4>1
      <4>3. k = len + j /\ k = old + i
        BY <1>4, <4>1, <4>2
      <4>4. st[k] = t[j] /\ t[j] = w[i] /\ F[k] = w[i]
        BY <1>8, <2>3, <2>5, <4>2, <4>3
      <4> QED
        BY <4>4
    <3> QED
      BY <3>1, <3>2
  <2>8. st = F
    BY <1>2, <2>5, <2>6, <2>7, SeqEqual
  <2> QED
    BY <1>3, <2>1, <2>4, <2>8
<1> QED
  BY <1>3, <1>9, <1>12, <1>13 DEF TakenApart

\* What recv() and PARSE_RESP do with the answers F: more is to come, or all of
\* them are found.
RecvMore(F, items, text) ==
    /\ Partial(F, resp_buf', resp_buf_len', wire'[Host], position', text)
    /\ Tiles(items, position, position') /\ \A k \in DOMAIN items : ~ items[k].end
    /\ UNCHANGED <<pc, req_group, st_cont_fail>>
RecvAll(F, items) ==
    /\ wire'[Host] = << >>
    /\ items # << >> /\ Tiles(items, position, Len(F)) /\ EndLast(items)
    /\ Len(F) <= Len(resp_buf') /\ SubSeq(resp_buf', 1, Len(F)) = F
    /\ NextHost

\* One recv() and PARSE_RESP, of a host that answers.
LEMMA RecvOutcome ==
    ASSUME torn = 0, torn' = 0, TypeInv, NEW K, IsKnown(K), GroupInv(K), WireInv(K), Recv
    PROVE  /\ pc = "recv" /\ Host \in DOMAIN req_group /\ Host \in Hosts /\ Host \notin Dead
           /\ UNCHANGED <<sent, read_buf, sync_group, client_buf, replies>>
           /\ \A g \in Hosts \ {Host} : wire'[g] = wire[g]
           /\ \E items \in Seq(AnyItem) :
                /\ resp_list' = resp_list \o items
                /\ \/ RecvMore(AnswersAt(K, Current, Round(K), Host), items, K.text)
                   \/ RecvAll(AnswersAt(K, Current, Round(K), Host), items)
<1>1. pc = "recv" /\ Host \in DOMAIN req_group /\ Host \in Hosts
  BY StateTypes, HostInGroup DEF Recv
<1>2. PICK w : w = wire[Host]
  OBVIOUS
<1> DEFINE memory(len) == Memory(resp_buf, resp_buf_len, w, len)
           Taken(n, len, mem, r) ==
             /\ wire' = [wire EXCEPT ![Host] = SubSeq(@, n + 1, Len(@))]
             /\ resp_buf' = mem
             /\ IF Noticed(Host, n) THEN UNCHANGED torn ELSE TornHere
             /\ \E ret \in r.ret :
                  /\ resp_list' = IF ret = "ERROR" THEN << >> ELSE resp_list \o r.items
                  /\ IF ret = "AGAIN"
                     THEN /\ resp_buf_len' = len /\ position' = r.pos
                          /\ UNCHANGED <<pc, req_group, st_cont_fail>>
                     ELSE NextHost
<1>3. PICK n \in 1 .. Len(w) : LET len == resp_buf_len + n
                               IN  Taken(n, len, memory(len), PARSE_RESP(memory(len), len, position))
  <2>1. PICK n \in 1 .. Len(w) :
           LET len == resp_buf_len + n
               mem == Received(SubSeq(w, 1, n))
           IN  Taken(n, len, mem, PARSE_RESP(mem, len, position))
    BY <1>2, Zenon DEF Recv
  <2>2. PICK V : V = Units
    OBVIOUS
  <2>3. w \in Seq(V) /\ resp_buf_len \in Nat
    BY <1>1, <1>2, <2>2, StateTypes DEF WholeSeqs
  <2>4. n \in 0 .. Len(w)
    BY <2>3
  <2>5. Received(SubSeq(w, 1, n)) = memory(resp_buf_len + n)
    BY <2>3, <2>4, ReceivedMemory
  <2> QED
    BY <2>1, <2>5, Zenon
<1>4. PICK len, mem, r, old, buf, pos :
         /\ len = resp_buf_len + n /\ mem = memory(len)
         /\ r = PARSE_RESP(mem, len, position)
         /\ old = resp_buf_len /\ buf = resp_buf /\ pos = position
  OBVIOUS
<1>5. Taken(n, len, mem, r)
  BY <1>3, <1>4
<1>6. UNCHANGED <<sent, read_buf, sync_group, client_buf, replies>>
  BY DEF Recv, client
<1>7. PICK U : U = Units
  OBVIOUS
<1>8. /\ StreamOK /\ w \in WholeSeqs /\ w \in Seq(U) /\ Len(w) \in Nat
      /\ buf \in Seq(U) /\ old \in 0 .. Len(buf) /\ Len(buf) \in Nat /\ old \in Nat
  BY <1>1, <1>2, <1>4, <1>7, StateTypes DEF WholeSeqs
<1>9. wire[Host] # << >> /\ Host \notin Dead /\ Heard
  <2>1. Len(w) # 0
    BY <1>8
  <2>2. wire[Host] # << >>
    BY <1>2, <1>8, <2>1, EmptySeq
  <2>3. Heard
    BY <1>1, <2>2 DEF WireInv
  <2> QED
    BY <2>2, <2>3 DEF Heard
<1>10. PICK F, c, b, h, text : F = AnswersAt(K, Current, Round(K), Host)
                               /\ c = Current /\ b = Round(K) /\ h = Host /\ text = K.text
  OBVIOUS
<1>11. Talk(F)
  <2>1. c \in Nat /\ b \in {1, 2} /\ c \in K.complete /\ h \in HostsOf(K, c, b)
    BY <1>1, <1>10, StateTypes DEF GroupInv, Serving, Round
  <2>2. Talk(AnswersAt(K, c, b, h))
    BY <1>8, <2>1, KnownHosts
  <2> QED
    BY <1>10, <2>2
<1>12. Partial(F, buf, old, w, pos, text)
  BY <1>2, <1>4, <1>9, <1>10 DEF WireInv
<1>13. text <=> proto = "text"
  BY <1>10, KnownParts
<1>27. IsText(text)
  BY <1>13 DEF IsText
<1>14. IsSum(len, old, n) /\ IsMemory(mem, buf, old, w, len)
  BY <1>4 DEF IsSum, IsMemory
<1>28. Noticed(Host, n)
  <2> SUFFICES ASSUME ~ Noticed(Host, n)
               PROVE  FALSE
    OBVIOUS
  <2>1. torn' = Len(replies) + 1
    BY <1>5 DEF TornHere
  <2> QED
    BY <2>1, StateTypes
<1>15. n < Len(w) => len = 1 \/ w[n + 1][2] = 0
  BY <1>2, <1>4, <1>28 DEF Noticed
<1> HIDE DEF memory
<1>16. mem \in Seq(U) /\ len \in 1 .. Len(mem)
  <2>1. pos \in 0 .. (old + 0)
    <3>1. pos \in 0 .. old
      BY <1>12 DEF Partial
    <3> QED
      BY <1>8, <3>1
  <2>2. len = old + n /\ mem = Memory(buf, old, w, len)
    BY <1>14 DEF IsSum, IsMemory
  <2>3. buf \in Seq(Units)
    BY <1>7, <1>8
  <2>4. mem \in Seq(Units) /\ len \in 1 .. Len(mem)
    <3>1. w \in Seq(Units) /\ Whole(w)
      BY <1>8 DEF WholeSeqs
    <3>2. PICK e : e = 0
      OBVIOUS
    <3>3. /\ e \in {0, 1} /\ (e = 1 \/ Whole(w)) /\ pos \in 0 .. (old + e)
          /\ n < Len(w) => e = 1 \/ len = 1 \/ w[n + 1][2] = 0
      BY <1>15, <2>1, <3>1, <3>2
    <3> HIDE DEF Taken
    <3> QED
      BY ONLY <1>8, <2>2, <2>3, <3>1, <3>3, n \in 1 .. Len(w), RecvParse
  <2> QED
    BY <1>7, <2>4
<1>17. /\ len \in 1 .. Len(F) /\ (len = Len(F) <=> n = Len(w))
       /\ pos \in 0 .. (len - 1)
       /\ Parsed(PARSE_RESP(mem, len, pos), F, pos, len)
       /\ SubSeq(mem, 1, len) \o SubSeq(w, n + 1, Len(w)) = F
  <2>1. buf \in Seq(Units) /\ w \in Seq(Units) /\ mem \in Seq(Units)
    BY <1>7, <1>8, <1>16
  <2>2. StreamOK /\ old \in 0 .. Len(buf) /\ len \in 1 .. Len(mem)
    BY <1>8, <1>16
  <2>3. Receiving(F, buf, old, w, pos, text, n, len, mem)
    BY <1>11, <1>12, <1>14, <1>15, <1>27, <2>1, <2>2 DEF Receiving
  <2>4. TakenApart(F, w, pos, n, len, mem)
    BY ONLY <2>3, RecvTalk
  <2> QED
    BY <2>4 DEF TakenApart
<1>18. Parsed(r, F, pos, len)
  BY <1>4, <1>17
<1>19. Len(F) \in Nat /\ len \in Nat /\ F \in Seq(U)
  <2>1. F \in Seq(U)
    BY <1>7, <1>11 DEF Talk
  <2> QED
    BY <1>17, <2>1
<1>20. PICK items \in Seq(AnyItem) : items = r.items
  BY <1>18 DEF Parsed
<1>21. PICK w2 : w2 = SubSeq(w, n + 1, Len(w))
  OBVIOUS
<1>22. wire'[Host] = w2 /\ \A g \in Hosts \ {Host} : wire'[g] = wire[g]
  BY <1>1, <1>2, <1>5, <1>21, StateTypes
<1>23. resp_buf' = mem
  BY <1>5
<1>24. CASE len < Len(F)
  <2>1. r.ret = {"AGAIN"}
    BY <1>18, <1>19, <1>24 DEF Parsed
  <2>2. F[1][2] = 0
    BY <1>11 DEF Talk, Joined
  <2>3. /\ Tiles(items, pos, r.pos) /\ (\A k \in DOMAIN items : ~ items[k].end)
        /\ r.pos \in 0 .. len /\ F[r.pos + 1][2] = 0 /\ (text => r.pos = 0)
    <3>1. CASE pos = 0 /\ r.items = << >> /\ r.pos = 0
      <4>1. items = << >> /\ DOMAIN items = {}
        BY <1>20, <3>1
      <4>2. Tiles(items, pos, r.pos)
        BY <3>1, <4>1 DEF Tiles
      <4> QED
        BY <1>19, <2>2, <3>1, <4>1, <4>2
    <3>2. CASE ~ (pos = 0 /\ r.items = << >> /\ r.pos = 0)
      <4>1. r.pos = len /\ Tiles(r.items, pos, len) /\ F[len + 1][2] = 0 /\ proto = "binary"
            /\ \A k \in DOMAIN r.items : ~ r.items[k].end
        BY <1>18, <1>24, <3>2 DEF Parsed
      <4> QED
        BY <1>13, <1>19, <1>20, <4>1
    <3> QED
      BY <3>1, <3>2
  <2>4. /\ resp_list' = resp_list \o items
        /\ resp_buf_len' = len /\ position' = r.pos
        /\ UNCHANGED <<pc, req_group, st_cont_fail>>
    BY <1>5, <1>20, <2>1
  <2>5. w2 # << >>
    <3>1. n \in Nat /\ n < Len(w)
      BY <1>8, <1>17, <1>24
    <3>2. Len(w) \in n .. Len(w) /\ n \in Nat /\ w \in Seq(U)
      BY <1>8, <3>1
    <3>3. Len(w2) = Len(w) - n
      BY <1>21, <3>2, SubSeqAt
    <3> QED
      BY <1>8, <3>1, <3>3, EmptySeq
  <2>6. SubSeq(mem, 1, len) \o w2 = F
    BY <1>17, <1>21
  <2>7. Partial(F, resp_buf', resp_buf_len', wire'[Host], position', text)
    BY <1>22, <1>23, <2>3, <2>4, <2>5, <2>6 DEF Partial
  <2>8. RecvMore(F, items, text)
    BY <1>4, <2>3, <2>4, <2>7 DEF RecvMore
  <2> QED
    BY <1>1, <1>6, <1>9, <1>10, <1>20, <1>22, <2>4, <2>8
<1>25. CASE len = Len(F)
  <2>1. r.ret = {"SUCCESS"} /\ r.items # << >> /\ Tiles(r.items, pos, len) /\ EndLast(r.items)
    BY <1>18, <1>19, <1>25 DEF Parsed
  <2>2. resp_list' = resp_list \o items /\ NextHost
    BY <1>5, <1>20, <2>1
  <2>3. w2 = << >>
    <3>1. n \in Nat /\ n = Len(w) /\ Len(w) < n + 1
      BY <1>8, <1>17, <1>25
    <3>2. SubSeq(w, n + 1, Len(w)) = << >>
      BY <1>8, <3>1, SubSeqEmpty
    <3> QED
      BY <1>21, <3>2
  <2>4. SubSeq(mem, 1, len) = F
    <3>1. PICK s : s = SubSeq(mem, 1, len)
      OBVIOUS
    <3>2. s \in Seq(U)
      <4>1. \A k \in 1 .. len : mem[k] \in U
        BY <1>16, <1>19
      <4> QED
        BY <1>19, <3>1, <4>1, SubSeqProperties
    <3>3. s \o << >> = F
      BY <1>17, <1>21, <2>3, <3>1
    <3> QED
      BY <3>1, <3>2, <3>3, ConcatEmptySeq
  <2>5. Len(F) <= Len(mem)
    BY <1>16, <1>25
  <2>6. RecvAll(F, items)
    BY <1>4, <1>20, <1>22, <1>23, <1>25, <2>1, <2>2, <2>3, <2>4, <2>5 DEF RecvAll
  <2> QED
    BY <1>1, <1>6, <1>9, <1>10, <1>20, <1>22, <2>2, <2>6
<1>26. len < Len(F) \/ len = Len(F)
  BY <1>17, <1>19
<1> QED
  BY <1>24, <1>25, <1>26

-----------------------------------------------------------------------------
(***************************************************************************)
(* Every step keeps the control invariant                                  *)
(***************************************************************************)

\* A later request begins later.
LEMMA ClearLater ==
    ASSUME StreamOK, NEW K, IsKnown(K), NEW u \in Nat, NEW c \in Nat, Clear(K, u, c + 1)
    PROVE  Clear(K, u, c)
<1>1. Ready(u, c + 1)
  BY ClearReady
<1>2. PICK i : i = Bytes[u + 1][1]
  OBVIOUS
<1>3. i \in DOMAIN stream => RequestOf(i) \in Nat
  <2> SUFFICES ASSUME i \in DOMAIN stream
               PROVE  RequestOf(i) \in Nat
    OBVIOUS
  <2>1. i \in Nat \ {0} /\ i \in Nat /\ i <= i
    BY StreamType
  <2> QED
    BY <2>1, RequestOrder
<1>4. i \in DOMAIN stream /\ RequestOf(i) >= c + 1 => RequestOf(i) >= c
  BY <1>3
<1>5. Ready(u, c)
  BY <1>1, <1>2, <1>4 DEF Ready
<1> QED
  BY <1>5, ClearReady

\* Bytes arrive from the client: a longer part of its current request.
LEMMA ReadArrive ==
    ASSUME TypeInv, NEW K, IsKnown(K), ReadInv(K), Arrive
    PROVE  ReadInv(K)'
<1>1. PICK n \in (sent + 1) .. Len(Bytes) :
         /\ RequestOf(Bytes[n][1]) <= Len(replies) + 1
         /\ read_buf' = read_buf \o SubSeq(Bytes, sent + 1, n) /\ sent' = n
  BY DEF Arrive
<1>2. PICK B, X, s, u, buf, c : /\ B = Bytes /\ X = (DOMAIN stream) \X {0, 1} /\ s = sent
                                /\ u = sent - Len(read_buf) /\ buf = read_buf /\ c = Current
  OBVIOUS
<1>3. /\ StreamOK /\ K.bytes = B /\ s \in Nat /\ Len(B) \in Nat /\ s <= Len(B) /\ Len(buf) \in Nat
      /\ buf \in Seq(X) /\ c \in Nat
  BY <1>2, StateTypes, KnownParts
<1>4. B \in Seq(X)
  BY <1>2, <1>3, BytesType
<1>5. /\ Len(buf) <= s /\ buf = SubSeq(B, u + 1, s)
      /\ \A k \in DOMAIN buf : K.request[buf[k][1]] <= c
      /\ Clear(K, u, c)
  <2>1. ~ Serving
    BY DEF Arrive, Serving
  <2> QED
    BY <1>2, <1>3, <2>1 DEF ReadInv
<1>6. u \in Nat /\ u <= s /\ n \in Nat /\ s < n /\ n <= Len(B) /\ u = s - Len(buf)
  BY <1>1, <1>2, <1>3, <1>5
<1>7. PICK q : q = read_buf'
  OBVIOUS
<1>8. q = SubSeq(B, u + 1, n)
  <2>1. u + 1 \in 1 .. (Len(B) + 1) /\ s \in ((u + 1) - 1) .. Len(B) /\ n \in s .. Len(B)
    BY <1>3, <1>6
  <2>2. SubSeq(B, u + 1, s) \o SubSeq(B, s + 1, n) = SubSeq(B, u + 1, n)
    BY <1>4, <2>1, ConcatAdjacentSubSeq
  <2> QED
    BY <1>1, <1>2, <1>5, <1>7, <2>2
<1>9. Len(q) = n - u /\ q \in Seq(X) /\ \A k \in 1 .. (n - u) : q[k] = B[u + k]
  <2>1. n \in u .. Len(B)
    BY <1>3, <1>6
  <2>2. /\ SubSeq(B, u + 1, n) \in Seq(X) /\ Len(SubSeq(B, u + 1, n)) = n - u
        /\ \A k \in 1 .. (n - u) : SubSeq(B, u + 1, n)[k] = B[u + k]
    BY ONLY <1>4, <1>6, <2>1, SubSeqAt
  <2> QED
    BY <1>8, <2>2
<1>10. n - Len(q) = u /\ Len(q) <= n
  BY <1>6, <1>9
<1>11. ASSUME NEW k \in DOMAIN q
       PROVE  K.request[q[k][1]] <= c
  <2>1. PICK d \in Nat : d = n - u
    <3>1. u \in Nat /\ n \in Nat /\ s \in Nat /\ u <= s /\ s < n
      BY <1>3, <1>6
    <3>2. n - u \in Nat
      BY ONLY <3>1
    <3> QED
      BY <3>2
  <2>2. k \in 1 .. d
    <3>1. DOMAIN q = 1 .. Len(q)
      BY <1>9
    <3> QED
      BY <1>9, <2>1, <3>1
  <2>3. PICK j \in Nat : j = u + k
    BY <1>6, <2>2
  <2>4. q[k] = B[j]
    BY <1>9, <2>1, <2>2, <2>3
  <2>5. j \in 1 .. n /\ n \in 1 .. Len(B)
    BY <1>3, <1>6, <2>1, <2>2, <2>3
  <2>6. B[j][1] \in Nat \ {0} /\ RequestOf(B[j][1]) <= RequestOf(B[n][1])
    BY <1>2, <1>3, <2>5, BytesOrder
  <2>7. B[n][1] \in Nat \ {0} /\ B[n][1] \in Nat
    <3>1. n \in 1 .. n
      BY <1>3, <1>6
    <3> QED
      BY <1>2, <1>3, <2>5, <3>1, BytesOrder
  <2>8. RequestOf(B[j][1]) \in Nat /\ RequestOf(B[n][1]) \in Nat
    <3>1. PICK x, y : x = B[j][1] /\ y = B[n][1]
      OBVIOUS
    <3>2. x \in Nat \ {0} /\ x \in Nat /\ x <= x /\ y \in Nat \ {0} /\ y \in Nat /\ y <= y
      BY <2>6, <2>7, <3>1
    <3>3. RequestOf(x) \in Nat /\ RequestOf(y) \in Nat
      BY <3>2, RequestOrder
    <3> QED
      BY <3>1, <3>3
  <2>9. K.request[q[k][1]] = RequestOf(B[j][1])
    BY <2>4, <2>6, KnownParts
  <2>10. RequestOf(B[n][1]) <= c
    BY <1>1, <1>2 DEF Current
  <2> QED
    BY <1>3, <2>6, <2>8, <2>9, <2>10
<1>12. sent' = n /\ Current' = c /\ ~ Serving' /\ read_buf' = q
  BY <1>1, <1>2, <1>7 DEF Arrive, Current, Serving
<1>13. q = SubSeq(K.bytes, u + 1, n)
  BY <1>3, <1>8
<1> QED
  BY <1>5, <1>10, <1>11, <1>12, <1>13 DEF ReadInv

\* The number of responses written.
LEMMA Replied ==
    ASSUME TypeInv, NEW x, replies' = Append(replies, x)
    PROVE  Len(replies') = Len(replies) + 1 /\ Current' = Current + 1
           /\ Len(replies) \in Nat
           /\ replies'[Len(replies) + 1] = x
           /\ \A r \in 1 .. Len(replies) : replies'[r] = replies[r]
<1>1. PICK U, B, W, T, b : Names(U, B, W, T, b)
  BY DEF Names, TypeInv
<1>2. Shape(U, B, W, T, b)
  BY <1>1 DEF TypeInv, Names
<1>3. PICK Z, s : Z = Seq(B) \cup {x} /\ s = replies
  OBVIOUS
<1>4. s \in Seq(Z) /\ x \in Z
  <2>1. s \in Seq(Seq(B))
    BY <1>2, <1>3 DEF Shape
  <2> QED
    BY <1>3, <2>1, SeqMonotonic
<1>5. /\ Len(Append(s, x)) = Len(s) + 1 /\ Len(s) \in Nat
      /\ Append(s, x)[Len(s) + 1] = x
      /\ \A r \in 1 .. Len(s) : Append(s, x)[r] = s[r]
  BY <1>4, AppendProperties
<1>6. /\ Len(replies') = Len(replies) + 1 /\ Len(replies) \in Nat
      /\ replies'[Len(replies) + 1] = x
      /\ \A r \in 1 .. Len(replies) : replies'[r] = replies[r]
  BY <1>3, <1>5
<1> QED
  BY <1>6 DEF Current

\* readEvent: the buffer is emptied where a request ends.
LEMMA ReadReadEvent ==
    ASSUME TypeInv, NEW K, IsKnown(K), ReadInv(K), ReadEvent
    PROVE  ReadInv(K)'
<1>1. /\ pc = "read" /\ UNCHANGED <<sent, backend, resp_list, client_buf, st_cont_fail>>
      /\ \/ ReadAgain
         \/ Clear(K, sent, Current + 1) /\ (ReadIgnored \/ ReadRefused(K) \/ ReadFound(K))
  BY ReadOutcome
<1>2. StreamOK /\ sent \in Nat /\ Current \in Nat /\ Len(replies) \in Nat
  BY StateTypes
<1>3. CASE ReadAgain
  <2>1. sent' = sent /\ read_buf' = read_buf /\ Current' = Current /\ ~ Serving /\ ~ Serving'
    BY <1>1, <1>3 DEF ReadAgain, Current, Serving
  <2> QED
    BY <2>1 DEF ReadInv
<1>4. ASSUME Clear(K, sent, Current + 1), ReadIgnored \/ ReadRefused(K) \/ ReadFound(K)
      PROVE  ReadInv(K)'
  <2>1. read_buf' = << >> /\ sent' = sent
    BY <1>1, <1>4 DEF ReadIgnored, ReadRefused, ReadFound
  <2>2. Clear(K, sent, IF Serving' THEN Current' + 1 ELSE Current')
    <3>1. CASE ReadIgnored
      <4>1. ~ Serving' /\ Current' = Current
        BY <3>1 DEF ReadIgnored, Serving, Current
      <4>2. Clear(K, sent, Current)
        <5>1. PICK c, s \in Nat : c = Current /\ s = sent
          BY <1>2
        <5>2. Clear(K, s, c)
          BY <1>2, <1>4, <5>1, ClearLater
        <5> QED
          BY <5>1, <5>2
      <4> QED
        BY <4>1, <4>2
    <3>2. CASE ReadRefused(K)
      <4>1. ~ Serving'
        BY <3>2 DEF ReadRefused, Serving
      <4>2. Current' = Current + 1
        BY <3>2, Replied DEF ReadRefused
      <4> QED
        BY <1>4, <4>1, <4>2
    <3>3. CASE ReadFound(K)
      <4>1. Serving' /\ Current' = Current
        BY <3>3 DEF ReadFound, Serving, Current
      <4> QED
        BY <1>4, <4>1
    <3> QED
      BY <1>4, <3>1, <3>2, <3>3
  <2>3. << >> = SubSeq(K.bytes, sent + 1, sent)
    BY <1>2, SubSeqEmpty
  <2>4. Len(<< >>) = 0 /\ sent - 0 = sent /\ 0 <= sent /\ DOMAIN << >> = {}
    BY <1>2
  <2> QED
    BY <2>1, <2>2, <2>3, <2>4 DEF ReadInv
<1> QED
  BY <1>1, <1>3, <1>4

\* Every step keeps the invariant of the input buffer.
LEMMA ReadStep ==
    ASSUME TypeInv, NEW K, IsKnown(K), ReadInv(K), [Next]_vars
    PROVE  ReadInv(K)'
<1>1. CASE Arrive
  BY <1>1, ReadArrive
<1>2. CASE ReadEvent
  BY <1>2, ReadReadEvent
<1>3. CASE Reply
  <2>1. Serving /\ ~ Serving' /\ UNCHANGED <<sent, read_buf>> /\ replies' = Append(replies, client_buf)
    BY <1>3 DEF Reply, client, Serving
  <2>2. Current' = Current + 1
    BY <2>1, Replied
  <2>3. read_buf = << >> /\ DOMAIN << >> = {}
    BY <2>1 DEF ReadInv
  <2> QED
    BY <2>1, <2>2, <2>3 DEF ReadInv
<1>4. ASSUME UNCHANGED <<sent, read_buf, replies>>, Serving' <=> Serving
      PROVE  ReadInv(K)'
  <2>1. Current' = Current
    BY <1>4 DEF Current
  <2> QED
    BY <1>4, <2>1 DEF ReadInv
<1>5. CASE Forward
  BY <1>4, <1>5 DEF Forward, client, Serving
<1>6. CASE Recv
  <2>1. pc = "recv" /\ UNCHANGED <<sent, read_buf, replies>>
    BY <1>6 DEF Recv, client
  <2>2. pc' \in {"recv", "talk"}
    BY <1>6, <2>1, Zenon DEF Recv, NextHost
  <2> QED
    BY <1>4, <2>1, <2>2 DEF Serving
<1>10. CASE RecvCut
  BY <1>4, <1>10 DEF RecvCut, NextHost, client, Serving
<1>7. CASE RecvTimeout
  BY <1>4, <1>7 DEF RecvTimeout, NextHost, client, Serving
<1>8. CASE EndTalk
  BY <1>4, <1>8 DEF EndTalk, client, Serving
<1>9. CASE Idle \/ UNCHANGED vars
  BY <1>4, <1>9 DEF Idle, vars, Serving
<1> QED
  BY <1>1, <1>2, <1>3, <1>5, <1>6, <1>7, <1>8, <1>9, <1>10 DEF Next

\* The current host is the first of those that are left.
LEMMA HostLeast ==
    ASSUME DOMAIN req_group \subseteq Hosts, DOMAIN req_group # {}
    PROVE  Host \in DOMAIN req_group /\ Host \in Hosts /\ \A g \in DOMAIN req_group : Host <= g
<1>1. DOMAIN req_group \in SUBSET Nat
  BY HostsAssumption
<1>2. \E h \in DOMAIN req_group : \A g \in DOMAIN req_group : h <= g
  BY <1>1, LeastNumber
<1> QED
  BY <1>2 DEF Host

\* The worker is through with a host of the group.
LEMMA HostDone ==
    ASSUME TypeInv, NEW K, IsKnown(K), GroupInv(K), pc = "recv", NextHost, UNCHANGED <<replies, sync_group>>
    PROVE  /\ Host \in DOMAIN req_group /\ Host \in Hosts /\ Host \notin Done(K)
           /\ Current' = Current /\ Round(K)' = Round(K) /\ Done(K)' = Done(K) \cup {Host}
           /\ pc' = "talk"
           /\ GroupInv(K)'
           /\ Silent(HostsOf(K, Current, Round(K)), Host) <=> Done(K) \cup {Host} \subseteq Dead
           /\ st_cont_fail'[Host] > 0 <=> resp_list' = << >>
           /\ \A g \in Hosts \ {Host} : st_cont_fail'[g] = st_cont_fail[g]
<1>1. DOMAIN req_group \subseteq Hosts /\ DOMAIN req_group # {} /\ st_cont_fail \in [Hosts -> Nat]
  BY StateTypes
<1>2. Host \in DOMAIN req_group /\ Host \in Hosts /\ \A g \in DOMAIN req_group : Host <= g
  BY <1>1, HostLeast
<1>3. Current' = Current /\ Round(K)' = Round(K)
  BY DEF Current, Round
<1>4. PICK S, c, b, D : S = HostsOf(K, Current, Round(K)) /\ c = Current /\ b = Round(K) /\ D = DOMAIN req_group
  OBVIOUS
<1>5. /\ c \in K.complete
      /\ b = 2 \/ sync_group = GroupAt(K, c, 2)
      /\ D \subseteq S
      /\ \A h \in D : req_group[h] = GroupAt(K, c, b)[h]
      /\ \A d \in Done(K) : \A h \in D : d < h
  BY <1>4 DEF GroupInv, Serving
<1>6. Done(K) = S \ D /\ Host \in D /\ Host \notin Done(K)
  BY <1>2, <1>4 DEF Done
<1>7. pc' = "talk" /\ req_group' = [h \in D \ {Host} |-> req_group[h]]
  BY <1>4 DEF NextHost, RestOfGroup
<1>8. DOMAIN req_group' = D \ {Host} /\ \A h \in D \ {Host} : req_group'[h] = req_group[h]
  BY <1>7
<1>9. Done(K)' = S \ (D \ {Host})
  BY <1>3, <1>4, <1>8 DEF Done
<1>10. Done(K)' = Done(K) \cup {Host}
  BY <1>5, <1>6, <1>9
<1>11. GroupInv(K)'
  <2>1. Serving' /\ sync_group' = sync_group /\ Current' = c /\ Round(K)' = b
    BY <1>3, <1>4, <1>7 DEF Serving
  <2>2. D \ {Host} \subseteq S /\ \A h \in D \ {Host} : req_group'[h] = GroupAt(K, c, b)[h]
    BY <1>5, <1>8
  <2>3. ASSUME NEW d \in Done(K)', NEW h \in D \ {Host}
        PROVE  d < h
    <3>1. CASE d \in Done(K)
      BY <1>5, <3>1
    <3>2. CASE d = Host
      <4>1. Host <= h /\ Host # h /\ Host \in Nat /\ h \in Nat
        BY <1>1, <1>2, <1>4, HostsAssumption
      <4> QED
        BY <3>2, <4>1
    <3> QED
      BY <1>10, <3>1, <3>2
  <2>4. HostsOf(K, c, b) = S
    BY <1>4
  <2> QED
    BY <1>5, <1>7, <1>8, <2>1, <2>2, <2>3, <2>4 DEF GroupInv
<1>12. Silent(S, Host) <=> Done(K) \cup {Host} \subseteq Dead
  <2>1. ASSUME NEW g \in S
        PROVE  g <= Host <=> g \in Done(K) \cup {Host}
    <3>1. CASE g \in D
      <4>1. Host <= g /\ Host \in Nat /\ g \in Nat
        BY <1>1, <1>2, <1>4, <3>1, HostsAssumption
      <4>2. g \notin Done(K)
        BY <1>6, <3>1
      <4> QED
        BY <4>1, <4>2
    <3>2. CASE g \notin D
      <4>1. g \in Done(K) /\ g < Host
        BY <1>5, <1>6, <3>2
      <4>2. g \in Nat /\ Host \in Nat
        <5>1. S \subseteq Hosts
          <6>1. c \in Nat /\ b \in {1, 2} /\ StreamOK /\ S = HostsOf(K, c, b)
            BY <1>4, StateTypes DEF Round
          <6> QED
            BY <6>1, KnownHosts
        <5> QED
          BY <1>2, <5>1, HostsAssumption
      <4> QED
        BY <4>1, <4>2
    <3> QED
      BY <3>1, <3>2
  <2>2. Done(K) \cup {Host} \subseteq S
    BY <1>5, <1>6
  <2> QED
    BY <2>1, <2>2 DEF Silent
<1>13. PICK v : v = IF resp_list' = << >> THEN st_cont_fail[Host] + 1 ELSE 0
  OBVIOUS
<1>14. st_cont_fail' = [st_cont_fail EXCEPT ![Host] = v]
  BY <1>13 DEF NextHost, countFail
<1>15. st_cont_fail'[Host] = v /\ \A g \in Hosts \ {Host} : st_cont_fail'[g] = st_cont_fail[g]
  BY <1>1, <1>2, <1>14
<1>16. v > 0 <=> resp_list' = << >>
  <2>1. st_cont_fail[Host] \in Nat
    BY <1>1, <1>2
  <2> QED
    BY <1>13, <2>1
<1> QED
  BY <1>2, <1>3, <1>4, <1>6, <1>7, <1>10, <1>11, <1>12, <1>15, <1>16

\* Then the count of the host tells whether all hosts up to it were silent.
LEMMA HostBlamed ==
    ASSUME TypeInv, NEW K, IsKnown(K), GroupInv(K), pc = "recv", NextHost, UNCHANGED <<replies, sync_group>>,
           resp_list' = << >> <=> Done(K) \cup {Host} \subseteq Dead
    PROVE  /\ GroupInv(K)' /\ ListInv(K)'
           /\ BlameInv(K) => BlameInv(K)'
<1>1. /\ Host \in DOMAIN req_group /\ Host \in Hosts /\ Host \notin Done(K)
      /\ Current' = Current /\ Round(K)' = Round(K) /\ Done(K)' = Done(K) \cup {Host}
      /\ pc' = "talk"
      /\ GroupInv(K)'
      /\ Silent(HostsOf(K, Current, Round(K)), Host) <=> Done(K) \cup {Host} \subseteq Dead
      /\ st_cont_fail'[Host] > 0 <=> resp_list' = << >>
      /\ \A g \in Hosts \ {Host} : st_cont_fail'[g] = st_cont_fail[g]
  BY HostDone
<1>2. ListInv(K)'
  BY <1>1, Zenon DEF ListInv
<1>3. Serving /\ Serving'
  BY <1>1 DEF Serving
<1>4. ASSUME BlameInv(K), NEW h \in Hosts
      PROVE  st_cont_fail'[h] > 0 <=>
               IF Serving' /\ h \in Done(K)' THEN Silent(HostsOf(K, Current', Round(K)'), h)
               ELSE IF Serving' /\ Round(K)' = 2 /\ h \in HostsOf(K, Current', 1)
               THEN Silent(HostsOf(K, Current', 1), h)
               ELSE BlamedBy(K, h, Len(replies'))
  <2>1. CASE h = Host
    BY <1>1, <1>3, <2>1
  <2>2. CASE h # Host
    <3>1. st_cont_fail'[h] = st_cont_fail[h] /\ (h \in Done(K)' <=> h \in Done(K)) /\ Len(replies') = Len(replies)
      BY <1>1, <2>2
    <3> QED
      BY <1>1, <1>3, <1>4, <3>1 DEF BlameInv
  <2> QED
    BY <2>1, <2>2
<1> QED
  BY <1>1, <1>2, <1>4 DEF BlameInv

\* The last request that asked a host decides whether it is blamed.
LEMMA BlamedNext ==
    ASSUME NEW K, NEW h, NEW m \in Nat, NEW q, q = m + 1
    PROVE  BlamedBy(K, h, q) <=> IF h \in HostsOf(K, q, 1) \cup HostsOf(K, q, 2)
                                 THEN BlamedIn(K, h, q) ELSE BlamedBy(K, h, m)
<1>1. PICK S, T : S = Asked(K, h, m) /\ T = Asked(K, h, q)
  OBVIOUS
<1>2. \A r : r \in 1 .. q <=> r \in 1 .. m \/ r = q
  OBVIOUS
<1>3. CASE h \in HostsOf(K, q, 1) \cup HostsOf(K, q, 2)
  <2>1. q \in T /\ T \subseteq 1 .. q
    BY <1>1, <1>3 DEF Asked
  <2>2. \A y \in T : q >= y
    BY <2>1
  <2>3. PICK x : x = Max(T)
    OBVIOUS
  <2>4. x \in T /\ \A y \in T : x >= y
    BY <2>1, <2>2, <2>3 DEF Max
  <2>5. x = q
    BY <2>1, <2>2, <2>4
  <2> QED
    BY <1>1, <1>3, <2>1, <2>3, <2>5 DEF BlamedBy
<1>4. CASE h \notin HostsOf(K, q, 1) \cup HostsOf(K, q, 2)
  <2>1. S = T
    BY <1>1, <1>2, <1>4 DEF Asked
  <2> QED
    BY <1>1, <1>4, <2>1 DEF BlamedBy
<1> QED
  BY <1>3, <1>4

\* The part of the invariant about talkToBackend.
TalkInv(K) == GroupInv(K) /\ WireInv(K) /\ ListInv(K)

\* While no request is served, nothing happens to the hosts.
LEMMA TalkIdle ==
    ASSUME NEW K, TalkInv(K), ~ Serving, ~ Serving',
           UNCHANGED <<wire, resp_list, st_cont_fail, req_group, sync_group>>
    PROVE  /\ TalkInv(K)'
           /\ BlameInv(K) /\ (\A h \in Hosts : BlamedBy(K, h, Len(replies')) <=> BlamedBy(K, h, Len(replies)))
                 => BlameInv(K)'
<1>1. ~ Heard /\ ~ Heard' /\ pc \notin {"talk", "recv"}
  BY DEF Heard, Serving
<1>2. GroupInv(K)'
  BY <1>1 DEF TalkInv, GroupInv
<1>3. WireInv(K)'
  BY <1>1 DEF TalkInv, WireInv
<1>4. ListInv(K)'
  BY DEF ListInv
<1>5. ASSUME BlameInv(K), \A h \in Hosts : BlamedBy(K, h, Len(replies')) <=> BlamedBy(K, h, Len(replies))
      PROVE  BlameInv(K)'
  BY <1>5 DEF BlameInv
<1> QED
  BY <1>2, <1>3, <1>4, <1>5 DEF TalkInv

\* Bytes arrive.
LEMMA TalkArrive ==
    ASSUME NEW K, TalkInv(K), Arrive
    PROVE  TalkInv(K)' /\ (BlameInv(K) => BlameInv(K)')
<1>1. /\ ~ Serving /\ ~ Serving'
      /\ UNCHANGED <<wire, resp_list, st_cont_fail, req_group, sync_group>> /\ replies' = replies
  BY DEF Arrive, Serving, backend
<1> QED
  BY <1>1, TalkIdle

\* readEvent: a complete request goes to the hosts of its first round.
LEMMA TalkReadEvent ==
    ASSUME TypeInv, NEW K, IsKnown(K), ReadInv(K), TalkInv(K), ReadEvent
    PROVE  TalkInv(K)' /\ (BlameInv(K) => BlameInv(K)')
<1>1. /\ pc = "read" /\ UNCHANGED <<sent, backend, resp_list, client_buf, st_cont_fail>>
      /\ ReadAgain \/ ReadIgnored \/ ReadRefused(K) \/ ReadFound(K)
  BY ReadOutcome
<1>2. ~ Serving /\ UNCHANGED <<wire, resp_list, st_cont_fail>>
  BY <1>1 DEF Serving, backend
<1>3. CASE ReadAgain \/ ReadIgnored
  <2>1. ~ Serving' /\ UNCHANGED <<req_group, sync_group>> /\ replies' = replies
    BY <1>3 DEF ReadAgain, ReadIgnored, Serving
  <2> QED
    BY <1>2, <2>1, TalkIdle
<1>4. CASE ReadRefused(K)
  <2>1. ~ Serving' /\ UNCHANGED <<req_group, sync_group>> /\ replies' = Append(replies, << >>)
        /\ HostsOf(K, Current, 1) = {} /\ HostsOf(K, Current, 2) = {}
    BY <1>4 DEF ReadRefused, Serving
  <2>2. Len(replies') = Len(replies) + 1 /\ Len(replies) \in Nat
    BY <2>1, Replied
  <2>3. PICK m \in Nat : m = Len(replies)
    BY <2>2
  <2>4. PICK q : q = m + 1
    OBVIOUS
  <2>5. HostsOf(K, q, 1) = {} /\ HostsOf(K, q, 2) = {} /\ Len(replies') = q
    BY <2>1, <2>2, <2>3, <2>4 DEF Current
  <2>6. \A h \in Hosts : BlamedBy(K, h, q) <=> BlamedBy(K, h, m)
    BY <2>4, <2>5, BlamedNext
  <2>7. \A h \in Hosts : BlamedBy(K, h, Len(replies')) <=> BlamedBy(K, h, Len(replies))
    BY <2>3, <2>5, <2>6
  <2> QED
    BY <1>2, <2>1, <2>7, TalkIdle
<1>5. CASE ReadFound(K)
  <2>1. PICK c : c = Current
    OBVIOUS
  <2>2. /\ pc' = "talk" /\ replies' = replies /\ Current' = c /\ c \in K.complete
        /\ req_group' = GroupAt(K, c, 1) /\ sync_group' = GroupAt(K, c, 2)
    BY <1>5, <2>1 DEF ReadFound, Current
  <2>3. DOMAIN req_group' = HostsOf(K, c, 1) /\ DOMAIN sync_group' = HostsOf(K, c, 2)
    BY <2>2 DEF HostsOf
  <2>4. Round(K)' = 1
    BY <2>2, <2>3 DEF Round
  <2>5. Done(K)' = {}
    BY <2>2, <2>3, <2>4 DEF Done
  <2>6. Serving' /\ ~ Heard' /\ ~ Heard
    BY <1>1, <2>2 DEF Serving, Heard
  <2>7. GroupInv(K)'
    BY <2>2, <2>3, <2>4, <2>5, <2>6 DEF GroupInv
  <2>8. WireInv(K)'
    BY <1>2, <2>6 DEF WireInv, TalkInv
  <2>9. resp_list' = << >>
    BY <1>1, <1>2 DEF TalkInv, GroupInv
  <2>10. ListInv(K)'
    BY <2>5, <2>9 DEF ListInv
  <2>11. BlameInv(K) => BlameInv(K)'
    BY <1>2, <2>2, <2>4, <2>5 DEF BlameInv
  <2> QED
    BY <2>7, <2>8, <2>10, <2>11 DEF TalkInv
<1> QED
  BY <1>1, <1>3, <1>4, <1>5

\* While the groups stay as they are, so does everything that depends on them.
LEMMA SameGroups ==
    ASSUME NEW K, GroupInv(K), UNCHANGED <<req_group, sync_group, replies>>,
           pc \in {"talk", "recv"}, pc' \in {"talk", "recv"}
    PROVE  /\ Host' = Host /\ Current' = Current /\ Round(K)' = Round(K) /\ Done(K)' = Done(K)
           /\ Serving /\ Serving' /\ GroupInv(K)'
           /\ BlameInv(K) /\ UNCHANGED st_cont_fail => BlameInv(K)'
<1>1. Host' = Host /\ Current' = Current /\ Round(K)' = Round(K) /\ Done(K)' = Done(K)
  BY DEF Host, Current, Round, Done
<1>2. Serving /\ Serving'
  BY DEF Serving
<1>3. GroupInv(K)'
  BY <1>1, <1>2 DEF GroupInv
<1>4. BlameInv(K) /\ UNCHANGED st_cont_fail => BlameInv(K)'
  BY <1>1, <1>2 DEF BlameInv
<1> QED
  BY <1>1, <1>2, <1>3, <1>4

\* A host is asked; if it is alive its answers are on the way.
LEMMA TalkForward ==
    ASSUME TypeInv, NEW K, IsKnown(K), TalkInv(K), Forward
    PROVE  TalkInv(K)' /\ (BlameInv(K) => BlameInv(K)')
<1>1. /\ pc = "talk" /\ pc' = "recv" /\ DOMAIN req_group # {}
      /\ UNCHANGED <<req_group, sync_group, replies, resp_list, resp_buf, st_cont_fail>>
      /\ resp_buf_len' = 0 /\ position' = 0
  BY DEF Forward
<1>2. /\ Host' = Host /\ Current' = Current /\ Round(K)' = Round(K) /\ Done(K)' = Done(K)
      /\ Serving /\ Serving' /\ GroupInv(K)'
      /\ BlameInv(K) /\ UNCHANGED st_cont_fail => BlameInv(K)'
  BY <1>1, SameGroups DEF TalkInv
<1>3. Host \in DOMAIN req_group /\ Host \in Hosts
  BY <1>1, StateTypes, HostLeast
<1>4. PICK h, c, b, F : h = Host /\ c = Current /\ b = Round(K) /\ F = AnswersAt(K, c, b, h)
  OBVIOUS
<1>5. ~ Heard /\ \A g \in Hosts : wire[g] = << >>
  <2>1. ~ Heard
    BY <1>1 DEF Heard
  <2> QED
    BY <2>1 DEF TalkInv, WireInv
<1>6. wire \in [Hosts -> WholeSeqs] /\ h \in Hosts /\ wire[h] = << >>
  BY <1>3, <1>4, <1>5, StateTypes
<1>7. c \in Nat /\ c \in K.complete /\ b \in {1, 2} /\ h \in HostsOf(K, c, b) /\ StreamOK
      /\ req_group[h] = GroupAt(K, c, b)[h]
  BY <1>2, <1>3, <1>4, StateTypes DEF TalkInv, GroupInv, Round
<1>8. Talk(F)
  BY <1>4, <1>7, KnownHosts
<1>9. F = Answers(h, CREATE_REQ(req_group[h]))
  <2>1. AnswersAt(K, c, b, h) = Answers(h, CREATE_REQ(GroupAt(K, c, b)[h]))
    BY <1>6, <1>7, KnownParts
  <2> QED
    BY <1>4, <1>7, <2>1
<1>10. PICK v : v = IF h \in Dead THEN << >> ELSE << >> \o F
  OBVIOUS
<1>11. wire' = [wire EXCEPT ![h] = v]
  BY <1>4, <1>6, <1>9, <1>10 DEF Forward
<1>12. wire'[h] = v /\ \A g \in Hosts \ {h} : wire'[g] = << >>
  BY <1>5, <1>6, <1>11
<1>13. PICK U : U = Units
  OBVIOUS
<1>14. F \in Seq(U) /\ F # << >> /\ << >> \o F = F /\ F[1][2] = 0
  <2>1. F \in Seq(U) /\ F # << >> /\ F[1][2] = 0
    BY <1>8, <1>13 DEF Talk, Joined
  <2> QED
    BY <2>1, ConcatEmptySeq
<1>15. h \notin Dead => Partial(F, resp_buf', 0, wire'[h], 0, K.text)
  <2> SUFFICES ASSUME h \notin Dead
               PROVE  Partial(F, resp_buf', 0, wire'[h], 0, K.text)
    OBVIOUS
  <2>1. wire'[h] = F
    BY <1>10, <1>12, <1>14
  <2>2. SubSeq(resp_buf', 1, 0) = << >>
    BY SubSeqEmpty
  <2>3. 0 + 1 = 1 /\ 0 \in 0 .. 0
    OBVIOUS
  <2> QED
    BY <1>14, <2>1, <2>2, <2>3 DEF Partial
<1>16. Heard' <=> h \notin Dead
  BY <1>1, <1>2, <1>4 DEF Heard
<1>17. WireInv(K)'
  <2>1. \A g \in Hosts : (Heard' /\ g = h) \/ wire'[g] = << >>
    BY <1>10, <1>12, <1>16
  <2>2. Heard' => Partial(F, resp_buf', resp_buf_len', wire'[h], position', K.text)
    BY <1>1, <1>15, <1>16
  <2>3. Host' = h /\ Current' = c /\ Round(K)' = b /\ F = AnswersAt(K, c, b, h)
    BY <1>2, <1>4
  <2> QED
    BY <2>1, <2>2, <2>3 DEF WireInv
<1>18. ListInv(K)'
  BY <1>1, <1>2, <1>5 DEF ListInv, TalkInv
<1> QED
  BY <1>1, <1>2, <1>17, <1>18 DEF TalkInv

\* Answers are received.
LEMMA TalkRecv ==
    ASSUME torn = 0, torn' = 0, TypeInv, NEW K, IsKnown(K), TalkInv(K), Recv
    PROVE  TalkInv(K)' /\ (BlameInv(K) => BlameInv(K)')
<1>1. PICK F : F = AnswersAt(K, Current, Round(K), Host)
  OBVIOUS
<1>2. /\ pc = "recv" /\ Host \in DOMAIN req_group /\ Host \in Hosts /\ Host \notin Dead
      /\ UNCHANGED <<sent, read_buf, sync_group, client_buf, replies>>
      /\ \A g \in Hosts \ {Host} : wire'[g] = wire[g]
      /\ \E items \in Seq(AnyItem) :
           /\ resp_list' = resp_list \o items
           /\ RecvMore(F, items, K.text) \/ RecvAll(F, items)
  BY <1>1, RecvOutcome DEF TalkInv
<1>3. PICK items \in Seq(AnyItem) : /\ resp_list' = resp_list \o items
                                    /\ RecvMore(F, items, K.text) \/ RecvAll(F, items)
  BY <1>2
<1>4. \A g \in Hosts \ {Host} : wire'[g] = << >>
  BY <1>2 DEF TalkInv, WireInv
<1>5. CASE RecvMore(F, items, K.text)
  <2>1. /\ Partial(F, resp_buf', resp_buf_len', wire'[Host], position', K.text)
        /\ UNCHANGED <<pc, req_group, st_cont_fail>>
    BY <1>5 DEF RecvMore
  <2>2. /\ Host' = Host /\ Current' = Current /\ Round(K)' = Round(K) /\ Done(K)' = Done(K)
        /\ Serving /\ Serving' /\ GroupInv(K)'
        /\ BlameInv(K) /\ UNCHANGED st_cont_fail => BlameInv(K)'
    BY <1>2, <2>1, SameGroups DEF TalkInv
  <2>3. Heard'
    BY <1>2, <2>1, <2>2 DEF Heard
  <2>4. WireInv(K)'
    BY <1>1, <1>4, <2>1, <2>2, <2>3 DEF WireInv
  <2>5. ListInv(K)'
    BY <2>3 DEF ListInv
  <2> QED
    BY <2>1, <2>2, <2>4, <2>5 DEF TalkInv
<1>6. CASE RecvAll(F, items)
  <2>1. wire'[Host] = << >> /\ items # << >> /\ NextHost
    BY <1>6 DEF RecvAll
  <2>2. resp_list' # << >>
    <3>1. PICK l, I : l = resp_list /\ I = AnyItem
      OBVIOUS
    <3>2. l \in Seq(I) /\ items \in Seq(I)
      BY <3>1, StateTypes
    <3>3. l \o items # << >>
      BY <2>1, <3>2, ConcatEqualIffEmpty
    <3> QED
      BY <1>3, <3>1, <3>3
  <2>3. resp_list' = << >> <=> Done(K) \cup {Host} \subseteq Dead
    BY <1>2, <2>2
  <2>4. GroupInv(K)' /\ ListInv(K)' /\ (BlameInv(K) => BlameInv(K)')
    BY <1>2, <2>1, <2>3, HostBlamed DEF TalkInv
  <2>5. ~ Heard'
    BY <2>1 DEF Heard, NextHost
  <2>6. WireInv(K)'
    BY <1>4, <2>1, <2>5 DEF WireInv
  <2> QED
    BY <2>4, <2>6 DEF TalkInv
<1> QED
  BY <1>3, <1>5, <1>6

\* Nothing more comes: the host is silent.
LEMMA TalkRecvTimeout ==
    ASSUME TypeInv, NEW K, IsKnown(K), TalkInv(K), RecvTimeout
    PROVE  /\ TalkInv(K)' /\ (BlameInv(K) => BlameInv(K)')
           /\ Host \in Dead /\ ~ Heard /\ ~ Heard'
<1>1. pc = "recv" /\ wire[Host] = << >> /\ NextHost /\ UNCHANGED <<resp_list, sync_group, replies, wire>>
  BY DEF RecvTimeout
<1>2. ~ Heard /\ Host \in Dead
  <2>1. ~ Heard
    BY <1>1 DEF TalkInv, WireInv, Partial
  <2> QED
    BY <1>1, <2>1 DEF Heard
<1>3. resp_list = << >> <=> Done(K) \subseteq Dead
  BY <1>1, <1>2 DEF TalkInv, ListInv, Serving
<1>4. resp_list' = << >> <=> Done(K) \cup {Host} \subseteq Dead
  BY <1>1, <1>2, <1>3
<1>5. GroupInv(K)' /\ ListInv(K)' /\ (BlameInv(K) => BlameInv(K)')
  BY <1>1, <1>4, HostBlamed DEF TalkInv
<1>6. ~ Heard'
  BY <1>1 DEF Heard, NextHost
<1>7. WireInv(K)'
  BY <1>1, <1>2, <1>6 DEF WireInv, TalkInv
<1> QED
  BY <1>2, <1>5, <1>6, <1>7 DEF TalkInv

\* A round ends.
LEMMA TalkEndTalk ==
    ASSUME TypeInv, NEW K, IsKnown(K), TalkInv(K), EndTalk
    PROVE  /\ TalkInv(K)' /\ (BlameInv(K) => BlameInv(K)')
           /\ pc' # "reply" => Done(K)' = {}
<1>1. /\ pc = "talk" /\ DOMAIN req_group = {} /\ resp_list' = << >>
      /\ pc' = IF DOMAIN sync_group = {} THEN "reply" ELSE "talk"
      /\ req_group' = sync_group /\ sync_group' = << >>
      /\ UNCHANGED <<wire, st_cont_fail, replies>>
  BY DEF EndTalk, backend
<1>2. DOMAIN sync_group' = {} /\ Current' = Current
  BY <1>1 DEF Current
<1>3. PICK c : c = Current
  OBVIOUS
<1>4. Serving /\ Serving' /\ ~ Heard /\ ~ Heard'
  BY <1>1 DEF Serving, Heard
<1>5. WireInv(K)'
  BY <1>1, <1>4 DEF WireInv, TalkInv
<1>6. Done(K) = HostsOf(K, c, Round(K))
  BY <1>1, <1>3 DEF Done
<1>7. c \in K.complete /\ (Round(K) = 2 \/ sync_group = GroupAt(K, c, 2))
  BY <1>3, <1>4 DEF TalkInv, GroupInv
<1>8. CASE DOMAIN sync_group = {}
  <2>1. pc' = "reply" /\ DOMAIN req_group' = {}
    BY <1>1, <1>8
  <2>2. Round(K)' = Round(K)
    BY <1>2, <1>8 DEF Round
  <2>3. Done(K)' = Done(K)
    BY <1>1, <1>2, <2>1, <2>2 DEF Done
  <2>4. Round(K)' = 2 \/ HostsOf(K, c, 2) = {}
    BY <1>2, <1>3 DEF Round
  <2>5. sync_group' = GroupAt(K, c, 2) \/ Round(K)' = 2
    <3>1. CASE Round(K) = 2
      BY <2>2, <3>1
    <3>2. CASE sync_group = GroupAt(K, c, 2)
      <4>1. HostsOf(K, c, 2) = {}
        BY <1>8, <3>2 DEF HostsOf
      <4>2. c \in Nat
        BY <1>3, StateTypes
      <4>3. PICK L : L = ItemsOf(c)
        OBVIOUS
      <4>4. PICK T : T = Only(L, {i \in With({"set"}) : stream[i].key \in SyncKeys})
        OBVIOUS
      <4>5. GroupAt(K, c, 2) = Grouped(T, Backup)
        BY <4>2, <4>3, <4>4, KnownParts DEF createSyncGroup
      <4>6. PICK D : D = {h \in Hosts : Keyed(T, Backup, h) # << >>}
        OBVIOUS
      <4>7. Grouped(T, Backup) = [h \in D |-> Keyed(T, Backup, h)]
        BY <4>6 DEF Grouped
      <4>8. D = {}
        BY <4>1, <4>5, <4>7 DEF HostsOf
      <4>9. GroupAt(K, c, 2) = << >>
        BY <4>5, <4>7, <4>8
      <4> QED
        BY <1>1, <4>9
    <3> QED
      BY <1>7, <3>1, <3>2
  <2>6. GroupInv(K)'
    BY <1>1, <1>2, <1>3, <1>4, <1>7, <2>1, <2>5 DEF GroupInv
  <2>7. ListInv(K)'
    BY <2>1 DEF ListInv
  <2>8. BlameInv(K) => BlameInv(K)'
    BY <1>1, <1>2, <1>4, <2>2, <2>3 DEF BlameInv
  <2> QED
    BY <1>5, <2>1, <2>6, <2>7, <2>8 DEF TalkInv
<1>9. CASE DOMAIN sync_group # {}
  <2>1. pc' = "talk"
    BY <1>1, <1>9
  <2>2. Round(K) = 1 /\ sync_group = GroupAt(K, c, 2)
    BY <1>7, <1>9 DEF Round
  <2>3. req_group' = GroupAt(K, c, 2) /\ DOMAIN req_group' = HostsOf(K, c, 2) /\ HostsOf(K, c, 2) # {}
    BY <1>1, <1>9, <2>2 DEF HostsOf
  <2>4. Round(K)' = 2
    BY <1>2, <1>3, <2>3 DEF Round
  <2>5. Done(K)' = {}
    BY <1>2, <1>3, <2>3, <2>4 DEF Done
  <2>6. GroupInv(K)'
    BY <1>2, <1>3, <1>4, <1>7, <2>1, <2>3, <2>4, <2>5 DEF GroupInv
  <2>7. ListInv(K)'
    BY <1>1, <2>5 DEF ListInv
  <2>8. ASSUME BlameInv(K)
        PROVE  BlameInv(K)'
    <3> SUFFICES ASSUME NEW h \in Hosts
                 PROVE  st_cont_fail'[h] > 0 <=>
                          IF Serving' /\ h \in Done(K)' THEN Silent(HostsOf(K, Current', Round(K)'), h)
                          ELSE IF Serving' /\ Round(K)' = 2 /\ h \in HostsOf(K, Current', 1)
                          THEN Silent(HostsOf(K, Current', 1), h)
                          ELSE BlamedBy(K, h, Len(replies'))
      BY DEF BlameInv
    <3>1. st_cont_fail[h] > 0 <=> IF h \in HostsOf(K, c, 1) THEN Silent(HostsOf(K, c, 1), h)
                                  ELSE BlamedBy(K, h, Len(replies))
      BY <1>3, <1>4, <1>6, <2>2, <2>8 DEF BlameInv
    <3> QED
      BY <1>1, <1>2, <1>3, <1>4, <2>4, <2>5, <3>1
  <2> QED
    BY <1>5, <2>5, <2>6, <2>7, <2>8 DEF TalkInv
<1> QED
  BY <1>8, <1>9

\* The response is written, and the request counts.
LEMMA TalkReply ==
    ASSUME TypeInv, NEW K, IsKnown(K), TalkInv(K), Reply
    PROVE  TalkInv(K)' /\ (BlameInv(K) => BlameInv(K)')
<1>1. /\ pc = "reply" /\ pc' = "wait" /\ replies' = Append(replies, client_buf)
      /\ UNCHANGED <<req_group, sync_group, wire, resp_list, st_cont_fail>>
  BY DEF Reply, backend
<1>2. Serving /\ ~ Serving' /\ ~ Heard /\ ~ Heard'
  BY <1>1 DEF Serving, Heard
<1>3. DOMAIN req_group = {} /\ DOMAIN sync_group = {}
  BY <1>1 DEF TalkInv, GroupInv
<1>4. GroupInv(K)' /\ ListInv(K)' /\ WireInv(K)'
  BY <1>1, <1>2 DEF TalkInv, GroupInv, ListInv, WireInv
<1>5. PICK m, q : m = Len(replies) /\ q = Current
  OBVIOUS
<1>6. m \in Nat /\ Len(replies') = q /\ q = m + 1
  BY <1>1, <1>5, Replied DEF Current
<1>7. Round(K) = 2 \/ HostsOf(K, q, 2) = {}
  BY <1>3, <1>5 DEF Round
<1>8. Done(K) = HostsOf(K, q, Round(K)) /\ Round(K) \in {1, 2}
  BY <1>3, <1>5 DEF Done, Round
<1>9. ASSUME BlameInv(K), NEW h \in Hosts
      PROVE  st_cont_fail'[h] > 0 <=> BlamedBy(K, h, q)
  <2>1. st_cont_fail[h] > 0 <=>
            IF h \in Done(K) THEN Silent(HostsOf(K, q, Round(K)), h)
            ELSE IF Round(K) = 2 /\ h \in HostsOf(K, q, 1)
            THEN Silent(HostsOf(K, q, 1), h)
            ELSE BlamedBy(K, h, m)
    BY <1>2, <1>5, <1>9 DEF BlameInv
  <2>2. BlamedBy(K, h, q) <=> IF h \in HostsOf(K, q, 1) \cup HostsOf(K, q, 2)
                              THEN BlamedIn(K, h, q) ELSE BlamedBy(K, h, m)
    BY <1>6, BlamedNext
  <2>3. BlamedIn(K, h, q) <=> IF h \in HostsOf(K, q, 2) THEN Silent(HostsOf(K, q, 2), h)
                              ELSE Silent(HostsOf(K, q, 1), h)
    BY DEF BlamedIn
  <2> QED
    BY <1>1, <1>7, <1>8, <2>1, <2>2, <2>3
<1>10. BlameInv(K) => BlameInv(K)'
  BY <1>2, <1>6, <1>9 DEF BlameInv
<1> QED
  BY <1>4, <1>10 DEF TalkInv

\* Before the first byte.
LEMMA TalkInit ==
    ASSUME Init, NEW K, IsKnown(K)
    PROVE  ReadInv(K) /\ TalkInv(K) /\ BlameInv(K)
<1>1. /\ StreamOK /\ sent = 0 /\ read_buf = << >> /\ pc = "wait"
      /\ req_group = << >> /\ sync_group = << >> /\ wire = [h \in Hosts |-> << >>]
      /\ resp_list = << >> /\ st_cont_fail = [h \in Hosts |-> 0] /\ replies = << >>
  BY DEF Init, StreamOK
<1>2. ~ Serving /\ ~ Heard /\ Len(replies) = 0 /\ Current = 1 /\ Len(read_buf) = 0
  BY <1>1 DEF Serving, Heard, Current
<1>3. Ready(0, 1)
  <2> SUFFICES ASSUME 0 < Len(Bytes)
               PROVE  /\ Bytes[0 + 1][2] = 0 /\ Bytes[0 + 1][1] \in DOMAIN stream
                      /\ Start(Bytes[0 + 1][1]) /\ RequestOf(Bytes[0 + 1][1]) >= 1
    BY DEF Ready
  <2>1. Len(stream) \in Nat /\ DOMAIN stream = 1 .. Len(stream)
    BY <1>1, StreamType
  <2>2. Bytes # << >>
    OBVIOUS
  <2>3. Len(stream) > 0 /\ Bytes[1] = <<1, 0>>
    BY <1>1, <2>1, <2>2, BytesChained DEF Chained
  <2>4. RequestOf(1) = 1
    <3>1. {j \in 1 .. (1 - 1) : stream[j].op # "getkq"} = {}
      OBVIOUS
    <3> QED
      BY <3>1, FS_EmptySet DEF RequestOf
  <2>5. Start(1) /\ 1 \in DOMAIN stream
    BY <2>1, <2>3 DEF Start
  <2> QED
    BY <2>3, <2>4, <2>5
<1>4. Clear(K, 0, 1)
  BY <1>1, <1>3, ClearReady
<1>5. ReadInv(K)
  <2>1. << >> = SubSeq(K.bytes, 0 + 1, 0)
    BY SubSeqEmpty
  <2>2. 0 - 0 = 0 /\ DOMAIN << >> = {}
    OBVIOUS
  <2> QED
    BY <1>1, <1>2, <1>4, <2>1, <2>2 DEF ReadInv
<1>6. GroupInv(K) /\ WireInv(K) /\ ListInv(K)
  BY <1>1, <1>2 DEF GroupInv, WireInv, ListInv
<1>7. BlameInv(K)
  <2>1. \A h \in Hosts : ~ BlamedBy(K, h, 0)
    <3>1. \A h : Asked(K, h, 0) = {}
      BY DEF Asked
    <3> QED
      BY <3>1 DEF BlamedBy
  <2> QED
    BY <1>1, <1>2, <2>1 DEF BlameInv
<1> QED
  BY <1>5, <1>6, <1>7 DEF TalkInv

\* A piece of a line that is taken for an answer is a torn answer.
LEMMA CutTorn ==
    ASSUME torn = 0, TypeInv, RecvCut
    PROVE  torn' # 0
<1>1. torn' = Len(replies) + 1
  BY DEF RecvCut, TornHere
<1> QED
  BY <1>1, StateTypes

\* A response that was written stays, and so does the first torn request; an
\* answer is torn between two responses.
LEMMA TornStays ==
    ASSUME TypeInv, [Next]_vars
    PROVE  /\ torn' = torn \/ (torn = 0 /\ torn' = Len(replies) + 1 /\ replies' = replies)
           /\ Len(replies) \in Nat /\ torn \in 0 .. (Len(replies) + 1)
           /\ \A r \in 1 .. Len(replies) : replies'[r] = replies[r]
<1>1. Len(replies) \in Nat
  BY StateTypes
<1>2. torn \in 0 .. (Len(replies) + 1)
  BY Zenon DEF TypeInv, Shape
<1>3. CASE ReadEvent
  <2>1. torn' = torn
    BY <1>3 DEF ReadEvent
  <2>2. replies' = replies \/ replies' = Append(replies, << >>)
    BY <1>3, Zenon DEF ReadEvent
  <2> QED
    BY <1>1, <1>2, <2>1, <2>2, Replied
<1>4. CASE Reply
  <2>1. torn' = torn /\ replies' = Append(replies, client_buf)
    BY <1>4 DEF Reply
  <2> QED
    BY <1>1, <1>2, <2>1, Replied
<1>5. CASE Recv \/ RecvCut
  <2>1. torn' = torn \/ torn' = IF torn = 0 THEN Len(replies) + 1 ELSE torn
    BY <1>5, Zenon DEF Recv, RecvCut, TornHere
  <2>2. replies' = replies
    BY <1>5 DEF Recv, RecvCut
  <2> QED
    BY <1>1, <1>2, <2>1, <2>2
<1>6. CASE Arrive \/ Forward \/ RecvTimeout \/ EndTalk \/ Idle \/ UNCHANGED vars
  BY <1>1, <1>2, <1>6 DEF Arrive, Forward, RecvTimeout, EndTalk, Idle, vars
<1> QED
  BY <1>3, <1>4, <1>5, <1>6 DEF Next

\* Every step keeps the invariant about talkToBackend and the counters.
LEMMA TalkNext ==
    ASSUME torn = 0, torn' = 0, TypeInv, NEW K, IsKnown(K), ReadInv(K), TalkInv(K), [Next]_vars
    PROVE  TalkInv(K)' /\ (BlameInv(K) => BlameInv(K)')
<1>1. CASE Arrive
  BY <1>1, TalkArrive
<1>2. CASE ReadEvent
  BY <1>2, TalkReadEvent
<1>3. CASE Forward
  BY <1>3, TalkForward
<1>4. CASE Recv
  BY <1>4, TalkRecv
<1>9. CASE RecvCut
  BY <1>9, CutTorn
<1>5. CASE RecvTimeout
  BY <1>5, TalkRecvTimeout
<1>6. CASE EndTalk
  BY <1>6, TalkEndTalk
<1>7. CASE Reply
  BY <1>7, TalkReply
<1>8. CASE Idle \/ UNCHANGED vars
  <2>1. UNCHANGED vars
    BY <1>8 DEF Idle
  <2>2. Host' = Host /\ Current' = Current /\ Round(K)' = Round(K) /\ Done(K)' = Done(K)
        /\ (Serving' <=> Serving) /\ (Heard' <=> Heard)
    BY <2>1 DEF vars, Host, Current, Round, Done, Serving, Heard
  <2>3. GroupInv(K)'
    BY <2>1, <2>2 DEF TalkInv, GroupInv, vars
  <2>4. WireInv(K)'
    BY <2>1, <2>2 DEF TalkInv, WireInv, vars
  <2>5. ListInv(K)'
    BY <2>1, <2>2 DEF TalkInv, ListInv, vars
  <2>6. BlameInv(K) => BlameInv(K)'
    BY <2>1, <2>2 DEF BlameInv, vars
  <2> QED
    BY <2>3, <2>4, <2>5, <2>6 DEF TalkInv
<1> QED
  BY <1>1, <1>2, <1>3, <1>4, <1>5, <1>6, <1>7, <1>8, <1>9 DEF Next

\* The inductive invariant of the control and of the counters.
BlameInductive == \E K : IsKnown(K) /\ ReadInv(K) /\ TalkInv(K) /\ BlameInv(K)

\* The stream never changes.
LEMMA StreamStays ==
    ASSUME [Next]_vars
    PROVE  proto' = proto /\ stream' = stream
BY DEF Next, Arrive, ReadEvent, Forward, Recv, RecvCut, RecvTimeout, EndTalk, Reply, Idle, client,
       vars

\* Whom the invariant accuses between requests.
LEMMA BlameInvRight == TypeInv /\ BlameInductive => BlameRight
<1> SUFFICES ASSUME TypeInv, BlameInductive, pc \in {"wait", "read"}, NEW h \in Hosts,
                    NEW asked, asked = {r \in 1 .. Len(replies) : h \in MainHosts(r) \cup SyncHosts(r)}
             PROVE  st_cont_fail[h] > 0 <=> asked # {} /\ Blamed(h, Max(asked))
  BY DEF BlameRight
<1>1. PICK K : IsKnown(K) /\ ReadInv(K) /\ TalkInv(K) /\ BlameInv(K)
  BY DEF BlameInductive
<1>2. st_cont_fail[h] > 0 <=> BlamedBy(K, h, Len(replies))
  BY <1>1 DEF BlameInv, Serving
<1>3. PICK m \in Nat : m = Len(replies)
  BY StateTypes
<1>4. \A r \in Nat : HostsOf(K, r, 1) = MainHosts(r) /\ HostsOf(K, r, 2) = SyncHosts(r)
  BY <1>1, KnownParts
<1>5. asked = Asked(K, h, m)
  BY <1>3, <1>4 DEF Asked
<1>6. \A r \in Nat : BlamedIn(K, h, r) <=> Blamed(h, r)
  <2> SUFFICES ASSUME NEW r \in Nat
               PROVE  BlamedIn(K, h, r) <=> Blamed(h, r)
    OBVIOUS
  <2>1. PICK A, B : A = HostsOf(K, r, 1) /\ B = HostsOf(K, r, 2)
    OBVIOUS
  <2>2. A = MainHosts(r) /\ B = SyncHosts(r)
    BY <1>4, <2>1
  <2>3. BlamedIn(K, h, r) <=> Silent(IF h \in B THEN B ELSE A, h)
    BY <2>1 DEF BlamedIn
  <2>4. Blamed(h, r) <=> Silent(IF h \in B THEN B ELSE A, h)
    BY <2>2 DEF Blamed, Silent
  <2> QED
    BY <2>3, <2>4
<1>7. asked # {} => Max(asked) \in Nat
  <2>1. PICK S : S = asked
    OBVIOUS
  <2>2. S \in SUBSET (1 .. m)
    BY <1>5, <2>1 DEF Asked
  <2>3. S # {} => \E x \in S : \A y \in S : x >= y
    <3> SUFFICES ASSUME S # {}
                 PROVE  \E x \in S : \A y \in S : x >= y
      OBVIOUS
    <3> DEFINE R == {m - y : y \in S}
    <3>0. ASSUME NEW y \in S
          PROVE  y \in Nat /\ m - y \in Nat
      <4>1. y \in 1 .. m
        BY <2>2
      <4> QED
        BY <4>1
    <3>1. R \in SUBSET Nat /\ R # {}
      BY <3>0
    <3>2. PICK z \in R : \A k \in R : z <= k
      BY <3>1, LeastNumber
    <3>3. PICK x \in S : z = m - x
      OBVIOUS
    <3>4. ASSUME NEW y \in S
          PROVE  x >= y
      <4>1. m - x <= m - y
        BY <3>2, <3>3
      <4> QED
        BY <3>0, <4>1
    <3> QED
      BY <3>4
  <2>4. S # {} => Max(S) \in S
    BY <2>3 DEF Max
  <2> QED
    BY <2>1, <2>2, <2>4
<1>8. BlamedBy(K, h, m) <=> asked # {} /\ Blamed(h, Max(asked))
  BY <1>5, <1>6, <1>7 DEF BlamedBy
<1> QED
  BY <1>2, <1>3, <1>8

\* Once a request is dealt with, the counters accuse a silent host exactly if no
\* host visited before it in the same talkToBackend has answered, and never a
\* host that answers (countFail of readFromBackend with the resp_list that all
\* hosts of a round share), for any stream, hosts and keys, as long as no
\* answer is torn.
THEOREM BlameCorrect == Spec => [](torn = 0 => BlameRight)
<1> DEFINE Inv == torn = 0 => BlameInductive
<1>1. Init => Inv
  <2> SUFFICES ASSUME Init
               PROVE  BlameInductive
    OBVIOUS
  <2>1. PICK K : IsKnown(K)
    BY DEF IsKnown
  <2> QED
    BY <2>1, TalkInit DEF BlameInductive
<1>2. TypeInv /\ Inv /\ [Next]_vars => Inv'
  <2> SUFFICES ASSUME TypeInv, Inv, [Next]_vars, torn' = 0
               PROVE  BlameInductive'
    OBVIOUS
  <2>1. torn = 0
    BY TornStays
  <2>2. PICK K : IsKnown(K) /\ ReadInv(K) /\ TalkInv(K) /\ BlameInv(K)
    BY <2>1 DEF BlameInductive
  <2>3. IsKnown(K)'
    BY <2>2, StreamStays, KnownStays
  <2>4. ReadInv(K)'
    BY <2>2, ReadStep
  <2>5. TalkInv(K)' /\ BlameInv(K)'
    BY <2>1, <2>2, TalkNext
  <2> QED
    BY <2>3, <2>4, <2>5 DEF BlameInductive
<1>3. TypeInv /\ Inv => (torn = 0 => BlameRight)
  BY BlameInvRight
<1> QED
  BY <1>1, <1>2, <1>3, InitShape, NextShape, PTL DEF Spec

-----------------------------------------------------------------------------
(***************************************************************************)
(* The response                                                            *)
(***************************************************************************)

\* The units that the items of l point to.
Copies(l) == [n \in DOMAIN l |-> Content(l[n])]

\* The content of an item in resp_buf.
LEMMA ContentPart ==
    ASSUME NEW U, resp_buf \in Seq(U), NEW x \in ItemsTo(Len(resp_buf))
    PROVE  /\ x.off \in Nat /\ x.len \in Nat /\ x.off + x.len <= Len(resp_buf)
           /\ Content(x) = SubSeq(resp_buf, x.off + 1, x.off + x.len)
           /\ Content(x) \in Seq(U)
<1>1. PICK buf, off, len : buf = resp_buf /\ off = x.off /\ len = x.len
  OBVIOUS
<1>2. off \in Nat /\ len \in Nat /\ off + len <= Len(buf) /\ buf \in Seq(U) /\ Len(buf) \in Nat
  BY <1>1 DEF ItemsTo, AnyItem
<1>3. Content(x) = [k \in 1 .. len |-> IF off + k <= Len(buf) THEN buf[off + k] ELSE JUNK]
  BY <1>1 DEF Content
<1>4. PICK e \in Nat : e = off + len
  BY <1>2
<1>5. e \in off .. Len(buf) /\ e - off = len
  BY <1>2, <1>4
<1>6. /\ SubSeq(buf, off + 1, e) \in Seq(U) /\ Len(SubSeq(buf, off + 1, e)) = e - off
      /\ \A k \in 1 .. (e - off) : SubSeq(buf, off + 1, e)[k] = buf[off + k]
  BY ONLY <1>2, <1>5, SubSeqAt
<1>7. \A k \in 1 .. len : off + k <= Len(buf) /\ buf[off + k] \in U
  BY <1>2
<1>8. PICK y : y = Content(x)
  OBVIOUS
<1>9. y \in [1 .. len -> U] /\ \A k \in 1 .. len : y[k] = buf[off + k]
  BY <1>3, <1>7, <1>8
<1>10. y \in Seq(U) /\ Len(y) = len
  BY <1>2, <1>9, FunctionIsSeq
<1>11. PICK z : z = SubSeq(buf, off + 1, e)
  OBVIOUS
<1>12. z \in Seq(U) /\ Len(z) = len /\ \A k \in 1 .. len : z[k] = buf[off + k]
  BY <1>5, <1>6, <1>11
<1>13. y = z
  <2>1. Len(y) = Len(z) /\ \A k \in 1 .. Len(y) : y[k] = z[k]
    BY <1>9, <1>10, <1>12
  <2> QED
    BY <1>10, <1>12, <2>1, SeqEqual
<1> QED
  BY <1>1, <1>2, <1>4, <1>8, <1>10, <1>11, <1>13

\* One more item.
LEMMA CopiesAppend ==
    ASSUME NEW I, NEW U, \A y \in I : Content(y) \in Seq(U), NEW p \in Seq(I), NEW x \in I
    PROVE  /\ Copies(p) \in Seq(Seq(U)) /\ Content(x) \in Seq(U)
           /\ Copies(Append(p, x)) = Append(Copies(p), Content(x))
<1>1. PICK W, c, d : W = Seq(U) /\ c = Content(x) /\ d = Copies(p)
  OBVIOUS
<1>2. PICK n \in Nat : n = Len(p) /\ DOMAIN p = 1 .. n
  OBVIOUS
<1>3. d \in [1 .. n -> W] /\ c \in W /\ \A k \in 1 .. n : d[k] = Content(p[k])
  <2>1. \A k \in 1 .. n : p[k] \in I
    BY <1>2
  <2> QED
    BY <1>1, <1>2, <2>1 DEF Copies
<1>4. d \in Seq(W) /\ Len(d) = n
  BY <1>3, FunctionIsSeq
<1>5. PICK q, e : q = Append(p, x) /\ e = Append(d, c)
  OBVIOUS
<1>6. q \in Seq(I) /\ Len(q) = n + 1 /\ DOMAIN q = 1 .. (n + 1) /\ q[n + 1] = x
      /\ \A k \in 1 .. n : q[k] = p[k]
  BY <1>2, <1>5
<1>7. e \in Seq(W) /\ Len(e) = n + 1 /\ e[n + 1] = c /\ \A k \in 1 .. n : e[k] = d[k]
  BY <1>3, <1>4, <1>5, SMTT(30)
<1>8. PICK g : g = Copies(q)
  OBVIOUS
<1>9. PICK n1 \in Nat : n1 = n + 1
  OBVIOUS
<1>10. g \in [1 .. n1 -> W] /\ \A k \in 1 .. n1 : g[k] = Content(q[k])
  <2>1. \A k \in 1 .. n1 : q[k] \in I
    BY <1>6, <1>9
  <2> QED
    BY <1>1, <1>6, <1>8, <1>9, <2>1 DEF Copies
<1>11. g \in Seq(W) /\ Len(g) = n1
  BY <1>10, FunctionIsSeq
<1>12. ASSUME NEW k \in 1 .. n1
       PROVE  g[k] = e[k]
  <2>1. CASE k = n1
    BY <1>1, <1>6, <1>7, <1>9, <1>10, <2>1
  <2>2. CASE k # n1
    <3>1. k \in 1 .. n
      BY <1>9, <2>2
    <3> QED
      BY <1>3, <1>6, <1>7, <1>10, <3>1
  <2> QED
    BY <2>1, <2>2
<1>13. g = e
  BY <1>7, <1>9, <1>11, <1>12, SeqEqual
<1> QED
  BY <1>1, <1>3, <1>4, <1>5, <1>8, <1>13

\* Items one after the other, copied one after the other.
LEMMA CopyTiles ==
    ASSUME NEW U, resp_buf \in Seq(U), NEW I, I = ItemsTo(Len(resp_buf)),
           NEW l \in Seq(I), NEW m, Tiles(l, 0, m)
    PROVE  FlattenSeq(Copies(l)) = SubSeq(resp_buf, 1, m) /\ m \in 0 .. Len(resp_buf)
<1>1. PICK buf : buf = resp_buf
  OBVIOUS
<1>2. buf \in Seq(U) /\ Len(buf) \in Nat
  BY <1>1
<1>3. ASSUME NEW x \in I
      PROVE  /\ x.off \in Nat /\ x.len \in Nat /\ x.off + x.len <= Len(buf)
             /\ Content(x) = SubSeq(buf, x.off + 1, x.off + x.len)
             /\ Content(x) \in Seq(U)
  BY <1>1, ContentPart
<1>4. PICK n \in Nat : n = Len(l)
  OBVIOUS
<1> DEFINE P(j) == SubSeq(l, 1, j)
           E(j) == IF j = 0 THEN 0 ELSE l[j].off + l[j].len
           S == {j \in Nat : j <= n => /\ FlattenSeq(Copies(P(j))) = SubSeq(buf, 1, E(j))
                                       /\ E(j) \in 0 .. Len(buf)}
<1>5. 0 \in S
  <2>1. P(0) = << >> /\ SubSeq(buf, 1, 0) = << >>
    BY SubSeqEmpty
  <2>2. Copies(<< >>) = << >>
    BY DEF Copies
  <2>3. FlattenSeq(<< >>) = << >>
    <3>1. << >> \in Seq(U)
      OBVIOUS
    <3> QED
      BY <3>1, FlattenFew
  <2>4. E(0) = 0 /\ 0 \in 0 .. Len(buf)
    BY <1>2
  <2>5. FlattenSeq(Copies(P(0))) = SubSeq(buf, 1, E(0)) /\ E(0) \in 0 .. Len(buf)
    BY <2>1, <2>2, <2>3, <2>4, Zenon
  <2> QED
    BY <2>5
<1>6. ASSUME NEW j \in S
      PROVE  j + 1 \in S
  <2> SUFFICES ASSUME j + 1 <= n
               PROVE  /\ FlattenSeq(Copies(P(j + 1))) = SubSeq(buf, 1, E(j + 1))
                      /\ E(j + 1) \in 0 .. Len(buf)
    OBVIOUS
  <2>1. PICK e : e = E(j)
    OBVIOUS
  <2>2. FlattenSeq(Copies(P(j))) = SubSeq(buf, 1, e) /\ e \in 0 .. Len(buf) /\ j \in Nat
    BY <1>4, <2>1
  <2>3. j \in 0 .. (Len(l) - 1) /\ j + 1 \in DOMAIN l
    BY <1>4, <2>2
  <2>4. P(j) \in Seq(I) /\ l[j + 1] \in I /\ P(j + 1) = Append(P(j), l[j + 1])
    BY <2>3, PrefixAppend
  <2>5. PICK p, x : p = P(j) /\ x = l[j + 1]
    OBVIOUS
  <2>6. p \in Seq(I) /\ x \in I
    BY <2>4, <2>5
  <2>7. x.off = e
    <3>1. CASE j = 0
      <4>1. j + 1 = 1 /\ e = 0 /\ 1 \in DOMAIN l
        BY <2>1, <2>3, <3>1
      <4> QED
        BY <2>5, <4>1 DEF Tiles
    <3>2. CASE j # 0
      <4>1. j + 1 # 1 /\ (j + 1) - 1 = j
        BY <2>2, <3>2
      <4> QED
        BY <2>1, <2>3, <2>5, <3>2, <4>1 DEF Tiles
    <3> QED
      BY <3>1, <3>2
  <2>8. PICK f : f = x.off + x.len
    OBVIOUS
  <2>9. E(j + 1) = f /\ f \in 0 .. Len(buf) /\ e <= f /\ e \in Nat /\ f \in Nat
    <3>1. j + 1 # 0
      BY <2>2
    <3>2. E(j + 1) = f
      BY <2>5, <2>8, <3>1
    <3>3. x.off \in Nat /\ x.len \in Nat /\ x.off + x.len <= Len(buf)
      BY <1>3, <2>6
    <3>4. f \in Nat /\ f <= Len(buf) /\ e <= f /\ e \in Nat
      BY <1>2, <2>7, <2>8, <3>3
    <3>5. f \in 0 .. Len(buf)
      BY <1>2, <3>4
    <3> QED
      BY <3>2, <3>4, <3>5
  <2>10. /\ Copies(p) \in Seq(Seq(U)) /\ Content(x) \in Seq(U)
         /\ Copies(Append(p, x)) = Append(Copies(p), Content(x))
    <3>1. \A y \in I : Content(y) \in Seq(U)
      BY <1>3
    <3> HIDE DEF P, E, S
    <3> QED
      BY ONLY <2>6, <3>1, CopiesAppend
  <2>11. FlattenSeq(Copies(Append(p, x))) = FlattenSeq(Copies(p)) \o Content(x)
    BY <2>10, FlattenAppend
  <2>12. Content(x) = SubSeq(buf, e + 1, f)
    BY <1>3, <2>6, <2>7, <2>8
  <2>13. SubSeq(buf, 1, e) \o SubSeq(buf, e + 1, f) = SubSeq(buf, 1, f)
    <3>1. PICK one : one = 1
      OBVIOUS
    <3>2. one \in 1 .. (Len(buf) + 1) /\ e \in (one - 1) .. Len(buf) /\ f \in e .. Len(buf)
      BY <1>2, <2>2, <2>9, <3>1
    <3>3. SubSeq(buf, one, e) \o SubSeq(buf, e + 1, f) = SubSeq(buf, one, f)
      BY <1>2, <3>2, ConcatAdjacentSubSeq
    <3> QED
      BY <3>1, <3>3
  <2>14. FlattenSeq(Copies(P(j + 1))) = SubSeq(buf, 1, f)
    BY <2>2, <2>4, <2>5, <2>11, <2>12, <2>13, Zenon
  <2> QED
    BY <2>9, <2>14
<1>7. S = Nat
  <2>1. S \in SUBSET Nat
    OBVIOUS
  <2> HIDE DEF S
  <2> QED
    BY <1>5, <1>6, <2>1, SetInduction
<1>8. FlattenSeq(Copies(P(n))) = SubSeq(buf, 1, E(n)) /\ E(n) \in 0 .. Len(buf)
  <2>1. n \in S /\ n <= n
    <3> HIDE DEF S
    <3> QED
      BY <1>7
  <2> QED
    BY <2>1
<1>9. P(n) = l
  BY <1>4, SubSeqFull
<1>10. E(n) = m
  <2>1. n = 0 <=> l = << >>
    BY <1>4, EmptySeq
  <2> QED
    BY <1>4, <2>1 DEF Tiles
<1> QED
  BY <1>1, <1>8, <1>9, <1>10

\* p is all of l but the last element, and z the last.
EndsIn(l, p, z) ==
    /\ l = Append(p, z) /\ l = p \o <<z>> /\ z = l[Len(l)] /\ Len(l) = Len(p) + 1
    /\ Len(p) \in Nat /\ \A k \in DOMAIN p : p[k] = l[k] /\ k \in DOMAIN l /\ k # Len(l)

\* A sequence that is not empty has a last element.
LEMMA SplitLast ==
    ASSUME NEW I, NEW l \in Seq(I), l # << >>
    PROVE  \E p \in Seq(I), z \in I : EndsIn(l, p, z)
<1>1. Len(l) \in Nat /\ Len(l) # 0
  BY EmptySeq
<1>2. PICK n \in Nat : n = Len(l) - 1
  BY <1>1
<1>3. n \in 0 .. (Len(l) - 1) /\ n + 1 = Len(l)
  BY <1>1, <1>2
<1>4. /\ SubSeq(l, 1, n) \in Seq(I) /\ l[n + 1] \in I
      /\ SubSeq(l, 1, n + 1) = Append(SubSeq(l, 1, n), l[n + 1])
      /\ SubSeq(l, 1, n + 1) = SubSeq(l, 1, n) \o <<l[n + 1]>>
  BY <1>3, PrefixAppend
<1>5. SubSeq(l, 1, Len(l)) = l
  BY SubSeqFull
<1>6. PICK p, z : p = SubSeq(l, 1, n) /\ z = l[n + 1]
  OBVIOUS
<1>7. l = Append(p, z) /\ l = p \o <<z>> /\ p \in Seq(I) /\ z \in I
  BY <1>3, <1>4, <1>5, <1>6
<1>8. Len(l) = Len(p) + 1 /\ Len(p) \in Nat /\ \A k \in 1 .. Len(p) : l[k] = p[k]
  BY <1>7, AppendProperties
<1>9. DOMAIN p = 1 .. Len(p) /\ DOMAIN l = 1 .. Len(l)
  BY <1>7
<1>10. \A k \in DOMAIN p : p[k] = l[k] /\ k \in DOMAIN l /\ k # Len(l)
  BY <1>8, <1>9
<1>11. EndsIn(l, p, z)
  BY <1>3, <1>6, <1>7, <1>8, <1>10 DEF EndsIn
<1> QED
  BY <1>7, <1>11

\* A noop that is last anyway stays where it is: CREATE_RESP copies resp_list as
\* it is.
LEMMA CopyEndLast ==
    ASSUME NEW U, NEW I, \A y \in I : Content(y) \in Seq(U), resp_list \in Seq(I), EndLast(resp_list)
    PROVE  CREATE_RESP = FlattenSeq(Copies(resp_list))
<1>1. PICK l, A, B : /\ l = resp_list /\ A = {x \in Range(resp_list) : x.end}
                     /\ B = {x \in Range(resp_list) : ~ x.end}
  OBVIOUS
<1>2. PICK a, b : a = Only(l, A) /\ b = Only(l, B)
  OBVIOUS
<1>3. CREATE_RESP = FlattenSeq(Copies(b)) \o (IF a = << >> THEN << >> ELSE Content(Last(a)))
  BY <1>1, <1>2 DEF CREATE_RESP, Copies
<1>4. l \in Seq(I) /\ EndLast(l)
  BY <1>1
<1>5. \A S : Only(<< >>, S) = << >>
  BY OnlyOne
<1>6. FlattenSeq(<< >>) = << >> /\ Copies(<< >>) = << >> /\ << >> \o << >> = << >>
  <2>1. << >> \in Seq(U)
    OBVIOUS
  <2>2. Copies(<< >>) = << >>
    BY DEF Copies
  <2> QED
    BY <2>1, <2>2, FlattenFew, ConcatEmptySeq
<1>7. CASE l = << >>
  BY <1>1, <1>2, <1>3, <1>5, <1>6, <1>7
<1>8. CASE l # << >>
  <2>0. PICK p \in Seq(I), z \in I : EndsIn(l, p, z)
    BY <1>4, <1>8, SplitLast
  <2>1. /\ l = Append(p, z) /\ l = p \o <<z>> /\ z = l[Len(l)] /\ Len(l) = Len(p) + 1
        /\ Len(p) \in Nat /\ \A k \in DOMAIN p : p[k] = l[k] /\ k \in DOMAIN l /\ k # Len(l)
    BY <2>0 DEF EndsIn
  <2>2. PICK y : IsOne(y, z)
    BY DEF IsOne
  <2>3. y \in Seq(I) /\ y # << >> /\ Last(y) = z
    BY <2>2 DEF IsOne, Last
  <2>4. \A S : Only(p \o y, S) = Only(p, S) \o Only(y, S)
    BY <2>3, OnlyConcat
  <2>5. l = p \o y
    BY <2>1, <2>2 DEF IsOne
  <2>6. z \in Range(l)
    <3>1. Len(l) \in DOMAIN l
      BY <1>4, <2>1
    <3> QED
      BY <2>1, <3>1 DEF Range
  <2>7. \A S : Only(y, S) = IF z \in S THEN y ELSE << >>
    <3>1. \A S : Only(<<z>>, S) = IF z \in S THEN <<z>> ELSE << >>
      BY OnlyOne
    <3> QED
      BY <2>2, <3>1 DEF IsOne
  <2>8. \A k \in DOMAIN p : p[k] \in B /\ p[k] \notin A
    <3> SUFFICES ASSUME NEW k \in DOMAIN p
                 PROVE  p[k] \in B /\ p[k] \notin A
      OBVIOUS
    <3>1. p[k] = l[k] /\ k \in DOMAIN l /\ k # Len(l)
      BY <2>1
    <3>2. ~ l[k].end /\ l[k] \in Range(l)
      BY <1>4, <3>1 DEF EndLast, Range
    <3> QED
      BY <1>1, <3>1, <3>2
  <2>9. Only(p, A) = << >> /\ Only(p, B) = p
    BY <2>8, OnlyAll
  <2>10. /\ p \o << >> = p /\ << >> \o y = y
    BY <2>3, ConcatEmptySeq
  <2>11. /\ Copies(p) \in Seq(Seq(U)) /\ Content(z) \in Seq(U)
         /\ Copies(Append(p, z)) = Append(Copies(p), Content(z))
    BY ONLY p \in Seq(I), z \in I, \A x \in I : Content(x) \in Seq(U), CopiesAppend
  <2>12. FlattenSeq(Append(Copies(p), Content(z))) = FlattenSeq(Copies(p)) \o Content(z)
    BY <2>11, FlattenAppend
  <2>13. PICK f : f = FlattenSeq(Copies(l))
    OBVIOUS
  <2>14. f = FlattenSeq(Copies(p)) \o Content(z)
    BY <2>1, <2>11, <2>12, <2>13
  <2>15. CASE z.end
    <3>1. z \in A /\ z \notin B
      BY <1>1, <2>6, <2>15
    <3>2. a = y /\ b = p
      BY <1>2, <2>4, <2>5, <2>7, <2>9, <2>10, <3>1, Zenon
    <3>3. CREATE_RESP = FlattenSeq(Copies(p)) \o Content(z)
      BY <1>3, <2>3, <3>2
    <3> QED
      BY <1>1, <2>13, <2>14, <3>3
  <2>16. CASE ~ z.end
    <3>1. z \notin A /\ z \in B
      BY <1>1, <2>6, <2>16
    <3>2. a = << >> /\ b = l
      BY <1>2, <1>6, <2>4, <2>5, <2>7, <2>9, <3>1, Zenon
    <3>3. CREATE_RESP = f \o << >>
      BY <1>3, <2>13, <3>2, Zenon
    <3>4. f \in Seq(U)
      <4>1. Append(Copies(p), Content(z)) \in Seq(Seq(U))
        <5>1. PICK W, s, c : W = Seq(U) /\ s = Copies(p) /\ c = Content(z)
          OBVIOUS
        <5>2. s \in Seq(W) /\ c \in W
          BY <2>11, <5>1
        <5>3. Append(s, c) \in Seq(W)
          BY <5>2
        <5> QED
          BY <5>1, <5>3
      <4>2. PICK s : s = Append(Copies(p), Content(z))
        OBVIOUS
      <4>3. FlattenSeq(s) \in Seq(U)
        BY <4>1, <4>2, FlattenType
      <4> QED
        BY <2>1, <2>11, <2>13, <4>2, <4>3
    <3>5. f \o << >> = f
      BY <3>4, ConcatEmptySeq
    <3> QED
      BY <1>1, <2>13, <3>3, <3>5
  <2> QED
    BY <2>15, <2>16
<1> QED
  BY <1>7, <1>8

\* CREATE_RESP hands on what the one living host has answered, and nothing when
\* nobody did.
LEMMA CopyCollected ==
    ASSUME torn = 0, TypeInv
    PROVE  /\ resp_list = << >> => CREATE_RESP = << >>
           /\ \A F : Collected(F) => CREATE_RESP = F
<1>1. PICK U, I, n : U = Units /\ n = Len(resp_buf) /\ I = ItemsTo(n)
  OBVIOUS
<1>2. resp_buf \in Seq(U) /\ n \in Nat
  BY <1>1, StateTypes
<1>3. resp_list \in Seq(I)
  <2>1. resp_list \in Seq(ItemsTo(n + Ahead)) /\ Ahead = 0
    BY <1>1, Zenon DEF TypeInv, Shape, Ahead
  <2>2. n + 0 = n
    BY <1>2
  <2> QED
    BY <1>1, <2>1, <2>2
<1>4. \A y \in I : Content(y) \in Seq(U)
  BY <1>1, <1>2, ContentPart
<1>5. ASSUME resp_list = << >>
      PROVE  CREATE_RESP = << >>
  <2>1. EndLast(resp_list)
    BY <1>5 DEF EndLast
  <2>2. CREATE_RESP = FlattenSeq(Copies(resp_list))
    BY <1>3, <1>4, <2>1, CopyEndLast
  <2>3. FlattenSeq(<< >>) = << >> /\ Copies(<< >>) = << >>
    <3>1. << >> \in Seq(U)
      OBVIOUS
    <3>2. Copies(<< >>) = << >>
      BY DEF Copies
    <3> QED
      BY <3>1, <3>2, FlattenFew
  <2> QED
    BY <1>5, <2>2, <2>3
<1>6. ASSUME NEW F, Collected(F)
      PROVE  CREATE_RESP = F
  <2>1. Tiles(resp_list, 0, Len(F)) /\ EndLast(resp_list) /\ SubSeq(resp_buf, 1, Len(F)) = F
    BY <1>6 DEF Collected
  <2>2. CREATE_RESP = FlattenSeq(Copies(resp_list))
    BY <1>3, <1>4, <2>1, CopyEndLast
  <2>3. PICK l, m : l = resp_list /\ m = Len(F)
    OBVIOUS
  <2>4. l \in Seq(I) /\ Tiles(l, 0, m) /\ I = ItemsTo(Len(resp_buf))
    BY <1>1, <1>3, <2>1, <2>3
  <2>5. FlattenSeq(Copies(l)) = SubSeq(resp_buf, 1, m)
    BY ONLY <1>2, <2>4, CopyTiles
  <2> QED
    BY <2>1, <2>2, <2>3, <2>5
<1> QED
  BY <1>5, <1>6

\* The hosts whose answers make the response, and the table they are found in.
LastHosts(r) == IF SyncHosts(r) = {} THEN MainHosts(r) ELSE SyncHosts(r)
LastTable(r) == IF SyncHosts(r) = {} THEN Owner ELSE Backup

\* The expected response, for the hosts in their order.
ExpectedFrom(r, hosts) ==
    FlattenSeq([n \in DOMAIN hosts |-> Answers(hosts[n], Keyed(ItemsOf(r), LastTable(r), hosts[n]))])
        \o (IF hosts = << >> THEN << >> ELSE Answers(Last(hosts), Only(ItemsOf(r), With({"noop"}))))

\* The living hosts of a request in their order.
LEMMA ExpectedHosts ==
    ASSUME NEW r
    PROVE  Expected(r) = LET alive == LastHosts(r) \ Dead
                         IN  ExpectedFrom(r, Only([h \in 1 .. Max(alive \cup {0}) |-> h], alive))
BY Zenon DEF Expected, ExpectedFrom, LastHosts, LastTable

\* Where nobody answers, nothing is expected.
LEMMA ExpectedNone ==
    ASSUME NEW r, LastHosts(r) \ Dead = {}
    PROVE  Expected(r) = << >>
<1>1. PICK m : m = Max({} \cup {0})
  OBVIOUS
<1>2. m = 0
  <2>1. {} \cup {0} = {0}
    OBVIOUS
  <2>2. Max({0}) = 0
    BY DEF Max
  <2> QED
    BY <1>1, <2>1, <2>2
<1>3. [h \in 1 .. m |-> h] = << >>
  BY <1>2
<1>4. Only(<< >>, {}) = << >>
  BY OnlyOne
<1>5. Expected(r) = ExpectedFrom(r, Only([h \in 1 .. m |-> h], {}))
  BY <1>1, ExpectedHosts
<1>6. Expected(r) = ExpectedFrom(r, << >>)
  BY <1>3, <1>4, <1>5
<1>7. [n \in DOMAIN << >> |-> Answers(<< >>[n], Keyed(ItemsOf(r), LastTable(r), << >>[n]))] = << >>
  OBVIOUS
<1>8. FlattenSeq(<< >>) = << >> /\ << >> \o << >> = << >>
  <2>1. << >> \in Seq(Nat)
    OBVIOUS
  <2> QED
    BY <2>1, FlattenFew, ConcatEmptySeq
<1> QED
  BY <1>6, <1>7, <1>8 DEF ExpectedFrom

\* The only member of a set of hosts.
LEMMA OnlyHost ==
    ASSUME NEW h \in Nat \ {0}
    PROVE  Only([k \in 1 .. h |-> k], {h}) = <<h>>
<1>1. PICK s : s = [k \in 1 .. h |-> k]
  OBVIOUS
<1>2. s \in [1 .. h -> Nat] /\ \A k \in 1 .. h : s[k] = k
  BY <1>1
<1>3. s \in Seq(Nat) /\ Len(s) = h
  BY <1>2, FunctionIsSeq
<1>4. s # << >>
  BY <1>3
<1>5. PICK p \in Seq(Nat), z \in Nat : EndsIn(s, p, z)
  BY <1>3, <1>4, SplitLast
<1>6. /\ s = p \o <<z>> /\ z = s[Len(s)]
      /\ \A k \in DOMAIN p : p[k] = s[k] /\ k \in DOMAIN s /\ k # Len(s)
  BY <1>5 DEF EndsIn
<1>7. z = h
  BY <1>2, <1>3, <1>6
<1>8. \A k \in DOMAIN p : p[k] \notin {h}
  BY <1>2, <1>3, <1>6
<1>9. Only(p, {h}) = << >>
  BY <1>8, OnlyAll
<1>10. PICK y : IsOne(y, z)
  BY DEF IsOne
<1>11. y \in Seq(Nat) /\ s = p \o y
  BY <1>6, <1>10 DEF IsOne
<1>12. Only(p \o y, {h}) = Only(p, {h}) \o Only(y, {h})
  BY <1>11, OnlyConcat
<1>13. Only(y, {h}) = y
  <2>1. Only(<<z>>, {h}) = IF z \in {h} THEN <<z>> ELSE << >>
    BY OnlyOne
  <2> QED
    BY <1>7, <1>10, <2>1 DEF IsOne
<1>14. << >> \o y = y
  BY <1>11, ConcatEmptySeq
<1> QED
  BY <1>1, <1>7, <1>9, <1>10, <1>11, <1>12, <1>13, <1>14 DEF IsOne

\* Where one host answers, its answers are expected.
LEMMA ExpectedOne ==
    ASSUME NEW r, ItemsOf(r) \in Seq(DOMAIN stream), NEW h \in Hosts, LastHosts(r) \ Dead = {h}
    PROVE  Expected(r) = Answers(h, Keyed(ItemsOf(r), LastTable(r), h) \o Only(ItemsOf(r), With({"noop"})))
<1>0. h \in Nat \ {0}
  BY HostsAssumption
<1>1. PICK m : m = Max({h} \cup {0})
  OBVIOUS
<1>2. m = h
  <2>1. PICK S : S = {h} \cup {0}
    OBVIOUS
  <2>2. h \in S /\ \A y \in S : h >= y
    BY <1>0, <2>1
  <2>3. \A x \in S : (\A y \in S : x >= y) => x = h
    BY <1>0, <2>1
  <2>4. Max(S) = h
    BY <2>2, <2>3 DEF Max
  <2> QED
    BY <1>1, <2>1, <2>4
<1>3. Only([k \in 1 .. m |-> k], {h}) = <<h>>
  BY <1>0, <1>2, OnlyHost
<1>4. Expected(r) = ExpectedFrom(r, <<h>>)
  BY <1>1, <1>3, ExpectedHosts
<1>5. PICK a, e : a = Keyed(ItemsOf(r), LastTable(r), h) /\ e = Only(ItemsOf(r), With({"noop"}))
  OBVIOUS
<1>6. a \in Seq(DOMAIN stream) /\ e \in Seq(DOMAIN stream)
  BY <1>5, OnlyType DEF Keyed
<1>7. PICK x, y : x = Answers(h, a) /\ y = Answers(h, e)
  OBVIOUS
<1>8. x \in Seq(Units)
  BY <1>6, <1>7, AnswersWhole DEF WholeSeqs
<1>9. [n \in DOMAIN <<h>> |-> Answers(<<h>>[n], Keyed(ItemsOf(r), LastTable(r), <<h>>[n]))] = <<x>>
  BY <1>5, <1>7
<1>10. FlattenSeq(<<x>>) = x
  BY <1>8, FlattenFew
<1>11. <<h>> # << >> /\ Last(<<h>>) = h
  BY DEF Last
<1>12. Expected(r) = x \o y
  BY <1>4, <1>5, <1>7, <1>9, <1>10, <1>11 DEF ExpectedFrom
<1>13. Answers(h, a \o e) = x \o y
  BY <1>6, <1>7, AnswersConcat
<1> QED
  BY <1>5, <1>12, <1>13

\* The round whose answers make the response.
LastRound(K, r) == IF HostsOf(K, r, 2) = {} THEN 1 ELSE 2

\* What is expected, from what is known of the request.
LEMMA KnownExpected ==
    ASSUME StreamOK, NEW K, IsKnown(K), NEW r \in Nat, NEW b, b = LastRound(K, r)
    PROVE  /\ HostsOf(K, r, b) \ Dead = {} => K.expected[r] = << >>
           /\ r \in K.complete =>
                 \A h \in Hosts : HostsOf(K, r, b) \ Dead = {h} => K.expected[r] = AnswersAt(K, r, b, h)
<1>1. PICK L : L = ItemsOf(r)
  OBVIOUS
<1>2. /\ GroupAt(K, r, 1) = createReqGroup(L) /\ GroupAt(K, r, 2) = createSyncGroup(L)
      /\ HostsOf(K, r, 1) = MainHosts(r) /\ HostsOf(K, r, 2) = SyncHosts(r)
      /\ K.expected[r] = Expected(r)
  BY <1>1, KnownParts
<1>3. HostsOf(K, r, b) = LastHosts(r)
  BY <1>2 DEF LastRound, LastHosts
<1>4. HostsOf(K, r, b) \ Dead = {} => K.expected[r] = << >>
  BY <1>2, <1>3, ExpectedNone
<1>5. ASSUME r \in K.complete, NEW h \in Hosts, HostsOf(K, r, b) \ Dead = {h}
      PROVE  K.expected[r] = AnswersAt(K, r, b, h)
  <2>1. L \in Seq(DOMAIN stream) /\ Complete(L)
    BY <1>1, <1>5, KnownParts
  <2>2. PICK a, e : a = Keyed(L, LastTable(r), h) /\ e = Only(L, With({"noop"}))
    OBVIOUS
  <2>3. Expected(r) = Answers(h, a \o e)
    BY <1>1, <1>3, <1>5, <2>1, <2>2, ExpectedOne
  <2>4. h \in HostsOf(K, r, b)
    BY <1>5
  <2>5. AnswersAt(K, r, b, h) = Answers(h, CREATE_REQ(GroupAt(K, r, b)[h]))
    <3>1. b \in {1, 2}
      BY DEF LastRound
    <3> QED
      BY <3>1, KnownParts
  <2>6. CASE HostsOf(K, r, 2) = {}
    <3>1. b = 1 /\ LastTable(r) = Owner
      BY <1>2, <2>6 DEF LastRound, LastTable
    <3>2. h \in DOMAIN createReqGroup(L)
      BY <1>2, <2>4, <3>1 DEF HostsOf
    <3>3. CREATE_REQ(createReqGroup(L)[h]) = a \o e
      BY <2>1, <2>2, <3>1, <3>2, ReqGroupAsks
    <3> QED
      BY <1>2, <2>3, <2>5, <3>1, <3>3
  <2>7. CASE HostsOf(K, r, 2) # {}
    <3>1. b = 2 /\ LastTable(r) = Backup
      BY <1>2, <2>7 DEF LastRound, LastTable
    <3>2. h \in DOMAIN createSyncGroup(L)
      BY <1>2, <2>4, <3>1 DEF HostsOf
    <3>3. CREATE_REQ(createSyncGroup(L)[h]) = a /\ e = << >>
      BY <2>1, <2>2, <3>1, <3>2, SyncGroupAsks
    <3>4. a \in Seq(DOMAIN stream)
      BY <2>1, <2>2, OnlyType DEF Keyed
    <3>5. a \o << >> = a
      BY <3>4, ConcatEmptySeq
    <3> QED
      BY <1>2, <2>3, <2>5, <3>1, <3>3, <3>5
  <2> QED
    BY <2>6, <2>7
<1> QED
  BY <1>4, <1>5

\* OneAnswers, for the hosts that K knows.
Sole(K) == \A r \in Nat : \A g, h \in HostsOf(K, r, 1) \ Dead : g = h

\* At most one host answers in a round of a complete request.
LEMMA OneLiving ==
    ASSUME StreamOK, NEW K, IsKnown(K), Sole(K), NEW c \in Nat, c \in K.complete, NEW b \in {1, 2}
    PROVE  \A g, h \in HostsOf(K, c, b) \ Dead : g = h
<1>1. \A g, h \in HostsOf(K, c, 2) : g = h
  BY KnownHosts
<1>2. \A g, h \in HostsOf(K, c, 1) \ Dead : g = h
  BY DEF Sole
<1>3. CASE b = 1
  BY <1>2, <1>3
<1>4. CASE b = 2
  BY <1>1, <1>4
<1> QED
  BY <1>3, <1>4

\* What is written for the current request is what is expected for it.
LEMMA ReplyExpected ==
    ASSUME TypeInv, NEW K, ResponseInv(K), NEW x, x = K.expected[Current],
           replies' = Append(replies, x)
    PROVE  \A r \in 1 .. Len(replies') : replies'[r] = K.expected[r]
<1>1. PICK m \in Nat : m = Len(replies)
  BY StateTypes
<1>2. /\ Len(replies') = m + 1 /\ Current = m + 1 /\ replies'[m + 1] = x
      /\ \A r \in 1 .. m : replies'[r] = replies[r]
  BY <1>1, Replied DEF Current
<1>3. \A r \in 1 .. m : replies[r] = K.expected[r]
  BY <1>1 DEF ResponseInv
<1> SUFFICES ASSUME NEW r \in 1 .. (m + 1)
             PROVE  replies'[r] = K.expected[r]
  BY <1>2
<1>4. CASE r = m + 1
  BY <1>2, <1>4
<1>5. CASE r # m + 1
  <2>1. r \in 1 .. m
    BY <1>5
  <2> QED
    BY <1>2, <1>3, <2>1
<1> QED
  BY <1>4, <1>5

\* Nothing is served.
LEMMA ResponseIdle ==
    ASSUME NEW K, ~ Serving', \A r \in 1 .. Len(replies') : replies'[r] = K.expected[r]
    PROVE  ResponseInv(K)'
<1>1. ~ Heard' /\ pc' # "reply"
  BY DEF Serving, Heard
<1> QED
  BY <1>1 DEF ResponseInv

\* Bytes arrive.
LEMMA ResponseArrive ==
    ASSUME NEW K, ResponseInv(K), Arrive
    PROVE  ResponseInv(K)'
<1>1. ~ Serving' /\ replies' = replies
  BY DEF Arrive, Serving
<1>2. \A r \in 1 .. Len(replies') : replies'[r] = K.expected[r]
  BY <1>1 DEF ResponseInv
<1> QED
  BY <1>1, <1>2, ResponseIdle

\* A round begins.
LEMMA ResponseBegin ==
    ASSUME NEW K, ResponseInv(K), pc' = "talk", Done(K)' = {}, replies' = replies
    PROVE  ResponseInv(K)'
<1>1. ~ Heard'
  BY DEF Heard
<1>2. \A r \in 1 .. Len(replies') : replies'[r] = K.expected[r]
  BY DEF ResponseInv
<1> QED
  BY <1>1, <1>2 DEF ResponseInv

\* readEvent: a refused request gets no response, and none is expected.
LEMMA ResponseReadEvent ==
    ASSUME TypeInv, NEW K, IsKnown(K), ReadInv(K), ResponseInv(K), ReadEvent
    PROVE  ResponseInv(K)'
<1>1. ReadAgain \/ ReadIgnored \/ ReadRefused(K) \/ ReadFound(K)
  BY ReadOutcome
<1>2. CASE ReadAgain \/ ReadIgnored
  <2>1. ~ Serving' /\ replies' = replies
    BY <1>2 DEF ReadAgain, ReadIgnored, Serving
  <2>2. \A r \in 1 .. Len(replies') : replies'[r] = K.expected[r]
    BY <2>1 DEF ResponseInv
  <2> QED
    BY <2>1, <2>2, ResponseIdle
<1>3. CASE ReadRefused(K)
  <2>1. ~ Serving' /\ replies' = Append(replies, << >>)
        /\ HostsOf(K, Current, 1) = {} /\ HostsOf(K, Current, 2) = {}
    BY <1>3 DEF ReadRefused, Serving
  <2>2. PICK c \in Nat : c = Current
    BY StateTypes
  <2>3. K.expected[c] = << >>
    <3>1. PICK b : b = LastRound(K, c)
      OBVIOUS
    <3>2. HostsOf(K, c, b) \ Dead = {}
      BY <2>1, <2>2, <3>1 DEF LastRound
    <3>3. StreamOK
      BY StateTypes
    <3> QED
      BY <3>1, <3>2, <3>3, KnownExpected
  <2>4. \A r \in 1 .. Len(replies') : replies'[r] = K.expected[r]
    BY <2>1, <2>2, <2>3, ReplyExpected
  <2> QED
    BY <2>1, <2>4, ResponseIdle
<1>4. CASE ReadFound(K)
  <2>1. PICK c : c = Current
    OBVIOUS
  <2>2. /\ pc' = "talk" /\ replies' = replies /\ Current' = c
        /\ req_group' = GroupAt(K, c, 1) /\ sync_group' = GroupAt(K, c, 2)
    BY <1>4, <2>1 DEF ReadFound, Current
  <2>3. DOMAIN req_group' = HostsOf(K, c, 1) /\ DOMAIN sync_group' = HostsOf(K, c, 2)
    BY <2>2 DEF HostsOf
  <2>4. Round(K)' = 1
    BY <2>2, <2>3 DEF Round
  <2>5. Done(K)' = {}
    BY <2>2, <2>3, <2>4 DEF Done
  <2> QED
    BY <2>2, <2>5, ResponseBegin
<1> QED
  BY <1>1, <1>2, <1>3, <1>4

\* Where the worker is in a complete request.
LEMMA ServedRequest ==
    ASSUME TypeInv, NEW K, IsKnown(K), Sole(K), TalkInv(K), Serving
    PROVE  /\ Current \in Nat /\ Current \in K.complete /\ Round(K) \in {1, 2}
           /\ \A g, h \in HostsOf(K, Current, Round(K)) \ Dead : g = h
           /\ DOMAIN req_group \subseteq HostsOf(K, Current, Round(K))
<1>1. PICK c, b : c = Current /\ b = Round(K)
  OBVIOUS
<1>2. c \in Nat /\ c \in K.complete /\ b \in {1, 2} /\ StreamOK
      /\ DOMAIN req_group \subseteq HostsOf(K, c, b)
  BY <1>1, StateTypes DEF TalkInv, GroupInv, Round
<1>3. \A g, h \in HostsOf(K, c, b) \ Dead : g = h
  BY ONLY <1>2, IsKnown(K), Sole(K), OneLiving
<1> QED
  BY <1>1, <1>2, <1>3

\* A living host is asked: nobody has answered before it.
LEMMA ResponseForward ==
    ASSUME TypeInv, NEW K, IsKnown(K), Sole(K), TalkInv(K), ResponseInv(K), Forward
    PROVE  ResponseInv(K)'
<1>1. /\ pc = "talk" /\ pc' = "recv" /\ DOMAIN req_group # {}
      /\ UNCHANGED <<req_group, sync_group, replies, resp_list, resp_buf>>
      /\ position' = 0
  BY DEF Forward
<1>2. /\ Host' = Host /\ Current' = Current /\ Round(K)' = Round(K) /\ Done(K)' = Done(K)
      /\ Serving /\ Serving'
  BY <1>1, SameGroups DEF TalkInv
<1>3. Host \in DOMAIN req_group
  BY <1>1, StateTypes, HostLeast
<1>4. ~ Heard
  BY <1>1 DEF Heard
<1>5. ASSUME Heard'
      PROVE  Tiles(resp_list', 0, position') /\ \A k \in DOMAIN resp_list' : ~ resp_list'[k].end
  <2>1. Host \notin Dead
    BY <1>2, <1>5 DEF Heard
  <2>2. PICK S : S = HostsOf(K, Current, Round(K))
    OBVIOUS
  <2>3. Host \in S /\ \A g, h \in S \ Dead : g = h
    BY <1>2, <1>3, <2>2, ServedRequest
  <2>4. Done(K) \subseteq Dead
    BY <1>3, <2>1, <2>2, <2>3 DEF Done
  <2>5. resp_list = << >>
    BY <1>1, <1>2, <1>4, <2>4 DEF TalkInv, ListInv
  <2> QED
    BY <1>1, <2>5 DEF Tiles
<1>6. \A F : Collected(F)' <=> Collected(F)
  BY <1>1 DEF Collected
<1>7. ASSUME NEW h \in Done(K)' \ Dead
      PROVE  Collected(AnswersAt(K, Current, Round(K), h))'
  BY <1>1, <1>2, <1>4, <1>6, <1>7 DEF ResponseInv
<1>8. \A r \in 1 .. Len(replies') : replies'[r] = K.expected[r]
  BY <1>1 DEF ResponseInv
<1> QED
  BY <1>1, <1>5, <1>7, <1>8 DEF ResponseInv

\* Answers are received.
LEMMA ResponseRecv ==
    ASSUME torn = 0, torn' = 0, TypeInv, NEW K, IsKnown(K), Sole(K), TalkInv(K), ResponseInv(K), Recv
    PROVE  ResponseInv(K)'
<1>1. PICK F : F = AnswersAt(K, Current, Round(K), Host)
  OBVIOUS
<1>2. /\ pc = "recv" /\ Host \in DOMAIN req_group /\ Host \in Hosts /\ Host \notin Dead
      /\ UNCHANGED <<sync_group, client_buf, replies>>
      /\ \E items \in Seq(AnyItem) :
           /\ resp_list' = resp_list \o items
           /\ RecvMore(F, items, K.text) \/ RecvAll(F, items)
  BY <1>1, RecvOutcome DEF TalkInv
<1>3. PICK items \in Seq(AnyItem) : /\ resp_list' = resp_list \o items
                                    /\ RecvMore(F, items, K.text) \/ RecvAll(F, items)
  BY <1>2
<1>4. Serving /\ Heard
  BY <1>2 DEF Serving, Heard
<1>5. PICK l, I, p : l = resp_list /\ I = AnyItem /\ p = position
  OBVIOUS
<1>6. l \in Seq(I) /\ items \in Seq(I) /\ Tiles(l, 0, p) /\ \A k \in DOMAIN l : ~ l[k].end
  BY <1>4, <1>5, StateTypes DEF ResponseInv
<1>7. resp_list' = l \o items
  BY <1>3, <1>5
<1>8. \A r \in 1 .. Len(replies') : replies'[r] = K.expected[r]
  BY <1>2 DEF ResponseInv
<1>9. CASE RecvMore(F, items, K.text)
  <2>1. Tiles(items, p, position') /\ \A k \in DOMAIN items : ~ items[k].end
    BY <1>5, <1>9 DEF RecvMore
  <2>2. pc' = "recv" /\ UNCHANGED req_group
    BY <1>2, <1>9 DEF RecvMore
  <2>3. Host' = Host
    BY <2>2 DEF Host
  <2>4. Heard'
    BY <1>2, <2>2, <2>3 DEF Heard
  <2>5. PICK q : q = position'
    OBVIOUS
  <2>6. Tiles(l \o items, 0, q)
    <3>1. Tiles(items, p, q)
      BY <2>1, <2>5
    <3>2. PICK z : z = 0
      OBVIOUS
    <3>3. Tiles(l, z, p)
      BY <1>6, <3>2
    <3>4. Tiles(l \o items, z, q)
      BY ONLY <1>6, <3>1, <3>3, TilesConcat
    <3> QED
      BY <3>2, <3>4
  <2>7. \A k \in DOMAIN (l \o items) : ~ (l \o items)[k].end
    <3>1. EndLast(items)
      BY <2>1 DEF EndLast
    <3> QED
      BY <1>6, <2>1, <3>1, EndConcat
  <2> QED
    BY <1>7, <1>8, <2>2, <2>4, <2>5, <2>6, <2>7 DEF ResponseInv
<1>10. CASE RecvAll(F, items)
  <2>1. /\ Tiles(items, p, Len(F)) /\ EndLast(items)
        /\ Len(F) <= Len(resp_buf') /\ SubSeq(resp_buf', 1, Len(F)) = F
        /\ NextHost
    BY <1>5, <1>10 DEF RecvAll
  <2>2. Tiles(l \o items, 0, Len(F))
    <3>1. PICK z, q : z = 0 /\ q = Len(F)
      OBVIOUS
    <3>2. Tiles(l, z, p) /\ Tiles(items, p, q)
      BY <1>6, <2>1, <3>1
    <3>3. Tiles(l \o items, z, q)
      BY ONLY <1>6, <3>2, TilesConcat
    <3> QED
      BY <3>1, <3>3
  <2>3. EndLast(l \o items)
    BY <1>6, <2>1, EndConcat
  <2>4. Collected(F)'
    BY <1>7, <2>1, <2>2, <2>3 DEF Collected
  <2>5. /\ Host \notin Done(K) /\ Current' = Current /\ Round(K)' = Round(K)
        /\ Done(K)' = Done(K) \cup {Host} /\ pc' = "talk"
    BY <1>2, <2>1, HostDone DEF TalkInv
  <2>6. ~ Heard'
    BY <2>5 DEF Heard
  <2>7. ASSUME NEW h \in Done(K)' \ Dead
        PROVE  Collected(AnswersAt(K, Current, Round(K), h))'
    <3>1. PICK S : S = HostsOf(K, Current, Round(K))
      OBVIOUS
    <3>2. Host \in S /\ \A g, d \in S \ Dead : g = d
      BY <1>2, <1>4, <3>1, ServedRequest
    <3>3. h \in S
      BY <2>5, <2>7, <3>1, <3>2 DEF Done
    <3>4. h = Host
      BY <1>2, <2>7, <3>2, <3>3
    <3>5. AnswersAt(K, Current', Round(K)', h) = F
      BY <1>1, <2>5, <3>4
    <3> QED
      BY <2>4, <3>5
  <2> QED
    BY <1>8, <2>5, <2>6, <2>7 DEF ResponseInv
<1> QED
  BY <1>3, <1>9, <1>10

\* A silent host adds nothing.
LEMMA ResponseRecvTimeout ==
    ASSUME TypeInv, NEW K, IsKnown(K), TalkInv(K), ResponseInv(K), RecvTimeout
    PROVE  ResponseInv(K)'
<1>1. pc = "recv" /\ NextHost /\ UNCHANGED <<resp_list, resp_buf, sync_group, replies>>
  BY DEF RecvTimeout
<1>2. Host \in Dead /\ ~ Heard /\ ~ Heard'
  BY TalkRecvTimeout
<1>3. /\ Current' = Current /\ Round(K)' = Round(K) /\ Done(K)' = Done(K) \cup {Host} /\ pc' = "talk"
  BY <1>1, HostDone DEF TalkInv
<1>4. \A F : Collected(F)' <=> Collected(F)
  BY <1>1 DEF Collected
<1>5. ASSUME NEW h \in Done(K)' \ Dead
      PROVE  Collected(AnswersAt(K, Current, Round(K), h))'
  <2>1. h \in Done(K) \ Dead
    BY <1>2, <1>3
  <2>2. Collected(AnswersAt(K, Current, Round(K), h))
    BY <1>1, <1>2, <2>1 DEF ResponseInv, Serving
  <2> QED
    BY <1>3, <1>4, <2>2
<1>6. \A r \in 1 .. Len(replies') : replies'[r] = K.expected[r]
  BY <1>1 DEF ResponseInv
<1> QED
  BY <1>2, <1>3, <1>5, <1>6 DEF ResponseInv

\* A round ends: the response of the last one is what is expected.
LEMMA ResponseEndTalk ==
    ASSUME torn = 0, TypeInv, NEW K, IsKnown(K), Sole(K), TalkInv(K), ResponseInv(K), EndTalk
    PROVE  ResponseInv(K)'
<1>1. /\ pc = "talk" /\ DOMAIN req_group = {} /\ client_buf' = CREATE_RESP
      /\ pc' = IF DOMAIN sync_group = {} THEN "reply" ELSE "talk"
      /\ UNCHANGED replies
  BY DEF EndTalk
<1>2. CASE DOMAIN sync_group # {}
  <2>1. pc' = "talk" /\ replies' = replies
    BY <1>1, <1>2
  <2>2. Done(K)' = {}
    BY <2>1, TalkEndTalk
  <2> QED
    BY <2>1, <2>2, ResponseBegin
<1>3. CASE DOMAIN sync_group = {}
  <2>1. pc' = "reply" /\ Current' = Current /\ Serving /\ ~ Heard /\ ~ Heard'
    BY <1>1, <1>3 DEF Current, Serving, Heard
  <2>2. PICK c, b, S : c = Current /\ b = Round(K) /\ S = HostsOf(K, c, b)
    OBVIOUS
  <2>3. c \in Nat /\ c \in K.complete /\ StreamOK /\ S \subseteq Hosts
        /\ \A g, h \in S \ Dead : g = h
    <3>1. c \in Nat /\ c \in K.complete /\ b \in {1, 2} /\ \A g, h \in S \ Dead : g = h
      BY <2>1, <2>2, ServedRequest
    <3>2. StreamOK
      BY StateTypes
    <3>3. S \subseteq Hosts
      BY <2>2, <3>1, <3>2, KnownHosts
    <3> QED
      BY <3>1, <3>2, <3>3
  <2>4. b = LastRound(K, c)
    BY <1>3, <2>2 DEF Round, LastRound
  <2>5. Done(K) = S
    BY <1>1, <2>2 DEF Done
  <2>6. CREATE_RESP = K.expected[c]
    <3>1. CASE S \subseteq Dead
      <4>1. resp_list = << >>
        BY <1>1, <2>1, <2>5, <3>1 DEF TalkInv, ListInv
      <4>2. CREATE_RESP = << >>
        BY <4>1, CopyCollected
      <4>3. HostsOf(K, c, b) \ Dead = {}
        BY <2>2, <3>1
      <4>4. K.expected[c] = << >>
        BY <2>3, <2>4, <4>3, KnownExpected
      <4> QED
        BY <4>2, <4>4
    <3>2. CASE ~ (S \subseteq Dead)
      <4>1. PICK h \in S \ Dead : TRUE
        BY <3>2
      <4>2. HostsOf(K, c, b) \ Dead = {h} /\ h \in Hosts
        BY <2>2, <2>3, <4>1
      <4>3. Collected(AnswersAt(K, c, b, h))
        BY <1>1, <2>1, <2>2, <2>5, <4>1 DEF ResponseInv
      <4>4. CREATE_RESP = AnswersAt(K, c, b, h)
        BY <4>3, CopyCollected
      <4>5. K.expected[c] = AnswersAt(K, c, b, h)
        BY <2>3, <2>4, <4>2, KnownExpected
      <4> QED
        BY <4>4, <4>5
    <3> QED
      BY <3>1, <3>2
  <2>7. client_buf' = K.expected[Current']
    BY <1>1, <2>1, <2>2, <2>6
  <2>8. \A r \in 1 .. Len(replies') : replies'[r] = K.expected[r]
    BY <1>1 DEF ResponseInv
  <2> QED
    BY <2>1, <2>7, <2>8 DEF ResponseInv
<1> QED
  BY <1>2, <1>3

\* Every step keeps the invariant about the responses.
LEMMA ResponseNext ==
    ASSUME torn = 0, torn' = 0, TypeInv,
           NEW K, IsKnown(K), Sole(K), ReadInv(K), TalkInv(K), ResponseInv(K),
           [Next]_vars
    PROVE  ResponseInv(K)'
<1>1. CASE Arrive
  BY <1>1, ResponseArrive
<1>2. CASE ReadEvent
  BY <1>2, ResponseReadEvent
<1>3. CASE Forward
  BY <1>3, ResponseForward
<1>4. CASE Recv
  BY <1>4, ResponseRecv
<1>9. CASE RecvCut
  BY <1>9, CutTorn
<1>5. CASE RecvTimeout
  BY <1>5, ResponseRecvTimeout
<1>6. CASE EndTalk
  BY <1>6, ResponseEndTalk
<1>7. CASE Reply
  <2>1. pc = "reply" /\ ~ Serving' /\ replies' = Append(replies, client_buf)
    BY <1>7 DEF Reply, Serving
  <2>2. client_buf = K.expected[Current]
    BY <2>1 DEF ResponseInv
  <2>3. \A r \in 1 .. Len(replies') : replies'[r] = K.expected[r]
    BY <2>1, <2>2, ReplyExpected
  <2> QED
    BY <2>1, <2>3, ResponseIdle
<1>8. CASE Idle \/ UNCHANGED vars
  <2>1. UNCHANGED vars
    BY <1>8 DEF Idle
  <2>2. Host' = Host /\ Current' = Current /\ Round(K)' = Round(K) /\ Done(K)' = Done(K)
        /\ (Serving' <=> Serving) /\ (Heard' <=> Heard)
    BY <2>1 DEF vars, Host, Current, Round, Done, Serving, Heard
  <2>3. \A F : Collected(F)' <=> Collected(F)
    BY <2>1 DEF vars, Collected
  <2> QED
    BY <2>1, <2>2, <2>3 DEF ResponseInv, vars
<1> QED
  BY <1>1, <1>2, <1>3, <1>4, <1>5, <1>6, <1>7, <1>8, <1>9 DEF Next

\* The inductive invariant of the responses.
ResponseInductive == \E K : IsKnown(K) /\ Sole(K) /\ ReadInv(K) /\ TalkInv(K) /\ ResponseInv(K)

\* A client that waits for its responses gets for each request exactly the
\* answers of the host that is alive, whole, unaltered and for this request
\* (the path from PARSE_REQ to CREATE_RESP, with resp_buf used again for every
\* host), or of the backup for a write with the sync prefix: for any stream,
\* hosts and keys, and up to the first answer that is torn, when no request of
\* the stream has two hosts that answer.
THEOREM ResponsesCorrect == Spec /\ OneAnswers => []ResponsesRight
<1> DEFINE Inv == (torn = 0 => ResponseInductive) /\ ResponsesRight
<1>1. Init /\ OneAnswers => Inv
  <2> SUFFICES ASSUME Init, OneAnswers
               PROVE  Inv
    OBVIOUS
  <2>1. PICK K : IsKnown(K)
    BY DEF IsKnown
  <2>2. ReadInv(K) /\ TalkInv(K)
    BY <2>1, TalkInit
  <2>3. Sole(K)
    <3>1. \A r \in Nat : HostsOf(K, r, 1) = MainHosts(r)
      BY <2>1, KnownParts
    <3> QED
      BY <3>1 DEF Sole, OneAnswers
  <2>4. ~ Serving /\ ~ Heard /\ pc # "reply" /\ Len(replies) = 0
    BY DEF Init, Serving, Heard
  <2>5. ResponseInv(K)
    BY <2>4 DEF ResponseInv
  <2>6. ResponsesRight
    BY <2>4 DEF ResponsesRight
  <2> QED
    BY <2>1, <2>2, <2>3, <2>5, <2>6 DEF ResponseInductive
<1>2. ASSUME TypeInv, ResponseInductive, [Next]_vars, torn = 0, torn' = 0
      PROVE  ResponseInductive'
  <2>1. PICK K : IsKnown(K) /\ Sole(K) /\ ReadInv(K) /\ TalkInv(K) /\ ResponseInv(K)
    BY <1>2 DEF ResponseInductive
  <2>2. IsKnown(K)'
    BY <1>2, <2>1, StreamStays, KnownStays
  <2>3. ReadInv(K)'
    BY <1>2, <2>1, ReadStep
  <2>4. TalkInv(K)'
    BY <1>2, <2>1, TalkNext
  <2>5. ResponseInv(K)'
    BY <1>2, <2>1, ResponseNext
  <2>6. Sole(K)'
    BY <2>1 DEF Sole, HostsOf, GroupAt
  <2> QED
    BY <2>2, <2>3, <2>4, <2>5, <2>6 DEF ResponseInductive
<1>3. TypeInv /\ Inv /\ [Next]_vars => Inv'
  <2> SUFFICES ASSUME TypeInv, Inv, [Next]_vars
               PROVE  Inv'
    OBVIOUS
  <2>1. /\ torn' = torn \/ (torn = 0 /\ torn' = Len(replies) + 1 /\ replies' = replies)
        /\ Len(replies) \in Nat /\ torn \in 0 .. (Len(replies) + 1)
        /\ \A r \in 1 .. Len(replies) : replies'[r] = replies[r]
    BY TornStays
  <2>2. torn' = 0 => ResponseInductive'
    <3> SUFFICES ASSUME torn' = 0
                 PROVE  ResponseInductive'
      OBVIOUS
    <3>1. torn = 0
      BY <2>1
    <3> QED
      BY <1>2, <3>1
  <2>3. PICK K : IsKnown(K)
    BY DEF IsKnown
  <2>4. IsKnown(K)'
    BY <2>3, StreamStays, KnownStays
  <2>5. K.expected = [r \in Nat |-> Expected(r)] /\ K.expected = [r \in Nat |-> Expected(r)']
    BY <2>3, <2>4 DEF IsKnown, Known
  <2>6. CASE torn' = 0
    <3>1. PICK L : IsKnown(L)' /\ ResponseInv(L)'
      BY <2>2, <2>6 DEF ResponseInductive
    <3>2. L = K
      BY <2>4, <3>1 DEF IsKnown
    <3>3. \A r \in 1 .. Len(replies') : replies'[r] = K.expected[r]
      BY <3>1, <3>2 DEF ResponseInv
    <3>4. \A r \in 1 .. Len(replies') : r \in Nat /\ K.expected[r] = Expected(r)'
      BY <2>5
    <3>5. ResponsesRight'
      BY <3>3, <3>4 DEF ResponsesRight
    <3> QED
      BY <2>2, <3>5
  <2>7. CASE torn' # 0
    <3> SUFFICES ASSUME NEW r \in 1 .. Len(replies'), r < torn'
                 PROVE  replies'[r] = Expected(r)'
      BY <2>2, <2>7 DEF ResponsesRight
    <3>1. r \in Nat /\ r \in 1 .. Len(replies) /\ (torn = 0 \/ r < torn)
      BY <2>1, <2>7
    <3>2. replies[r] = Expected(r)
      BY <3>1 DEF ResponsesRight
    <3>3. Expected(r) = Expected(r)'
      BY <2>5, <3>1
    <3> QED
      BY <2>1, <3>1, <3>2, <3>3
  <2> QED
    BY <2>6, <2>7
<1> QED
  BY <1>1, <1>3, InitShape, NextShape, PTL DEF Spec
=============================================================================

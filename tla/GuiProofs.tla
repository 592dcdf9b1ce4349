----------------------------- MODULE GuiProofs -----------------------------
(***************************************************************************)
(* What holds of the link between the server and the LVGL agent, and of    *)
(* the agent's screen, for every number of threads, connections and slots, *)
(* every size of a buffer and every blink interval.                        *)
(***************************************************************************)
EXTENDS GuiLink, AgentScreen, FiniteSetTheorems, FunctionTheorems, SequenceTheorems, TLAPS

---------------------------------------------------------------------------
(* Ranks in a set of numbers, and the ends of a sequence.                  *)

\* The elements of a finite set of numbers have the ranks 0, 1, ... in it.
LEMMA Ranks ==
    ASSUME NEW S \in SUBSET Nat, IsFiniteSet(S), NEW r \in Nat, r < Cardinality(S)
    PROVE  \E i \in S : Cardinality({j \in S : j < i}) = r
<1> DEFINE Below(i) == {j \in S : j < i}
           n == Cardinality(S)
           rank == [i \in S |-> Cardinality(Below(i))]
<1>1. n \in Nat
    BY FS_CardinalityType
<1>2. ASSUME NEW i \in S
      PROVE  IsFiniteSet(Below(i)) /\ Cardinality(Below(i)) \in 0..(n - 1)
  <2>1. Below(i) \in SUBSET S /\ Below(i) # S
      OBVIOUS
  <2>2. IsFiniteSet(Below(i)) /\ Cardinality(Below(i)) <= n /\ n # Cardinality(Below(i))
      BY <2>1, FS_Subset
  <2>3. Cardinality(Below(i)) \in Nat
      BY <2>2, FS_CardinalityType
  <2> HIDE DEF Below, n
  <2> QED BY <1>1, <2>2, <2>3
<1>3. ASSUME NEW i \in S, NEW k \in S, i < k
      PROVE  rank[i] # rank[k]
  <2>1. Below(i) \in SUBSET Below(k) /\ Below(i) # Below(k)
    <3>1. \A j \in S : j < i => j < k
        BY <1>3
    <3>2. Below(i) \subseteq Below(k)
        BY <3>1
    <3>3. i \in Below(k) /\ i \notin Below(i)
        BY <1>3
    <3> HIDE DEF Below
    <3> QED BY <3>2, <3>3
  <2>2. IsFiniteSet(Below(k))
      BY <1>2
  <2>3. Cardinality(Below(k)) # Cardinality(Below(i))
    <3> HIDE DEF Below
    <3> QED BY <2>1, <2>2, FS_Subset
  <2> HIDE DEF Below
  <2> QED BY <2>3
<1>4. rank \in Injection(S, 0..(n - 1))
  <2>1. rank \in [S -> 0..(n - 1)]
    <3> HIDE DEF Below, n
    <3> QED BY <1>2
  <2>2. ASSUME NEW i \in S, NEW k \in S, rank[i] = rank[k]
        PROVE  i = k
    <3> HIDE DEF rank
    <3> QED BY <1>3, <2>2
  <2> HIDE DEF rank
  <2> QED BY <2>1, <2>2, Fun_IsInj
<1>5. IsFiniteSet(0..(n - 1)) /\ Cardinality(0..(n - 1)) = n
  <2>1. n - 1 \in Int /\ 0 \in Int
      BY <1>1
  <2> HIDE DEF n
  <2> QED BY <1>1, <2>1, FS_Interval
<1>6. rank \in Surjection(S, 0..(n - 1))
  <2> HIDE DEF rank
  <2> QED BY <1>4, <1>5, FS_Injection
<1>7. PICK i \in S : rank[i] = r
  <2>1. r \in 0..(n - 1)
      BY <1>1
  <2> HIDE DEF rank, n
  <2> QED BY <1>6, <2>1 DEF Surjection
<1> QED BY <1>7

\* A finite set of numbers has a first and a last element.
LEMMA Extremes ==
    ASSUME NEW S \in SUBSET Nat, IsFiniteSet(S), S # {}
    PROVE  /\ \E i \in S : \A j \in S : i <= j
           /\ \E i \in S : \A j \in S : j <= i
<1> DEFINE Below(i) == {j \in S : j < i}
           n == Cardinality(S)
<1>1. n \in Nat /\ n > 0
  <2>1. n \in Nat /\ n # 0
    BY FS_CardinalityType, FS_EmptySet
  <2> HIDE DEF n
  <2> QED BY <2>1
<1>2. ASSUME NEW i \in S
      PROVE  IsFiniteSet(Below(i)) /\ Below(i) \in SUBSET (S \ {i})
    BY FS_Subset
<1>3. \E i \in S : \A j \in S : i <= j
  <2>1. PICK i \in S : Cardinality(Below(i)) = 0
      BY <1>1, Ranks
  <2>2. Below(i) = {}
    <3>1. IsFiniteSet(Below(i))
        BY <1>2
    <3> HIDE DEF Below
    <3> QED BY <2>1, <3>1, FS_EmptySet
  <2>3. \A j \in S : ~(j < i)
      BY <2>2
  <2>4. \A j \in S : j \in Nat /\ i \in Nat
      OBVIOUS
  <2> QED BY <2>3, <2>4
<1>4. \E i \in S : \A j \in S : j <= i
  <2>1. n - 1 \in Nat /\ n - 1 < n
      BY <1>1
  <2>2. PICK i \in S : Cardinality(Below(i)) = n - 1
      BY <2>1, Ranks
  <2>3. IsFiniteSet(S \ {i}) /\ Cardinality(S \ {i}) = n - 1
      BY FS_RemoveElement
  <2>4. Below(i) = S \ {i}
    <3>1. Below(i) \in SUBSET (S \ {i})
        BY <1>2
    <3> HIDE DEF Below, n
    <3> QED BY <2>2, <2>3, <3>1, FS_Subset
  <2>5. \A j \in S : j # i => j < i
      BY <2>4
  <2>6. \A j \in S : j \in Nat /\ i \in Nat
      OBVIOUS
  <2> QED BY <2>5, <2>6
<1> QED BY <1>3, <1>4

\* The places where a line ends are such a set.
LEMMA Places ==
    ASSUME NEW n \in Nat, NEW S \in SUBSET (1..n)
    PROVE  S \in SUBSET Nat /\ IsFiniteSet(S)
<1>1. IsFiniteSet(1..n)
    BY FS_Interval
<1>2. IsFiniteSet(S)
    BY <1>1, FS_Subset
<1>3. S \in SUBSET Nat
    OBVIOUS
<1> QED BY <1>2, <1>3

---------------------------------------------------------------------------
(* The events in the reader's buffer.                                      *)

Whole(s) == {i \in DOMAIN s : s[i] > 0 /\ (i > 1 => s[i - 1] # Half)}

\* What a recv leaves in the reader's buffer are lines of what was there and came, in the
\* same order, and a half line at most at the end.
LEMMA EventsAre ==
    ASSUME NEW s \in Seq(Int)
    PROVE  \E n \in Nat : \E pos \in [1..n -> DOMAIN s] :
              /\ \A k \in 1..n : s[pos[k]] > 0
              /\ \A j, k \in 1..n : j < k => pos[j] < pos[k]
              /\ Events(s) = [k \in 1..n |-> s[pos[k]]]
                             \o (IF s # <<>> /\ s[Len(s)] = Half THEN <<Half>> ELSE <<>>)
<1> DEFINE W == Whole(s)
           n == Cardinality(W)
           Rank(i) == Cardinality({j \in W : j < i})
           pos == [k \in 1..n |-> CHOOSE i \in W : Rank(i) = k - 1]
<1>1. W \in SUBSET DOMAIN s /\ W \in SUBSET Nat /\ IsFiniteSet(W) /\ n \in Nat
  <2>1. DOMAIN s = 1..Len(s) /\ Len(s) \in Nat /\ W \in SUBSET (1..Len(s))
      BY DEF Whole
  <2> HIDE DEF W
  <2>2. W \in SUBSET Nat /\ IsFiniteSet(W)
      BY <2>1, Places
  <2> QED BY <2>1, <2>2, FS_CardinalityType
<1>2. ASSUME NEW k \in 1..n
      PROVE  pos[k] \in W /\ Rank(pos[k]) = k - 1
  <2>1. k - 1 \in Nat /\ k - 1 < n
      BY <1>1
  <2>2. \E i \in W : Rank(i) = k - 1
    <3> HIDE DEF W, n
    <3> QED BY <1>1, <2>1, Ranks DEF n
  <2> HIDE DEF W, n, Rank
  <2> QED BY <2>2
<1>3. ASSUME NEW i \in W, NEW j \in W, i <= j
      PROVE  Rank(i) <= Rank(j)
  <2>1. {m \in W : m < i} \in SUBSET {m \in W : m < j}
    <3>1. \A m \in W : m < i => m < j
        BY <1>1, <1>3
    <3> HIDE DEF W
    <3> QED BY <3>1
  <2>2. IsFiniteSet({m \in W : m < j})
    <3> HIDE DEF W
    <3> QED BY <1>1, FS_Subset
  <2> HIDE DEF W
  <2> QED BY <2>1, <2>2, FS_Subset
<1>4. ASSUME NEW j \in 1..n, NEW k \in 1..n, j < k
      PROVE  pos[j] < pos[k]
  <2>1. pos[j] \in W /\ pos[k] \in W /\ Rank(pos[j]) = j - 1 /\ Rank(pos[k]) = k - 1
      BY <1>2
  <2>2. pos[j] \in Nat /\ pos[k] \in Nat
    <3> HIDE DEF W, pos
    <3> QED BY <1>1, <2>1
  <2>3. CASE pos[k] <= pos[j]
    <3>1. Rank(pos[k]) <= Rank(pos[j])
      <4> HIDE DEF W, Rank, pos
      <4> QED BY <1>3, <2>1, <2>3
    <3> HIDE DEF W, Rank, pos, n
    <3> QED BY <1>1, <1>4, <2>1, <3>1
  <2> HIDE DEF W, Rank, pos, n
  <2> QED BY <2>2, <2>3
<1>5. pos \in [1..n -> DOMAIN s] /\ \A k \in 1..n : s[pos[k]] > 0
  <2>1. \A k \in 1..n : pos[k] \in W
      BY <1>2
  <2>2. \A i \in W : i \in DOMAIN s /\ s[i] > 0
      BY DEF Whole
  <2>3. pos \in [1..n -> W]
    <3> HIDE DEF W, n, Rank
    <3> QED BY <2>1
  <2> HIDE DEF W, n, pos
  <2> QED BY <2>1, <2>2, <2>3
<1>6. Events(s) = [k \in 1..n |-> s[pos[k]]]
                  \o (IF s # <<>> /\ s[Len(s)] = Half THEN <<Half>> ELSE <<>>)
  <2>1. [k \in 1..n |-> s[pos[k]]]
           = [k \in 1..n |-> s[CHOOSE i \in W : Cardinality({j \in W : j < i}) = k - 1]]
      OBVIOUS
  <2> HIDE DEF n, pos, Rank
  <2> QED BY <2>1 DEF Events, Whole, n
<1> HIDE DEF n, pos, Rank, W
<1> QED BY <1>1, <1>4, <1>5, <1>6

\* Whole lines, and a half one at most at the end.
Shape(s) == \A k \in DOMAIN s : s[k] > 0 \/ (s[k] = Half /\ k = Len(s))

\* Events gives lines of the same type, a half one at most at the end.
LEMMA EventsType ==
    ASSUME NEW s \in Seq(Half..MaxClicks)
    PROVE  Events(s) \in Seq(Half..MaxClicks) /\ Shape(Events(s))
<1> DEFINE Lines == Half..MaxClicks
           tail == IF s # <<>> /\ s[Len(s)] = Half THEN <<Half>> ELSE <<>>
<1>1. Half \in Lines /\ Half \in Int /\ Lines \subseteq Int
    BY BoundsNat DEF Half
<1>2. s \in Seq(Int) /\ \A i \in DOMAIN s : s[i] \in Lines
  <2> HIDE DEF Lines
  <2>1. s \in Seq(Lines)
      BY DEF Lines
  <2>2. s \in Seq(Int)
      BY <1>1, <2>1, SeqMonotonic
  <2>3. \A i \in DOMAIN s : s[i] \in Lines
      BY <2>1
  <2> QED BY <2>2, <2>3
<1>3. PICK n \in Nat : \E pos \in [1..n -> DOMAIN s] :
              /\ \A k \in 1..n : s[pos[k]] > 0
              /\ \A j, k \in 1..n : j < k => pos[j] < pos[k]
              /\ Events(s) = [k \in 1..n |-> s[pos[k]]] \o tail
    BY <1>2, EventsAre
<1>4. PICK pos \in [1..n -> DOMAIN s] :
              /\ \A k \in 1..n : s[pos[k]] > 0
              /\ \A j, k \in 1..n : j < k => pos[j] < pos[k]
              /\ Events(s) = [k \in 1..n |-> s[pos[k]]] \o tail
    BY <1>3
<1> DEFINE h == [k \in 1..n |-> s[pos[k]]]
<1>5. h \in Seq(Lines) /\ Len(h) = n /\ \A k \in 1..n : h[k] > 0
  <2> HIDE DEF Lines
  <2>1. \A k \in 1..n : s[pos[k]] \in Lines
      BY <1>2
  <2>2. h \in [1..n -> Lines]
      BY <2>1
  <2>3. \A k \in 1..n : h[k] > 0
      BY <1>4
  <2> HIDE DEF h
  <2>4. h \in Seq(Lines)
      BY <2>2, SeqDef
  <2>5. Len(h) = n
      BY <2>2, <2>4
  <2> QED BY <2>3, <2>4, <2>5
<1> HIDE DEF Lines
<1>6. tail = <<>> \/ tail = <<Half>>
    OBVIOUS
<1>7. Events(s) = h \o tail
    BY <1>4
<1> HIDE DEF tail, h
<1>8. CASE tail = <<>>
  <2>1. Events(s) = h
      BY <1>5, <1>7, <1>8
  <2> QED BY <1>5, <2>1 DEF Shape, Lines
<1>9. CASE tail = <<Half>>
  <2>1. <<Half>> \in Seq(Lines) /\ Len(<<Half>>) = 1 /\ <<Half>>[1] = Half
      BY <1>1
  <2>2. /\ Events(s) \in Seq(Lines) /\ Len(Events(s)) = n + 1
        /\ \A k \in 1..(n + 1) : Events(s)[k] = IF k <= n THEN h[k] ELSE <<Half>>[k - n]
      BY <1>5, <1>7, <1>9, <2>1, ConcatProperties
  <2>3. \A k \in 1..(n + 1) : Events(s)[k] > 0 \/ (Events(s)[k] = Half /\ k = n + 1)
    <3>1. ASSUME NEW k \in 1..(n + 1), ~(k <= n)
          PROVE  k = n + 1 /\ k - n = 1
        BY <3>1
    <3> QED BY <1>5, <2>1, <2>2, <3>1
  <2>4. DOMAIN Events(s) = 1..(n + 1)
      BY <2>2
  <2> QED BY <2>2, <2>3, <2>4 DEF Shape, Lines
<1> QED BY <1>6, <1>8, <1>9

\* Where there is no half line, the events stay in their order.
LEMMA EventsCalm ==
    ASSUME NEW s \in Seq(Int), \A i \in DOMAIN s : s[i] >= 0, handled \in Int
    PROVE  /\ Events(s) \in Seq(Int)
           /\ \A k \in DOMAIN Events(s) : /\ Events(s)[k] > 0
                                          /\ \E i \in DOMAIN s : Events(s)[k] = s[i]
           /\ InOrder(s) => InOrder(Events(s))
<1>1. (IF s # <<>> /\ s[Len(s)] = Half THEN <<Half>> ELSE <<>>) = <<>>
  <2>1. s # <<>> => Len(s) \in DOMAIN s
      OBVIOUS
  <2> QED BY <2>1 DEF Half
<1>2. PICK n \in Nat : \E pos \in [1..n -> DOMAIN s] :
              /\ \A k \in 1..n : s[pos[k]] > 0
              /\ \A j, k \in 1..n : j < k => pos[j] < pos[k]
              /\ Events(s) = [k \in 1..n |-> s[pos[k]]] \o <<>>
    BY <1>1, EventsAre
<1>3. PICK pos \in [1..n -> DOMAIN s] :
              /\ \A k \in 1..n : s[pos[k]] > 0
              /\ \A j, k \in 1..n : j < k => pos[j] < pos[k]
              /\ Events(s) = [k \in 1..n |-> s[pos[k]]] \o <<>>
    BY <1>2
<1> DEFINE h == [k \in 1..n |-> s[pos[k]]]
<1>4. h \in Seq(Int) /\ DOMAIN h = 1..n /\ \A k \in 1..n : h[k] = s[pos[k]]
  <2>1. \A k \in 1..n : s[pos[k]] \in Int
      OBVIOUS
  <2>2. h \in [1..n -> Int]
      BY <2>1
  <2>3. \A k \in 1..n : h[k] = s[pos[k]]
      OBVIOUS
  <2> HIDE DEF h
  <2> QED BY <2>2, <2>3
<1>5. Events(s) = h
  <2>1. Events(s) = h \o <<>>
      BY <1>3
  <2> HIDE DEF h
  <2> QED BY <1>4, <2>1
<1>6. \A k \in 1..n : h[k] > 0 /\ \E i \in DOMAIN s : h[k] = s[i]
    BY <1>3, <1>4
<1>7. ASSUME InOrder(s)
      PROVE  InOrder(h)
  <2>1. ASSUME NEW k \in 1..n
        PROVE  h[k] > handled /\ \A j \in 1..(k - 1) : h[j] < h[k]
    <3>1. s[pos[k]] > 0 /\ pos[k] \in DOMAIN s /\ h[k] = s[pos[k]]
        BY <1>3, <1>4
    <3>2. s[pos[k]] > handled /\ \A m \in 1..(pos[k] - 1) : s[m] < s[pos[k]]
        BY <1>7, <3>1 DEF InOrder
    <3>3. ASSUME NEW j \in 1..(k - 1)
          PROVE  h[j] < h[k]
      <4>1. j \in 1..n /\ j < k
          OBVIOUS
      <4>2. pos[j] < pos[k] /\ h[j] = s[pos[j]] /\ pos[j] \in DOMAIN s
          BY <1>3, <1>4, <4>1
      <4>3. DOMAIN s = 1..Len(s) /\ Len(s) \in Nat
          OBVIOUS
      <4>4. pos[j] \in 1..(pos[k] - 1)
          BY <3>1, <4>2, <4>3
      <4> QED BY <3>1, <3>2, <4>2, <4>4
    <3> QED BY <3>1, <3>2, <3>3
  <2> HIDE DEF h
  <2> QED BY <1>4, <2>1 DEF InOrder
<1> HIDE DEF h
<1> QED BY <1>4, <1>5, <1>6, <1>7

---------------------------------------------------------------------------
(* Lines on the way to the agent, and what fits the buffer of a slot.      *)

\* To cut the front of a buffer is to cut it before anything is put behind it.
LEMMA Suffix ==
    ASSUME NEW X, NEW a \in Seq(X), NEW b \in Seq(X), NEW m \in 0..Len(a)
    PROVE  SubSeq(a, m + 1, Len(a)) \o b = SubSeq(a \o b, m + 1, Len(a \o b))
<1> DEFINE p == SubSeq(a, m + 1, Len(a))
           c == a \o b
           r == SubSeq(c, m + 1, Len(c))
<1>1. Len(a) \in Nat /\ Len(b) \in Nat
    OBVIOUS
<1>2. p \in Seq(X) /\ Len(p) = Len(a) - m /\ \A k \in 1..(Len(a) - m) : p[k] = a[m + k]
    OBVIOUS
<1>3. /\ c \in Seq(X) /\ Len(c) = Len(a) + Len(b)
      /\ \A k \in 1..(Len(a) + Len(b)) : c[k] = IF k <= Len(a) THEN a[k] ELSE b[k - Len(a)]
    BY ConcatProperties
<1> HIDE DEF p, c
<1>4. /\ r \in Seq(X) /\ Len(r) = Len(a) + Len(b) - m
      /\ \A k \in 1..(Len(a) + Len(b) - m) : r[k] = c[m + k]
  <2>1. PICK n : n = Len(c)
      OBVIOUS
  <2>2. n \in Nat /\ n = Len(a) + Len(b) /\ m \in Int /\ m + 1 \in Int
      BY <1>1, <1>3, <2>1
  <2>3. c \in [1..n -> X]
      BY <1>3, <2>1
  <2>4. r = SubSeq(c, m + 1, n) /\ \A k \in (m + 1)..n : c[k] \in X
      BY <2>1, <2>2, <2>3
  <2> HIDE DEF r
  <2>5. /\ r \in Seq(X) /\ Len(r) = IF m + 1 <= n THEN n - (m + 1) + 1 ELSE 0
        /\ \A k \in 1..(n - (m + 1) + 1) : r[k] = c[(m + 1) + k - 1]
      BY <2>2, <2>4, SubSeqProperties
  <2>6. n - (m + 1) + 1 = Len(a) + Len(b) - m
      BY <1>1, <2>2
  <2>7. Len(r) = Len(a) + Len(b) - m
      BY <1>1, <2>2, <2>5
  <2>8. ASSUME NEW k \in 1..(Len(a) + Len(b) - m) PROVE r[k] = c[m + k]
    <3>1. (m + 1) + k - 1 = m + k /\ k \in 1..(n - (m + 1) + 1)
        BY <1>1, <2>2
    <3> QED BY <2>5, <3>1
  <2> QED BY <2>5, <2>7, <2>8
<1> HIDE DEF r
<1> DEFINE l == p \o b
<1>5. /\ l \in Seq(X) /\ Len(l) = Len(p) + Len(b)
      /\ \A k \in 1..(Len(p) + Len(b)) : l[k] = IF k <= Len(p) THEN p[k] ELSE b[k - Len(p)]
    BY <1>2, ConcatProperties
<1> HIDE DEF l
<1>6. Len(l) = Len(r)
    BY <1>1, <1>2, <1>4, <1>5
<1>7. ASSUME NEW k \in 1..Len(l)
      PROVE  l[k] = r[k]
  <2>1. k \in Nat /\ k \in 1..(Len(a) + Len(b) - m) /\ m + k \in 1..(Len(a) + Len(b))
      BY <1>1, <1>2, <1>5
  <2>2. r[k] = IF m + k <= Len(a) THEN a[m + k] ELSE b[m + k - Len(a)]
      BY <1>3, <1>4, <2>1
  <2>3. l[k] = IF k <= Len(a) - m THEN p[k] ELSE b[k - (Len(a) - m)]
      BY <1>2, <1>5, <2>1
  <2>4. k - (Len(a) - m) = m + k - Len(a)
      BY <1>1, <2>1
  <2>5. CASE m + k <= Len(a)
    <3>1. k <= Len(a) - m /\ k \in 1..(Len(a) - m)
        BY <1>1, <2>1, <2>5
    <3> QED BY <1>2, <2>2, <2>3, <2>5, <3>1
  <2>6. CASE m + k > Len(a)
    <3>1. ~(k <= Len(a) - m) /\ ~(m + k <= Len(a))
        BY <1>1, <2>1, <2>6
    <3> QED BY <2>2, <2>3, <2>4, <3>1
  <2> QED BY <1>1, <2>1, <2>5, <2>6
<1>8. l = r
    BY <1>4, <1>5, <1>6, <1>7, SeqEqual
<1> QED BY <1>8 DEF l, p, r, c

\* A read takes the first units of a connection and adds them to the slot's buffer.
LEMMA Joined ==
    ASSUME NEW X, NEW a \in Seq(X), NEW b \in Seq(X), NEW n \in 0..Len(b)
    PROVE  (a \o SubSeq(b, 1, n)) \o SubSeq(b, n + 1, Len(b)) = a \o b
<1> DEFINE p == SubSeq(b, 1, n)
           q == SubSeq(b, n + 1, Len(b))
<1>1. p \in Seq(X) /\ q \in Seq(X) /\ Len(b) \in Nat
    OBVIOUS
<1>2. p \o q = b
  <2>1. 1 \in 1..(Len(b) + 1) /\ n \in (1 - 1)..Len(b) /\ Len(b) \in n..Len(b)
      BY <1>1
  <2> QED BY <2>1, ConcatAdjacentSubSeq, SubSeqFull
<1> HIDE DEF p, q
<1>3. (a \o p) \o q = a \o (p \o q)
    BY <1>1, ConcatAssociative
<1> QED BY <1>2, <1>3 DEF p, q

Units == AgentStates \cup {"text"}

\* What is on the way in a buffer and a connection ends with the end of a line, and no
\* RX_BUF_SIZE - 1 units in a row are without one.
Fits(s) == s # <<>> => /\ s[Len(s)] # "text"
                       /\ \A i \in 1..(Len(s) - RxCap + 1) :
                             \E k \in i..(i + RxCap - 1) : s[k] # "text"

\* A command's line has its length and ends with the state.
LEMMA LineIs ==
    ASSUME NEW m \in Commands
    PROVE  /\ m.len \in Nat \ {0}
           /\ Line(m) \in Seq(Units) /\ Len(Line(m)) = m.len
           /\ Line(m)[m.len] # "text"
<1>1. m.len \in Nat \ {0} /\ m.state \in AgentStates
  <2>1. m.len \in Lens \cup {1} /\ m.state \in AgentStates
      BY DEF Commands
  <2>2. \A n \in Lens \cup {1} : n \in Nat \ {0}
      BY LensNat
  <2> QED BY <2>1, <2>2
<1> DEFINE l == Line(m)
<1>2. l \in [1..m.len -> Units] /\ l[m.len] = m.state
    BY <1>1 DEF Line, Units
<1>3. m.state # "text"
    BY <1>1 DEF AgentStates
<1> HIDE DEF l
<1>4. l \in Seq(Units)
    BY <1>1, <1>2, SeqDef
<1>5. Len(l) = m.len
    BY <1>1, <1>2, <1>4
<1> QED BY <1>1, <1>2, <1>3, <1>4, <1>5 DEF l

\* An empty connection fits.
LEMMA FitsNothing == Fits(<<>>)
    BY DEF Fits

\* A read leaves what fits.
LEMMA FitsSuffix ==
    ASSUME NEW s \in Seq(Units), Fits(s), NEW m \in 0..Len(s)
    PROVE  Fits(SubSeq(s, m + 1, Len(s)))
<1> DEFINE r == SubSeq(s, m + 1, Len(s))
<1>1. Len(s) \in Nat /\ RxCap \in Nat \ {0} /\ m \in Nat
    BY BoundsNat
<1>2. r \in Seq(Units) /\ Len(r) = Len(s) - m /\ \A k \in 1..(Len(s) - m) : r[k] = s[m + k]
    OBVIOUS
<1> HIDE DEF r
<1> SUFFICES ASSUME r # <<>> PROVE Fits(r)
    BY DEF r, Fits
<1>3. Len(r) # 0 /\ Len(s) - m \in 1..(Len(s) - m) /\ s # <<>>
    BY <1>1, <1>2
<1>4. r[Len(r)] # "text"
  <2>1. m + (Len(s) - m) = Len(s)
      BY <1>1
  <2> QED BY <1>2, <1>3, <2>1 DEF Fits
<1>5. ASSUME NEW i \in 1..(Len(r) - RxCap + 1)
      PROVE  \E k \in i..(i + RxCap - 1) : r[k] # "text"
  <2>1. i \in Nat /\ m + i \in 1..(Len(s) - RxCap + 1)
      BY <1>1, <1>2
  <2>2. PICK k \in (m + i)..(m + i + RxCap - 1) : s[k] # "text"
      BY <1>3, <2>1 DEF Fits
  <2>3. k - m \in i..(i + RxCap - 1) /\ k - m \in 1..(Len(s) - m) /\ m + (k - m) = k
      BY <1>1, <1>2, <2>1
  <2>4. r[k - m] = s[k]
      BY <1>2, <2>3
  <2> QED BY <2>2, <2>3, <2>4
<1> QED BY <1>4, <1>5 DEF Fits

\* So does a line that fits, behind it.
LEMMA FitsMore ==
    ASSUME NEW s \in Seq(Units), Fits(s), NEW m \in Commands, m.len <= RxCap
    PROVE  Fits(s \o Line(m))
<1> DEFINE l == Line(m)
           n == m.len
           r == s \o l
<1>1. Len(s) \in Nat /\ RxCap \in Nat \ {0} /\ n \in Nat \ {0}
    BY BoundsNat, LineIs
<1>2. l \in Seq(Units) /\ Len(l) = n /\ l[n] # "text"
    BY LineIs
<1> HIDE DEF l
<1>3. /\ r \in Seq(Units) /\ Len(r) = Len(s) + n
      /\ \A k \in 1..(Len(s) + n) : r[k] = IF k <= Len(s) THEN s[k] ELSE l[k - Len(s)]
    BY <1>2, ConcatProperties
<1> HIDE DEF r
<1>4. m.len <= RxCap
    OBVIOUS
<1> HIDE DEF n
<1>5. r[Len(r)] # "text"
  <2>1. Len(s) + n \in 1..(Len(s) + n) /\ ~(Len(s) + n <= Len(s)) /\ (Len(s) + n) - Len(s) = n
      BY <1>1
  <2> QED BY <1>2, <1>3, <2>1
<1>6. ASSUME NEW i \in 1..(Len(r) - RxCap + 1)
      PROVE  \E k \in i..(i + RxCap - 1) : r[k] # "text"
  <2>1. i \in Nat \ {0} /\ i + RxCap - 1 <= Len(s) + n /\ n <= RxCap
      BY <1>1, <1>3, <1>4 DEF n
  <2>2. CASE i + RxCap - 1 = Len(s) + n
      BY <1>1, <1>3, <1>5, <2>1, <2>2
  <2>3. CASE i + RxCap - 1 < Len(s) + n
    <3>1. i <= Len(s) /\ Len(s) \in 1..(Len(s) + n) /\ s # <<>>
        BY <1>1, <2>1, <2>3
    <3>2. CASE Len(s) <= i + RxCap - 1
      <4>1. r[Len(s)] = s[Len(s)] /\ Len(s) \in i..(i + RxCap - 1)
          BY <1>1, <1>3, <2>1, <3>1, <3>2
      <4> QED BY <3>1, <4>1 DEF Fits
    <3>3. CASE i + RxCap - 1 < Len(s)
      <4>1. i \in 1..(Len(s) - RxCap + 1)
          BY <1>1, <2>1, <3>3
      <4>2. PICK k \in i..(i + RxCap - 1) : s[k] # "text"
          BY <3>1, <4>1 DEF Fits
      <4>3. k \in 1..(Len(s) + n) /\ k <= Len(s)
          BY <1>1, <2>1, <3>3
      <4> QED BY <1>3, <4>2, <4>3
    <3> QED BY <1>1, <2>1, <3>2, <3>3
  <2> QED BY <1>1, <2>1, <2>2, <2>3
<1>7. Fits(r)
    BY <1>5, <1>6 DEF Fits
<1> QED BY <1>7 DEF r, l

\* A buffer that is full holds the end of a line.
LEMMA FitsFull ==
    ASSUME NEW b \in Seq({"text"}), NEW q \in Seq(Units), Fits(b \o q), Len(b) = RxCap
    PROVE  FALSE
<1> DEFINE r == b \o q
<1>1. Len(q) \in Nat /\ RxCap \in Nat \ {0}
    BY BoundsNat
<1>2. b \in Seq(Units) /\ \A k \in 1..RxCap : b[k] = "text"
  <2>1. {"text"} \subseteq Units
      BY DEF Units
  <2>2. b \in Seq(Units)
      BY <2>1, SeqMonotonic
  <2> QED BY <2>2, ElementOfSeq
<1>3. /\ r \in Seq(Units) /\ Len(r) = RxCap + Len(q)
      /\ \A k \in 1..(RxCap + Len(q)) : r[k] = IF k <= RxCap THEN b[k] ELSE q[k - RxCap]
    BY <1>2, ConcatProperties
<1>4. Fits(r)
    OBVIOUS
<1> HIDE DEF r
<1>5. r # <<>> /\ 1 \in 1..(Len(r) - RxCap + 1)
    BY <1>1, <1>3
<1>6. PICK k \in 1..(1 + RxCap - 1) : r[k] # "text"
    BY <1>4, <1>5 DEF Fits
<1>7. k \in 1..RxCap /\ k \in 1..(RxCap + Len(q)) /\ k <= RxCap
    BY <1>1, <1>6
<1> QED BY <1>2, <1>3, <1>6, <1>7

\* After the last whole line of data there is text, and nothing else.
LEMMA LastEnd ==
    ASSUME NEW data \in Seq(Units), Ends(data) # {}
    PROVE  LET e == CHOOSE k \in Ends(data) : \A j \in Ends(data) : j <= k
           IN  e \in Ends(data) /\ \A j \in Ends(data) : j <= e
<1>1. Ends(data) \in SUBSET (1..Len(data)) /\ Len(data) \in Nat
    BY DEF Ends
<1>2. Ends(data) \in SUBSET Nat /\ IsFiniteSet(Ends(data))
    BY <1>1, Places
<1>3. \E k \in Ends(data) : \A j \in Ends(data) : j <= k
    BY <1>2, Extremes
<1> QED BY <1>3

\* The last end of a line in a buffer is a state, which becomes the one shown.
LEMMA LastState ==
    ASSUME NEW data \in Seq(Units), Ends(data) # {}
    PROVE  data[CHOOSE k \in Ends(data) : \A j \in Ends(data) : j <= k] \in AgentStates
<1>1. \A k \in Ends(data) : data[k] \in AgentStates
    BY DEF Ends, Units
<1> QED BY <1>1, LastEnd

\* What process_client leaves in a slot is a rest of the buffer without a newline.
LEMMA RemainsAre ==
    ASSUME NEW data \in Seq(Units)
    PROVE  /\ Remains(data) \in Seq({"text"}) /\ Len(Remains(data)) <= Len(data)
           /\ \E m \in 0..Len(data) : Remains(data) = SubSeq(data, m + 1, Len(data))
<1>1. Len(data) \in Nat /\ DOMAIN data = 1..Len(data)
    OBVIOUS
<1>2. CASE Ends(data) = {}
  <2>1. Remains(data) = data
      BY <1>2 DEF Remains
  <2>2. \A k \in 1..Len(data) : data[k] \in {"text"}
      BY <1>2 DEF Ends
  <2>3. data \in [1..Len(data) -> {"text"}]
      BY <2>2
  <2>4. data \in Seq({"text"})
      BY <1>1, <2>3, SeqDef
  <2>5. data = SubSeq(data, 0 + 1, Len(data))
      BY SubSeqFull
  <2> QED BY <1>1, <2>1, <2>4, <2>5
<1>3. CASE Ends(data) # {}
  <2>1. PICK e : e = CHOOSE k \in Ends(data) : \A j \in Ends(data) : j <= k
      OBVIOUS
  <2>2. e \in Ends(data) /\ \A j \in Ends(data) : j <= e
      BY <1>3, <2>1, LastEnd
  <2>3. e \in 1..Len(data)
      BY <2>2 DEF Ends
  <2> DEFINE r == SubSeq(data, e + 1, Len(data))
  <2>4. Remains(data) = r
    <3>1. 1 + e = e + 1
        BY <2>3
    <3> QED BY <1>3, <2>1, <3>1 DEF Remains
  <2>5. r \in Seq(Units) /\ Len(r) = Len(data) - e
        /\ \A k \in 1..(Len(data) - e) : r[k] = data[e + k]
    <3>1. e \in 0..Len(data)
        BY <2>3
    <3> QED BY <3>1
  <2> HIDE DEF r
  <2>6. \A k \in 1..Len(r) : r[k] \in {"text"}
    <3>1. ASSUME NEW k \in 1..Len(r)
          PROVE  r[k] = "text"
      <4>1. e + k \in DOMAIN data /\ ~(e + k <= e) /\ r[k] = data[e + k]
          BY <1>1, <2>3, <2>5
      <4> QED BY <2>2, <4>1 DEF Ends
    <3> QED BY <3>1
  <2>7. Len(r) \in Nat /\ r \in [1..Len(r) -> {"text"}]
      BY <2>5, <2>6
  <2>8. r \in Seq({"text"})
      BY <2>7, SeqDef
  <2>9. Len(r) <= Len(data) /\ e \in 0..Len(data)
      BY <1>1, <2>3, <2>5
  <2> QED BY <2>4, <2>8, <2>9 DEF r
<1> QED BY <1>2, <1>3

---------------------------------------------------------------------------
(* The types: the invariant, and the steps of send_cmd and _connect.       *)

Lines == Half..MaxClicks

ThreadType ==
    /\ pc \in [Threads -> Points \cup ReaderPoints]
    /\ \A t \in Handlers : pc[t] \in Points
    /\ pc[Reader] \in ReaderPoints
    /\ cmd \in [Threads -> Commands]
    /\ local \in [Threads -> Conns \cup {None}]

ServerType ==
    /\ rsock \in Conns \cup {None} /\ sock \in Conns \cup {None}
    /\ rbuf \in Seq(Lines) /\ Shape(rbuf)
    /\ current_state \in AgentStates /\ handled \in 0..MaxClicks

WireType == c2s \in [Conns -> Seq(Units)] /\ s2c \in [Conns -> Seq(Lines)]

AgentType ==
    /\ shown \in AgentStates
    /\ backlog \in Seq(Conns)
    /\ slots \in [Slots -> Conns \cup {None}]
    /\ buf \in [Slots -> Seq({"text"})] /\ \A i \in Slots : Len(buf[i]) <= RxCap

CountType == clicks \in 0..MaxClicks /\ cmds \in 0..MaxCmds /\ faults \in 0..MaxFaults

FlagType == agent_up \in BOOLEAN /\ btn_prev \in BOOLEAN /\ overlong \in BOOLEAN

Receiving == pc[Reader] = "recv" => rsock # None

\* TypeOK, with what it rests on: of the reader's buffer, that no half line is before
\* another, so that every event has a number; and that it waits for a socket it has.
LinkInv == /\ ThreadType /\ ServerType /\ WireType /\ AgentType /\ CountType /\ FlagType
           /\ Receiving

\* The numbers that stand for lines.
LEMMA LineTypes ==
    /\ Half \in Lines /\ Reply \in Lines /\ Half = -1 /\ Lines \subseteq Int
    /\ 0..MaxClicks \subseteq Lines /\ MaxClicks \in Nat
    /\ \A k \in Lines : k > 0 => k \in 0..MaxClicks
    BY BoundsNat DEF Lines, Half, Reply

\* A thread without a command has a command's type.
LEMMA NoCommandType == NoCommand \in Commands
    BY DEF NoCommand, Commands, AgentStates

\* A thread is the reader or a handler, never both.
LEMMA ThreadsAre == Reader \in Threads /\ Handlers \subseteq Threads /\ Reader \notin Handlers
                    /\ \A t \in Threads : t = Reader \/ t \in Handlers
    BY ThreadsDistinct DEF Threads

\* A thread goes on to a point of its program.
LEMMA Moves ==
    ASSUME ThreadType, NEW t \in Threads, NEW p, Goto(t, p),
           t \in Handlers => p \in Points, t = Reader => p \in ReaderPoints,
           cmd' \in [Threads -> Commands], local' \in [Threads -> Conns \cup {None}]
    PROVE  ThreadType'
<1>1. p \in Points \cup ReaderPoints
    BY ThreadsAre
<1>2. pc' = [pc EXCEPT ![t] = p] /\ pc \in [Threads -> Points \cup ReaderPoints]
    BY DEF Goto, ThreadType
<1>3. pc' \in [Threads -> Points \cup ReaderPoints]
    BY <1>1, <1>2
<1>4. ASSUME NEW h \in Handlers PROVE pc'[h] \in Points
    BY <1>2, ThreadsAre DEF ThreadType
<1>5. pc'[Reader] \in ReaderPoints
    BY <1>2, ThreadsAre DEF ThreadType
<1> QED BY <1>3, <1>4, <1>5 DEF ThreadType

\* Forget keeps the type of the commands.
LEMMA Forgets ==
    ASSUME ThreadType, NEW t \in Threads, Forget(t)
    PROVE  cmd' \in [Threads -> Commands]
    BY NoCommandType DEF ThreadType, Forget

\* A closed socket keeps the type of what is on the way to the server.
LEMMA Drops == ASSUME s2c \in [Conns -> Seq(Lines)], DropUnread
               PROVE  s2c' \in [Conns -> Seq(Lines)]
<1>1. \A c \in Conns : s2c[c] \in Seq(Lines) /\ <<>> \in Seq(Lines)
    OBVIOUS
<1> QED BY <1>1 DEF DropUnread

\* A sendall keeps the type of what is on the way to the agent.
LEMMA Puts == ASSUME LinkInv, NEW t \in Threads, Put(t)
              PROVE  c2s' \in [Conns -> Seq(Units)]
<1>1. Line(cmd[t]) \in Seq(Units)
    BY LineIs DEF LinkInv, ThreadType
<1>2. c2s \in [Conns -> Seq(Units)] /\ c2s' = [c2s EXCEPT ![sock] = @ \o Line(cmd[t])]
    BY DEF Put, LinkInv, WireType
<1>3. \A c \in Conns : c2s[c] \o Line(cmd[t]) \in Seq(Units)
    BY <1>1, <1>2
<1> QED BY <1>2, <1>3

\* Each step of send_cmd, _connect and set_state keeps the types.
LEMMA BeginTypes == ASSUME LinkInv, NEW t \in Handlers, Begin(t) PROVE LinkInv'
<1>1. PICK m \in [state : States, len : Lens] : cmd' = [cmd EXCEPT ![t] = m]
    BY DEF Begin
<1>2. m \in Commands
    BY StatesKnown DEF Commands
<1>3. cmd' \in [Threads -> Commands]
    BY <1>1, <1>2 DEF LinkInv, ThreadType
<1>4. "send" \in Points /\ local' = local /\ Goto(t, "send")
    BY DEF Begin, Points
<1>5. ThreadType'
    BY <1>3, <1>4, ThreadsAre, Moves DEF LinkInv, ThreadType
<1>6. CountType'
    BY BoundsNat DEF Begin, LinkInv, CountType
<1>7. FlagType'
  <2>1. UNCHANGED <<agent_up, btn_prev>>
      BY DEF Begin, agent
  <2>2. overlong' \in BOOLEAN
    <3>1. PICK n \in [state : States, len : Lens] : overlong' = (overlong \/ n.len > RxCap)
        BY DEF Begin
    <3> QED BY <3>1
  <2> QED BY <2>1, <2>2 DEF LinkInv, FlagType
<1>8. ServerType' /\ WireType' /\ AgentType'
    BY DEF Begin, agent, LinkInv, ServerType, WireType, AgentType
<1>9. Receiving'
    BY ThreadsAre DEF Begin, Goto, LinkInv, ThreadType, Receiving
<1> QED BY <1>5, <1>6, <1>7, <1>8, <1>9 DEF LinkInv

\* Where only the server moves, the agent is as it was.
LEMMA AgentStill ==
    ASSUME LinkInv, UNCHANGED <<agent, clicks, issued, faults>>
    PROVE  AgentType' /\ CountType' /\ FlagType'
<1>1. AgentType' /\ CountType'
    BY DEF agent, issued, LinkInv, AgentType, CountType
<1>2. UNCHANGED <<agent_up, btn_prev, overlong>>
    BY DEF agent, issued
<1>3. FlagType'
    BY <1>2 DEF LinkInv, FlagType
<1> QED BY <1>1, <1>3

\* And where only the agent does, the server.
LEMMA ServerStill ==
    ASSUME LinkInv, UNCHANGED python
    PROVE  ThreadType' /\ ServerType' /\ Receiving'
    BY DEF python, LinkInv, ThreadType, ServerType, Receiving

LEMMA SendTypes == ASSUME LinkInv, NEW t \in Threads, Send(t) PROVE LinkInv'
<1>1. UNCHANGED <<local, rsock, rbuf, current_state, handled, agent, clicks, issued, faults>>
      /\ DropUnread
    BY DEF Send
<1>2. s2c' \in [Conns -> Seq(Lines)]
    BY <1>1, Drops DEF LinkInv, WireType
<1>3. /\ ThreadType' /\ c2s' \in [Conns -> Seq(Units)] /\ sock' \in Conns \cup {None}
      /\ pc'[Reader] \in {"check", "dying", pc[Reader]}
  <2>1. /\ {"check", "idle"} \subseteq Points /\ {"check", "dying"} \subseteq ReaderPoints
        /\ local' \in [Threads -> Conns \cup {None}]
      BY <1>1 DEF Points, ReaderPoints, LinkInv, ThreadType
  <2>2. CASE sock = None /\ Raise(t) /\ UNCHANGED <<sock, c2s>>
    <3>1. Goto(t, IF t = Reader THEN "dying" ELSE "idle") /\ cmd' \in [Threads -> Commands]
        BY <2>2, Forgets DEF Raise, LinkInv
    <3>2. ThreadType'
        BY <2>1, <3>1, ThreadsAre, Moves DEF LinkInv
    <3> QED BY <2>2, <3>1, <3>2, ThreadsAre DEF Goto, LinkInv, ThreadType, ServerType, WireType
  <2>3. CASE Put(t) /\ Goto(t, "check") /\ UNCHANGED <<cmd, sock>>
    <3>1. ThreadType'
        BY <2>1, <2>3, ThreadsAre, Moves DEF LinkInv, ThreadType
    <3> QED BY <2>3, <3>1, Puts, ThreadsAre DEF Goto, LinkInv, ThreadType, ServerType
  <2>4. CASE sock' = None /\ Goto(t, "check") /\ UNCHANGED <<cmd, c2s>>
    <3>1. ThreadType'
        BY <2>1, <2>4, ThreadsAre, Moves DEF LinkInv, ThreadType
    <3> QED BY <2>4, <3>1, ThreadsAre DEF Goto, LinkInv, ThreadType, WireType
  <2> QED BY <2>2, <2>3, <2>4 DEF Send
<1>4. ServerType'
    BY <1>1, <1>3 DEF LinkInv, ServerType
<1>5. Receiving'
    BY <1>1, <1>3 DEF LinkInv, Receiving
<1> QED BY <1>1, <1>2, <1>3, <1>4, <1>5, AgentStill DEF LinkInv, WireType

LEMMA CheckTypes == ASSUME LinkInv, NEW t \in Threads, Check(t) PROVE LinkInv'
<1>1. /\ UNCHANGED <<cmd, local, rsock, rbuf, sock, current_state, handled, c2s, s2c, agent,
                     clicks, issued, faults>>
      /\ Goto(t, IF sock = None THEN "connect" ELSE "note")
    BY DEF Check
<1>2. ThreadType'
  <2>1. {"connect", "note"} \subseteq Points \cap ReaderPoints
      BY DEF Points, ReaderPoints
  <2> QED BY <1>1, <2>1, Moves DEF LinkInv, ThreadType
<1>3. ServerType' /\ WireType'
    BY <1>1 DEF LinkInv, ServerType, WireType
<1>4. Receiving'
    BY <1>1, ThreadsAre DEF Goto, LinkInv, ThreadType, Receiving
<1> QED BY <1>1, <1>2, <1>3, <1>4, AgentStill DEF LinkInv

LEMMA ConnectTypes ==
    ASSUME LinkInv, NEW t \in Threads, NEW from, NEW to, ConnectFrom(t, from, to), to # "recv",
           t \in Handlers => to \in Points, t = Reader => to \in ReaderPoints
    PROVE  LinkInv'
<1>1. /\ UNCHANGED <<cmd, rsock, rbuf, sock, current_state, handled, slots, buf, agent_up, shown,
                     btn_prev, clicks, issued, faults>>
      /\ Goto(t, to) /\ FreeConns # {}
    BY DEF ConnectFrom
<1>2. PICK c : c = CHOOSE d \in FreeConns : TRUE
    OBVIOUS
<1>3. c \in Conns
    BY <1>1, <1>2 DEF FreeConns
<1>4. /\ local' = [local EXCEPT ![t] = c] /\ backlog' = Append(backlog, c)
      /\ c2s' = [c2s EXCEPT ![c] = <<>>] /\ s2c' = [s2c EXCEPT ![c] = <<>>]
    BY <1>2 DEF ConnectFrom
<1>5. ThreadType'
    BY <1>1, <1>3, <1>4, Moves DEF LinkInv, ThreadType
<1>6. WireType'
    BY <1>3, <1>4 DEF LinkInv, WireType
<1>7. AgentType'
    BY <1>1, <1>3, <1>4 DEF LinkInv, AgentType
<1>8. ServerType' /\ CountType'
    BY <1>1 DEF LinkInv, ServerType, CountType, issued
<1>9. FlagType'
  <2>1. UNCHANGED <<agent_up, btn_prev, overlong>>
      BY <1>1 DEF issued
  <2> QED BY <2>1 DEF LinkInv, FlagType
<1>10. Receiving'
    BY <1>1, ThreadsAre DEF Goto, LinkInv, ThreadType, Receiving
<1> QED BY <1>5, <1>6, <1>7, <1>8, <1>9, <1>10 DEF LinkInv

LEMMA StoreTypes ==
    ASSUME LinkInv, NEW t \in Threads, NEW from, NEW to, StoreFrom(t, from, to), to # "recv",
           t \in Handlers => to \in Points, t = Reader => to \in ReaderPoints
    PROVE  LinkInv'
<1>1. /\ UNCHANGED <<cmd, rsock, rbuf, current_state, handled, c2s, agent, clicks, issued, faults>>
      /\ sock' = local[t] /\ local' = [local EXCEPT ![t] = None]
      /\ Goto(t, to) /\ DropUnread
    BY DEF StoreFrom
<1>2. ThreadType'
    BY <1>1, Moves DEF LinkInv, ThreadType
<1>3. WireType'
    BY <1>1, Drops DEF LinkInv, WireType
<1>4. ServerType'
    BY <1>1 DEF LinkInv, ServerType, ThreadType
<1>5. Receiving'
    BY <1>1, ThreadsAre DEF Goto, LinkInv, ThreadType, Receiving
<1> QED BY <1>1, <1>2, <1>3, <1>4, <1>5, AgentStill DEF LinkInv

LEMMA AliveTypes == ASSUME LinkInv, NEW t \in Threads, Alive(t) PROVE LinkInv'
<1>1. /\ UNCHANGED <<cmd, local, rsock, rbuf, sock, current_state, handled, c2s, s2c, agent,
                     clicks, issued, faults>>
      /\ pc[t] = "alive"
      /\ pc' = [pc EXCEPT ![t] = "resend",
                          ![Reader] = IF pc[Reader] = "dead" THEN "look" ELSE @]
    BY DEF Alive
<1>2. "resend" \in Points \cap ReaderPoints /\ "look" \in ReaderPoints
      /\ "alive" \notin ReaderPoints
    BY DEF Points, ReaderPoints
<1>3. t # Reader
    BY <1>1, <1>2 DEF LinkInv, ThreadType
<1>4. /\ pc'[Reader] \in {"look", pc[Reader]} /\ pc'[Reader] \in ReaderPoints
      /\ \A h \in Handlers : pc'[h] \in Points
      /\ pc' \in [Threads -> Points \cup ReaderPoints]
    BY <1>1, <1>2, <1>3, ThreadsAre DEF LinkInv, ThreadType
<1>5. ThreadType'
    BY <1>1, <1>4 DEF LinkInv, ThreadType
<1>6. ServerType' /\ WireType'
    BY <1>1 DEF LinkInv, ServerType, WireType
<1>7. Receiving'
    BY <1>1, <1>4 DEF LinkInv, Receiving
<1> QED BY <1>1, <1>5, <1>6, <1>7, AgentStill DEF LinkInv

LEMMA ResendTypes == ASSUME LinkInv, NEW t \in Threads, Resend(t) PROVE LinkInv'
<1>1. UNCHANGED <<local, rsock, rbuf, sock, current_state, handled, s2c, agent, clicks, issued,
                  faults>>
    BY DEF Resend
<1>2. ThreadType' /\ pc'[Reader] \in {"note", "dying", pc[Reader]}
  <2>1. {"note", "idle"} \subseteq Points /\ {"note", "dying"} \subseteq ReaderPoints
      BY DEF Points, ReaderPoints
  <2>2. CASE sock = None
    <3>1. Goto(t, IF t = Reader THEN "dying" ELSE "idle") /\ cmd' \in [Threads -> Commands]
        BY <2>2, Forgets DEF Resend, Raise, LinkInv
    <3>2. ThreadType'
        BY <1>1, <2>1, <3>1, ThreadsAre, Moves DEF LinkInv, ThreadType
    <3> QED BY <3>1, <3>2, ThreadsAre DEF Goto, LinkInv, ThreadType
  <2>3. CASE sock # None
    <3>1. Goto(t, "note") /\ UNCHANGED cmd
        BY <2>3 DEF Resend
    <3>2. ThreadType'
        BY <1>1, <2>1, <3>1, ThreadsAre, Moves DEF LinkInv, ThreadType
    <3> QED BY <3>1, <3>2, ThreadsAre DEF Goto, LinkInv, ThreadType
  <2> QED BY <2>2, <2>3
<1>3. c2s' \in [Conns -> Seq(Units)]
    BY Puts DEF Resend, LinkInv, WireType
<1>4. ServerType' /\ WireType'
    BY <1>1, <1>3 DEF LinkInv, ServerType, WireType
<1>5. Receiving'
    BY <1>1, <1>2 DEF LinkInv, Receiving
<1> QED BY <1>1, <1>2, <1>4, <1>5, AgentStill DEF LinkInv

\* What a thread notes as the state is a state.
LEMMA CommandState == ASSUME LinkInv, NEW t \in Threads PROVE cmd[t].state \in AgentStates
<1>1. cmd[t] \in Commands
    BY DEF LinkInv, ThreadType
<1> QED BY <1>1 DEF Commands

LEMMA NoteTypes == ASSUME LinkInv, NEW t \in Threads, Note(t) PROVE LinkInv'
<1>1. /\ UNCHANGED <<local, rsock, rbuf, sock, handled, c2s, s2c, agent, clicks, issued, faults>>
      /\ current_state' = cmd[t].state /\ Goto(t, Done(t)) /\ Forget(t)
    BY DEF Note
<1>2. ThreadType' /\ pc'[Reader] \in {"lines", pc[Reader]}
  <2>1. "idle" \in Points /\ "lines" \in ReaderPoints
      BY DEF Points, ReaderPoints
  <2>2. /\ t \in Handlers => Done(t) \in Points
        /\ t = Reader => Done(t) \in ReaderPoints
        /\ Done(t) # "recv"
      BY <2>1, ThreadsAre DEF Done
  <2>3. cmd' \in [Threads -> Commands]
      BY <1>1, Forgets DEF LinkInv
  <2>4. ThreadType'
      BY <1>1, <2>2, <2>3, Moves DEF LinkInv, ThreadType
  <2> QED BY <1>1, <2>4, ThreadsAre DEF Goto, Done, LinkInv, ThreadType
<1>3. ServerType' /\ WireType'
    BY <1>1, CommandState DEF LinkInv, ServerType, WireType
<1>4. Receiving'
    BY <1>1, <1>2 DEF LinkInv, Receiving
<1> QED BY <1>1, <1>2, <1>3, <1>4, AgentStill DEF LinkInv

---------------------------------------------------------------------------
(* The types: the steps of _read_loop.                                     *)

\* Each step of _read_loop and its callback keeps the types.
LEMMA LookTypes == ASSUME LinkInv, Look PROVE LinkInv'
<1>1. /\ UNCHANGED <<cmd, local, rbuf, sock, current_state, handled, c2s, agent, clicks, issued,
                     faults>>
      /\ rsock' = sock /\ DropUnread
      /\ Goto(Reader, IF sock = None THEN "look" ELSE "recv")
    BY DEF Look
<1>2. ThreadType'
  <2>1. {"look", "recv"} \subseteq ReaderPoints
      BY DEF ReaderPoints
  <2> QED BY <1>1, <2>1, ThreadsAre, Moves DEF LinkInv, ThreadType
<1>3. ServerType' /\ WireType'
    BY <1>1, Drops DEF LinkInv, ServerType, WireType
<1>4. Receiving'
    BY <1>1, ThreadsAre DEF Goto, LinkInv, ThreadType, Receiving
<1> QED BY <1>1, <1>2, <1>3, <1>4, AgentStill DEF LinkInv

LEMMA RecvTypes == ASSUME LinkInv, Recv PROVE LinkInv'
<1>1. /\ UNCHANGED <<cmd, local, rsock, sock, current_state, handled, c2s, agent, clicks, issued,
                     faults>>
      /\ pc[Reader] = "recv"
    BY DEF Recv
<1>2. rsock \in Conns
    BY <1>1 DEF LinkInv, ServerType, Receiving
<1>3. /\ ThreadType' /\ pc'[Reader] # "recv"
      /\ rbuf' \in Seq(Lines) /\ Shape(rbuf')
      /\ s2c' \in [Conns -> Seq(Lines)]
  <2>1. {"lines", "clear", "look"} \subseteq ReaderPoints
      BY DEF ReaderPoints
  <2>2. CASE /\ rbuf' = Events(rbuf \o s2c[rsock]) /\ s2c' = [s2c EXCEPT ![rsock] = <<>>]
             /\ Goto(Reader, "lines")
    <3>1. rbuf \o s2c[rsock] \in Seq(Lines)
        BY <1>2 DEF LinkInv, ServerType, WireType
    <3>2. rbuf' \in Seq(Lines) /\ Shape(rbuf')
        BY <2>2, <3>1, EventsType DEF Lines
    <3>3. s2c' \in [Conns -> Seq(Lines)]
      <4>1. s2c \in [Conns -> Seq(Lines)] /\ <<>> \in Seq(Lines)
          BY DEF LinkInv, WireType
      <4> QED BY <2>2, <4>1
    <3>4. ThreadType'
        BY <1>1, <2>1, <2>2, ThreadsAre, Moves DEF LinkInv, ThreadType
    <3> QED BY <2>2, <3>2, <3>3, <3>4, ThreadsAre DEF Goto, LinkInv, ThreadType
  <2>3. CASE Goto(Reader, "clear") /\ UNCHANGED <<rbuf, s2c>>
    <3>1. ThreadType'
        BY <1>1, <2>1, <2>3, ThreadsAre, Moves DEF LinkInv, ThreadType
    <3> QED BY <2>3, <3>1, ThreadsAre DEF Goto, LinkInv, ThreadType, ServerType, WireType
  <2>4. CASE Goto(Reader, "look") /\ UNCHANGED <<rbuf, s2c>>
    <3>1. ThreadType'
        BY <1>1, <2>1, <2>4, ThreadsAre, Moves DEF LinkInv, ThreadType
    <3> QED BY <2>4, <3>1, ThreadsAre DEF Goto, LinkInv, ThreadType, ServerType, WireType
  <2> QED BY <2>2, <2>3, <2>4 DEF Recv
<1>4. ServerType'
    BY <1>1, <1>3 DEF LinkInv, ServerType, Shape
<1>5. WireType' /\ Receiving'
    BY <1>1, <1>3 DEF LinkInv, WireType, Receiving
<1> QED BY <1>1, <1>3, <1>4, <1>5, AgentStill DEF LinkInv

LEMMA LinesDoneTypes == ASSUME LinkInv, LinesDone PROVE LinkInv'
<1>1. /\ UNCHANGED <<cmd, local, rsock, rbuf, sock, current_state, handled, c2s, s2c, agent,
                     clicks, issued, faults>>
      /\ Goto(Reader, "look")
    BY DEF LinesDone
<1>2. ThreadType'
  <2>1. "look" \in ReaderPoints
      BY DEF ReaderPoints
  <2> QED BY <1>1, <2>1, ThreadsAre, Moves DEF LinkInv, ThreadType
<1>3. ServerType' /\ WireType'
    BY <1>1 DEF LinkInv, ServerType, WireType
<1>4. Receiving'
    BY <1>1, ThreadsAre DEF Goto, LinkInv, ThreadType, Receiving
<1> QED BY <1>1, <1>2, <1>3, <1>4, AgentStill DEF LinkInv

\* The first line of a buffer that has a whole one is an event.
LEMMA FirstLine ==
    ASSUME rbuf \in Seq(Lines), Shape(rbuf), ~NoLine
    PROVE  /\ rbuf # <<>> /\ Head(rbuf) = rbuf[1] /\ 1 \in DOMAIN rbuf
           /\ Head(rbuf) > 0 /\ Head(rbuf) \in 0..MaxClicks
           /\ Tail(rbuf) \in Seq(Lines) /\ Shape(Tail(rbuf))
           /\ Len(Tail(rbuf)) = Len(rbuf) - 1
           /\ \A k \in 1..(Len(rbuf) - 1) : Tail(rbuf)[k] = rbuf[k + 1]
<1>1. rbuf # <<>> /\ rbuf # <<Half>>
    BY DEF NoLine
<1>2. Len(rbuf) \in Nat \ {0} /\ DOMAIN rbuf = 1..Len(rbuf) /\ Head(rbuf) = rbuf[1]
    BY <1>1
<1>3. /\ Tail(rbuf) \in Seq(Lines) /\ Len(Tail(rbuf)) = Len(rbuf) - 1
      /\ \A k \in 1..(Len(rbuf) - 1) : Tail(rbuf)[k] = rbuf[k + 1]
    BY <1>1, HeadTailProperties
<1>4. rbuf[1] > 0
  <2>1. CASE rbuf[1] = Half /\ 1 = Len(rbuf)
    <3>1. rbuf = <<Half>>
        BY <2>1
    <3> QED BY <1>1, <3>1
  <2> QED BY <1>2, <2>1 DEF Shape
<1>5. rbuf[1] \in 0..MaxClicks
  <2>1. rbuf[1] \in Lines
      BY <1>2
  <2> QED BY <1>4, <2>1, LineTypes
<1>6. Shape(Tail(rbuf))
  <2>1. DOMAIN Tail(rbuf) = 1..(Len(rbuf) - 1)
      BY <1>3
  <2>2. ASSUME NEW k \in 1..(Len(rbuf) - 1)
        PROVE  Tail(rbuf)[k] > 0 \/ (Tail(rbuf)[k] = Half /\ k = Len(rbuf) - 1)
    <3>1. k + 1 \in 1..Len(rbuf) /\ (k + 1 = Len(rbuf) => k = Len(rbuf) - 1)
      <4>1. PICK n : n = Len(rbuf)
          OBVIOUS
      <4>2. n \in Nat /\ k \in 1..(n - 1)
          BY <1>2, <4>1
      <4>3. k + 1 \in 1..n /\ (k + 1 = n => k = n - 1)
          BY <4>2
      <4> QED BY <4>1, <4>3
    <3>2. rbuf[k + 1] > 0 \/ (rbuf[k + 1] = Half /\ k + 1 = Len(rbuf))
        BY <1>2, <3>1 DEF Shape
    <3> QED BY <1>3, <3>1, <3>2
  <2> QED BY <1>3, <2>1, <2>2 DEF Shape
<1> QED BY <1>1, <1>2, <1>3, <1>4, <1>5, <1>6

LEMMA EventLineTypes == ASSUME LinkInv, EventLine PROVE LinkInv'
<1> DEFINE c == [state |-> IF Head(rbuf) % 2 = 1 THEN "listening" ELSE "thinking", len |-> 1]
<1>1. /\ UNCHANGED <<local, rsock, sock, current_state, c2s, s2c, agent, clicks, issued, faults>>
      /\ ~NoLine /\ handled' = Head(rbuf) /\ rbuf' = Tail(rbuf)
      /\ cmd' = [cmd EXCEPT ![Reader] = c] /\ Goto(Reader, "send")
    BY DEF EventLine
<1>2. c \in Commands
    BY DEF Commands, AgentStates
<1> HIDE DEF c
<1>3. ThreadType'
  <2>1. "send" \in ReaderPoints
      BY DEF ReaderPoints
  <2>2. cmd' \in [Threads -> Commands]
      BY <1>1, <1>2 DEF LinkInv, ThreadType
  <2> QED BY <1>1, <2>1, <2>2, ThreadsAre, Moves DEF LinkInv, ThreadType
<1>4. handled' \in 0..MaxClicks /\ rbuf' \in Seq(Lines) /\ Shape(rbuf')
    BY <1>1, FirstLine DEF LinkInv, ServerType
<1>5. ServerType'
    BY <1>1, <1>4 DEF LinkInv, ServerType, Shape
<1>6. WireType'
    BY <1>1 DEF LinkInv, WireType
<1>7. Receiving'
    BY <1>1, ThreadsAre DEF Goto, LinkInv, ThreadType, Receiving
<1> QED BY <1>1, <1>3, <1>5, <1>6, <1>7, AgentStill DEF LinkInv

LEMMA CallbackFailsTypes == ASSUME LinkInv, CallbackFails PROVE LinkInv'
<1>1. /\ UNCHANGED <<local, rsock, rbuf, sock, handled, c2s, s2c, agent, clicks, issued>>
      /\ current_state' = cmd[Reader].state /\ Goto(Reader, "clear") /\ Forget(Reader)
      /\ faults < MaxFaults /\ faults' = faults + 1
    BY DEF CallbackFails, Fault
<1>2. ThreadType'
  <2>1. "clear" \in ReaderPoints /\ cmd' \in [Threads -> Commands]
      BY <1>1, Forgets, ThreadsAre DEF ReaderPoints, LinkInv
  <2> QED BY <1>1, <2>1, ThreadsAre, Moves DEF LinkInv, ThreadType
<1>3. ServerType' /\ WireType' /\ AgentType'
    BY <1>1, CommandState, ThreadsAre DEF LinkInv, ServerType, WireType, AgentType, agent
<1>4. Receiving'
    BY <1>1, ThreadsAre DEF Goto, LinkInv, ThreadType, Receiving
<1>5. CountType'
    BY <1>1, BoundsNat DEF LinkInv, CountType, issued
<1>6. FlagType'
  <2>1. UNCHANGED <<agent_up, btn_prev, overlong>>
      BY <1>1 DEF agent, issued
  <2> QED BY <2>1 DEF LinkInv, FlagType
<1> QED BY <1>2, <1>3, <1>4, <1>5, <1>6 DEF LinkInv

LEMMA ClearTypes == ASSUME LinkInv, Clear PROVE LinkInv'
<1>1. /\ UNCHANGED <<cmd, local, rsock, rbuf, current_state, handled, c2s, agent, clicks, issued,
                     faults>>
      /\ sock' = None /\ Goto(Reader, "reconnect") /\ DropUnread
    BY DEF Clear
<1>2. ThreadType'
  <2>1. "reconnect" \in ReaderPoints
      BY DEF ReaderPoints
  <2> QED BY <1>1, <2>1, ThreadsAre, Moves DEF LinkInv, ThreadType
<1>3. ServerType' /\ WireType'
    BY <1>1, Drops DEF LinkInv, ServerType, WireType
<1>4. Receiving'
    BY <1>1, ThreadsAre DEF Goto, LinkInv, ThreadType, Receiving
<1> QED BY <1>1, <1>2, <1>3, <1>4, AgentStill DEF LinkInv

LEMMA ReaderEndsTypes == ASSUME LinkInv, ReaderEnds PROVE LinkInv'
<1>1. /\ UNCHANGED <<cmd, local, sock, current_state, handled, c2s, agent, clicks, issued, faults>>
      /\ rsock' = None /\ rbuf' = <<>> /\ Goto(Reader, "dead") /\ DropUnread
    BY DEF ReaderEnds
<1>2. ThreadType'
  <2>1. "dead" \in ReaderPoints
      BY DEF ReaderPoints
  <2> QED BY <1>1, <2>1, ThreadsAre, Moves DEF LinkInv, ThreadType
<1>3. ServerType' /\ WireType'
    BY <1>1, Drops DEF LinkInv, ServerType, WireType, Shape
<1>4. Receiving'
    BY <1>1, ThreadsAre DEF Goto, LinkInv, ThreadType, Receiving
<1> QED BY <1>1, <1>2, <1>3, <1>4, AgentStill DEF LinkInv

\* The steps of the threads keep the types.
LEMMA ThreadTypes ==
    ASSUME LinkInv, (\E t \in Handlers : Begin(t)) \/ (\E t \in Threads : CmdStep(t)) \/ ReadStep
                    \/ CallbackFails
    PROVE  LinkInv'
<1>1. CASE \E t \in Handlers : Begin(t)
    BY <1>1, BeginTypes
<1>2. ASSUME NEW t \in Threads, CmdStep(t) PROVE LinkInv'
  <2>1. CASE Send(t) \/ Check(t) \/ Alive(t) \/ Resend(t) \/ Note(t)
      BY <2>1, SendTypes, CheckTypes, AliveTypes, ResendTypes, NoteTypes
  <2>2. CASE Connect(t)
    <3>1. "store" \in Points /\ "store" \in ReaderPoints
        BY DEF Points, ReaderPoints
    <3> QED BY <2>2, <3>1, ConnectTypes DEF Connect
  <2>3. CASE Store(t)
    <3>1. "alive" \in Points /\ "resend" \in ReaderPoints
        BY DEF Points, ReaderPoints
    <3>2. CASE t = Reader
      <4>1. StoreFrom(t, "store", "resend")
          BY <2>3, <3>2 DEF Store
      <4> QED BY <3>1, <3>2, <4>1, StoreTypes, ThreadsAre
    <3>3. CASE t # Reader
      <4>1. StoreFrom(t, "store", "alive")
          BY <2>3, <3>3 DEF Store
      <4> QED BY <3>1, <3>3, <4>1, StoreTypes
    <3> QED BY <3>2, <3>3
  <2> QED BY <1>2, <2>1, <2>2, <2>3 DEF CmdStep
<1>3. CASE ReadStep
  <2>1. /\ {"boot_store", "look", "restore"} \subseteq ReaderPoints
      BY DEF ReaderPoints
  <2>2. CASE Boot
      BY <2>1, <2>2, ThreadsAre, ConnectTypes, StoreTypes DEF Boot
  <2>3. CASE Reconnect
      BY <2>1, <2>3, ThreadsAre, ConnectTypes, StoreTypes DEF Reconnect
  <2> QED BY <1>3, <2>2, <2>3, LookTypes, RecvTypes, LinesDoneTypes, EventLineTypes, ClearTypes,
             ReaderEndsTypes DEF ReadStep
<1> QED BY <1>1, <1>2, <1>3, CallbackFailsTypes

---------------------------------------------------------------------------
(* The types: the agent, the user and the faults.                          *)

\* There is a slot.
LEMMA SlotsAre == MaxClients \in Nat \ {0} /\ Slots \subseteq Nat /\ 1 \in Slots
    BY BoundsNat DEF Slots

\* accept takes the first free slot.
LEMMA FirstFree ==
    ASSUME FreeSlots # {}
    PROVE  (CHOOSE i \in FreeSlots : \A j \in FreeSlots : i <= j) \in FreeSlots
<1>1. FreeSlots \in SUBSET (1..MaxClients) /\ MaxClients \in Nat
    BY SlotsAre DEF FreeSlots, Slots
<1>2. FreeSlots \in SUBSET Nat /\ IsFiniteSet(FreeSlots)
    BY <1>1, Places
<1>3. \E i \in FreeSlots : \A j \in FreeSlots : i <= j
    BY <1>2, Extremes
<1> QED BY <1>3

\* A cleared buffer of a slot has its type and bound.
LEMMA NoBuffer == Len(<<>>) <= RxCap /\ <<>> \in Seq({"text"})
    BY BoundsNat

\* An empty buffer for a slot.
LEMMA Reslot ==
    ASSUME LinkInv, NEW i \in Slots, NEW c \in Conns \cup {None},
           slots' = [slots EXCEPT ![i] = c], buf' = [buf EXCEPT ![i] = <<>>],
           backlog' \in Seq(Conns), shown' \in AgentStates
    PROVE  AgentType'
<1>1. slots' \in [Slots -> Conns \cup {None}]
    BY DEF LinkInv, AgentType
<1>2. buf' \in [Slots -> Seq({"text"})]
    BY NoBuffer DEF LinkInv, AgentType
<1>3. ASSUME NEW j \in Slots PROVE Len(buf'[j]) <= RxCap
    BY NoBuffer DEF LinkInv, AgentType
<1> QED BY <1>1, <1>2, <1>3 DEF AgentType

\* accept keeps the types, with a free slot or without.
LEMMA AcceptTypes == ASSUME LinkInv, AcceptClients PROVE LinkInv'
<1>1. /\ UNCHANGED <<python, c2s, s2c, agent_up, shown, btn_prev, clicks, issued, faults>>
      /\ backlog # <<>> /\ backlog' = Tail(backlog)
    BY DEF AcceptClients
<1>2. backlog' \in Seq(Conns) /\ Head(backlog) \in Conns
    BY <1>1 DEF LinkInv, AgentType
<1>3. AgentType'
  <2>1. CASE FreeSlots = {}
      BY <1>1, <1>2, <2>1 DEF AcceptClients, LinkInv, AgentType
  <2>2. CASE FreeSlots # {}
    <3>1. PICK i : i = CHOOSE k \in FreeSlots : \A j \in FreeSlots : k <= j
        OBVIOUS
    <3>2. i \in Slots
        BY <2>2, <3>1, FirstFree DEF FreeSlots
    <3>3. slots' = [slots EXCEPT ![i] = Head(backlog)] /\ buf' = [buf EXCEPT ![i] = <<>>]
        BY <2>2, <3>1 DEF AcceptClients
    <3> QED BY <1>1, <1>2, <3>2, <3>3, Reslot DEF LinkInv, AgentType
  <2> QED BY <2>1, <2>2
<1>4. WireType' /\ CountType'
    BY <1>1 DEF LinkInv, WireType, CountType, issued
<1>5. FlagType'
  <2>1. UNCHANGED <<agent_up, btn_prev, overlong>>
      BY <1>1 DEF issued
  <2> QED BY <2>1 DEF LinkInv, FlagType
<1> QED BY <1>1, <1>3, <1>4, <1>5, ServerStill DEF LinkInv

\* The end of the agent leaves empty slots and buffers.
LEMMA DiesType == ASSUME Dies, shown' \in AgentStates PROVE AgentType' /\ agent_up' = FALSE
<1>1. buf' = [i \in Slots |-> <<>>] /\ slots' = [i \in Slots |-> None] /\ backlog' = <<>>
    BY DEF Dies
<1>2. buf' \in [Slots -> Seq({"text"})]
    BY <1>1, NoBuffer
<1>3. ASSUME NEW i \in Slots PROVE Len(buf'[i]) <= RxCap
    BY <1>1, NoBuffer
<1>4. slots' \in [Slots -> Conns \cup {None}] /\ backlog' \in Seq(Conns)
    BY <1>1
<1> QED BY <1>2, <1>3, <1>4 DEF Dies, AgentType

\* What the agent had not read when it ended is lost.
LEMMA LosesType == ASSUME LoseUnread PROVE c2s' \in [Conns -> Seq(Units)]
    BY DEF LoseUnread

\* What a read leaves: the buffer holds the text after the last whole line, and no more than
\* it has room for; together with what is still in the connection it is a part of what
\* there was.
LEMMA ReadIs ==
    ASSUME LinkInv, NEW i \in Slots, NEW c \in Conns,
           NEW n \in 0..Len(c2s[c]), n <= Space(i),
           NEW data, data = buf[i] \o SubSeq(c2s[c], 1, n)
    PROVE  /\ data \in Seq(Units)
           /\ Remains(data) \in Seq({"text"}) /\ Len(Remains(data)) <= RxCap
           /\ SubSeq(c2s[c], n + 1, Len(c2s[c])) \in Seq(Units)
           /\ \E m \in 0..Len(buf[i] \o c2s[c]) :
                 Remains(data) \o SubSeq(c2s[c], n + 1, Len(c2s[c]))
                    = SubSeq(buf[i] \o c2s[c], m + 1, Len(buf[i] \o c2s[c]))
<1> DEFINE b == buf[i]
           q == c2s[c]
           p == SubSeq(q, 1, n)
           r == SubSeq(q, n + 1, Len(q))
<1>1. b \in Seq(Units) /\ Len(b) \in Nat /\ Len(b) <= RxCap /\ q \in Seq(Units)
  <2>1. b \in Seq({"text"}) /\ Len(b) <= RxCap /\ q \in Seq(Units)
      BY DEF LinkInv, AgentType, WireType
  <2>2. {"text"} \subseteq Units
      BY DEF Units
  <2> HIDE DEF b
  <2> QED BY <2>1, <2>2, SeqMonotonic
<1>2. data = b \o p /\ n \in 0..Len(q) /\ n + Len(b) <= RxCap
  <2>1. n <= RxCap - Len(b)
      BY DEF Space
  <2>2. n \in Nat /\ RxCap \in Nat
      BY BoundsNat
  <2>3. data = b \o p
      OBVIOUS
  <2>4. PICK l : l = Len(b)
      OBVIOUS
  <2>5. n + l <= RxCap
      BY <1>1, <2>1, <2>2, <2>4
  <2>6. n \in 0..Len(q)
      OBVIOUS
  <2> HIDE DEF b, p, q
  <2> QED BY <2>3, <2>4, <2>5, <2>6
<1> HIDE DEF b, q
<1>3. p \in Seq(Units) /\ Len(p) = n /\ r \in Seq(Units)
  <2>1. n \in 0..Len(q)
      BY <1>2
  <2> QED BY <1>1, <2>1
<1>4. (b \o p) \o r = b \o q
    BY <1>1, <1>2, Joined
<1> HIDE DEF p, r
<1>5. data \in Seq(Units) /\ Len(data) = Len(b) + n
    BY <1>1, <1>2, <1>3, ConcatProperties
<1>6. PICK m \in 0..Len(data) : Remains(data) = SubSeq(data, m + 1, Len(data))
    BY <1>5, RemainsAre
<1>7. Remains(data) \o r = SubSeq(b \o q, m + 1, Len(b \o q))
  <2>1. SubSeq(data, m + 1, Len(data)) \o r = SubSeq(data \o r, m + 1, Len(data \o r))
      BY <1>3, <1>5, <1>6, Suffix
  <2> QED BY <1>2, <1>4, <1>6, <2>1
<1>8. m \in 0..Len(b \o q)
  <2>1. Len(data \o r) = Len(data) + Len(r)
      BY <1>3, <1>5, ConcatProperties
  <2>2. data \o r = b \o q
      BY <1>2, <1>4
  <2>3. PICK l, k : l = Len(data) /\ k = Len(r)
      OBVIOUS
  <2>4. l \in Nat /\ k \in Nat
      BY <1>3, <1>5, <2>3, LenProperties
  <2>5. m \in 0..l
      BY <1>6, <2>3
  <2>6. m \in 0..(l + k)
      BY <2>4, <2>5
  <2> QED BY <2>1, <2>2, <2>3, <2>6
<1>9. Remains(data) \in Seq({"text"}) /\ Len(Remains(data)) <= RxCap
  <2>1. Remains(data) \in Seq({"text"}) /\ Len(Remains(data)) <= Len(data)
      BY <1>5, RemainsAre
  <2>2. PICK l, k : l = Len(data) /\ k = Len(Remains(data))
      OBVIOUS
  <2>3. l \in Nat /\ k \in Nat
      BY <1>5, <2>1, <2>2, LenProperties
  <2>4. k <= l /\ l <= RxCap
    <3>1. PICK x : x = Len(b)
        OBVIOUS
    <3>2. l = x + n /\ n + x <= RxCap /\ x \in Nat /\ n \in Int
        BY <1>1, <1>2, <1>5, <2>2, <3>1
    <3>3. k <= l
        BY <2>1, <2>2
    <3> QED BY <3>2, <3>3
  <2>5. k <= RxCap
      BY <2>3, <2>4, BoundsNat
  <2> QED BY <2>1, <2>2, <2>5
<1> QED BY <1>3, <1>5, <1>7, <1>8, <1>9 DEF b, q, r

\* How much a read takes.
Taken(i) == IF Len(c2s[slots[i]]) < Space(i) THEN Len(c2s[slots[i]]) ELSE Space(i)

\* A read takes no more than there is, and no more than there is room for.
LEMMA TakenIs ==
    ASSUME LinkInv, NEW i \in Slots, NEW c \in Conns, c = slots[i], Taken(i) > 0
    PROVE  Taken(i) \in 0..Len(c2s[c]) /\ Taken(i) <= Space(i)
<1>1. PICK l, b : l = Len(c2s[c]) /\ b = Len(buf[i])
    OBVIOUS
<1>2. l \in Nat /\ b \in Nat /\ RxCap \in Nat
  <2>1. c2s[c] \in Seq(Units) /\ buf[i] \in Seq({"text"})
      BY DEF LinkInv, WireType, AgentType
  <2> QED BY <1>1, <2>1, LenProperties, BoundsNat
<1>3. Taken(i) = IF l < RxCap - b THEN l ELSE RxCap - b
    BY <1>1 DEF Taken, Space
<1>4. Space(i) = RxCap - b
    BY <1>1 DEF Space
<1>5. PICK n : n = Taken(i)
    OBVIOUS
<1>6. n \in 0..l /\ n <= RxCap - b
    BY <1>2, <1>3, <1>5
<1> QED BY <1>1, <1>4, <1>5, <1>6

\* ReadSlot: it takes n units of connection c, which makes data.
Reads(i, c, n, data) ==
    /\ c = slots[i] /\ n > 0 /\ n <= Space(i) /\ agent_up
    /\ data = buf[i] \o SubSeq(c2s[c], 1, n)
    /\ shown' = IF Ends(data) = {} THEN shown
                ELSE data[CHOOSE k \in Ends(data) : \A j \in Ends(data) : j <= k]
    /\ \/ /\ s2c' = [s2c EXCEPT ![c] = IF Ends(data) # {} /\ @ = <<>> THEN <<Reply>> ELSE @]
          /\ buf' = [buf EXCEPT ![i] = Remains(data)]
          /\ c2s' = [c2s EXCEPT ![c] = SubSeq(@, n + 1, Len(@))]
          /\ UNCHANGED <<backlog, slots, agent_up>>
       \/ ~PyHas(c) /\ Dies /\ LoseUnread /\ UNCHANGED s2c
    /\ UNCHANGED <<python, btn_prev, clicks, issued, faults>>

\* ReadSlot is a read of some bytes of one connection (Reads).
LEMMA ReadSlotIs ==
    ASSUME LinkInv, NEW i \in Slots, ReadSlot(i)
    PROVE  \E c \in Conns : \E n \in 0..Len(c2s[c]) : \E data : Reads(i, c, n, data)
<1>1. PICK c : c = slots[i]
    OBVIOUS
<1>2. c # None /\ c \in Conns /\ agent_up
    BY <1>1 DEF ReadSlot, LinkInv, AgentType
<1>3. PICK n : n = Taken(i)
    OBVIOUS
<1>4. n > 0
    BY <1>1, <1>3 DEF ReadSlot, Taken
<1>5. n \in 0..Len(c2s[c]) /\ n <= Space(i)
    BY <1>1, <1>2, <1>3, <1>4, TakenIs
<1>6. PICK data : data = buf[i] \o SubSeq(c2s[c], 1, n)
    OBVIOUS
<1>7. shown' = IF Ends(data) = {} THEN shown
               ELSE data[CHOOSE k \in Ends(data) : \A j \in Ends(data) : j <= k]
    BY <1>1, <1>3, <1>6 DEF ReadSlot, Taken
<1>8. IF Ends(data) = {} \/ PyHas(c)
           THEN /\ s2c' = [s2c EXCEPT ![c] = IF Ends(data) # {} /\ @ = <<>> THEN <<Reply>> ELSE @]
                /\ buf' = [buf EXCEPT ![i] = Remains(data)]
                /\ c2s' = [c2s EXCEPT ![c] = SubSeq(@, n + 1, Len(@))]
                /\ UNCHANGED <<backlog, slots, agent_up>>
           ELSE Dies /\ LoseUnread /\ UNCHANGED s2c
    BY <1>1, <1>3, <1>6 DEF ReadSlot, Taken
<1>9. UNCHANGED <<python, btn_prev, clicks, issued, faults>>
    BY DEF ReadSlot
<1>10. Reads(i, c, n, data)
    BY <1>1, <1>2, <1>4, <1>5, <1>6, <1>7, <1>8, <1>9 DEF Reads
<1> QED BY <1>2, <1>5, <1>10

\* Each step of the agent keeps the types.
LEMMA ReadSlotTypes == ASSUME LinkInv, NEW i \in Slots, ReadSlot(i) PROVE LinkInv'
<1>1. PICK c \in Conns : \E n \in 0..Len(c2s[c]) : \E data : Reads(i, c, n, data)
    BY ReadSlotIs
<1>2. PICK n \in 0..Len(c2s[c]) : \E data : Reads(i, c, n, data)
    BY <1>1
<1>3. PICK data : Reads(i, c, n, data)
    BY <1>2
<1>4. /\ data \in Seq(Units)
      /\ Remains(data) \in Seq({"text"}) /\ Len(Remains(data)) <= RxCap
      /\ SubSeq(c2s[c], n + 1, Len(c2s[c])) \in Seq(Units)
    BY <1>3, ReadIs DEF Reads
<1>5. shown' \in AgentStates
    BY <1>3, <1>4, LastState DEF LinkInv, AgentType, Reads
<1>6. AgentType' /\ WireType' /\ FlagType'
  <2>1. CASE /\ s2c' = [s2c EXCEPT ![c] = IF Ends(data) # {} /\ @ = <<>> THEN <<Reply>> ELSE @]
             /\ buf' = [buf EXCEPT ![i] = Remains(data)]
             /\ c2s' = [c2s EXCEPT ![c] = SubSeq(@, n + 1, Len(@))]
             /\ UNCHANGED <<backlog, slots, agent_up>>
    <3>1. buf' \in [Slots -> Seq({"text"})]
        BY <1>4, <2>1 DEF LinkInv, AgentType
    <3>2. ASSUME NEW j \in Slots PROVE Len(buf'[j]) <= RxCap
        BY <1>4, <2>1 DEF LinkInv, AgentType
    <3>3. c2s' \in [Conns -> Seq(Units)]
        BY <1>4, <2>1 DEF LinkInv, WireType
    <3>4. s2c' \in [Conns -> Seq(Lines)]
      <4>1. <<Reply>> \in Seq(Lines)
          BY LineTypes
      <4> QED BY <2>1, <4>1 DEF LinkInv, WireType
    <3>5. FlagType'
      <4>1. UNCHANGED <<agent_up, btn_prev, overlong>>
          BY <1>3, <2>1 DEF issued, Reads
      <4> QED BY <4>1 DEF LinkInv, FlagType
    <3> QED BY <1>5, <2>1, <3>1, <3>2, <3>3, <3>4, <3>5 DEF LinkInv, AgentType, WireType
  <2>2. CASE Dies /\ LoseUnread /\ UNCHANGED s2c
    <3>1. FlagType'
      <4>1. agent_up' = FALSE /\ UNCHANGED <<btn_prev, overlong>>
          BY <1>3, <2>2 DEF issued, Dies, Reads
      <4> QED BY <4>1 DEF LinkInv, FlagType
    <3> QED BY <1>5, <2>2, <3>1, DiesType, LosesType DEF LinkInv, WireType
  <2> QED BY <1>3, <2>1, <2>2 DEF Reads
<1>7. UNCHANGED <<python, clicks, issued, faults>>
    BY <1>3 DEF Reads
<1>8. CountType'
    BY <1>7 DEF LinkInv, CountType, issued
<1> QED BY <1>6, <1>7, <1>8, ServerStill DEF LinkInv

LEMMA EndSlotTypes == ASSUME LinkInv, NEW i \in Slots, EndSlot(i) PROVE LinkInv'
<1>1. /\ UNCHANGED <<python, s2c, backlog, agent_up, shown, btn_prev, clicks, issued, faults>>
      /\ slots' = [slots EXCEPT ![i] = None] /\ buf' = [buf EXCEPT ![i] = <<>>]
      /\ c2s' = [c2s EXCEPT ![slots[i]] = <<>>]
    BY DEF EndSlot
<1>2. AgentType'
    BY <1>1, Reslot DEF LinkInv, AgentType
<1>3. WireType'
  <2>1. c2s \in [Conns -> Seq(Units)] /\ <<>> \in Seq(Units)
      BY DEF LinkInv, WireType
  <2>2. c2s' \in [Conns -> Seq(Units)]
      BY <1>1, <2>1
  <2> QED BY <1>1, <2>2 DEF LinkInv, WireType
<1>4. CountType'
    BY <1>1 DEF LinkInv, CountType, issued
<1>5. FlagType'
  <2>1. UNCHANGED <<agent_up, btn_prev, overlong>>
      BY <1>1 DEF issued
  <2> QED BY <2>1 DEF LinkInv, FlagType
<1> QED BY <1>1, <1>2, <1>3, <1>4, <1>5, ServerStill DEF LinkInv

\* The button is pressed or not.
LEMMA Bool == Pressed \in BOOLEAN
    BY DEF Pressed

LEMMA PollTypes == ASSUME LinkInv, PollButtons PROVE LinkInv'
<1> DEFINE gone == {i \in Clients : ~PyHas(slots[i])}
           told == {slots[i] : i \in {j \in Clients : \A k \in gone : j < k}}
<1>1. /\ s2c' = [c \in Conns |-> IF c \in told THEN Append(s2c[c], clicks) ELSE s2c[c]]
      /\ btn_prev' = Pressed
      /\ UNCHANGED <<python, shown, clicks, issued, faults>>
    BY DEF PollButtons
<1>2. UNCHANGED <<c2s, backlog, slots, buf, agent_up>> \/ (Dies /\ LoseUnread)
    BY DEF PollButtons
<1> HIDE DEF told
<1>3. s2c' \in [Conns -> Seq(Lines)]
  <2>1. clicks \in Lines
      BY LineTypes DEF LinkInv, CountType
  <2>2. ASSUME NEW c \in Conns PROVE s2c'[c] \in Seq(Lines)
    <3>1. s2c[c] \in Seq(Lines)
        BY DEF LinkInv, WireType
    <3> QED BY <1>1, <2>1, <3>1
  <2> QED BY <1>1, <2>2
<1>4. FlagType'
  <2>1. overlong' = overlong
      BY <1>1 DEF issued
  <2>2. btn_prev' \in BOOLEAN
      BY <1>1, Bool
  <2>3. agent_up' = agent_up \/ agent_up' = FALSE
      BY <1>2 DEF Dies
  <2>4. agent_up' \in BOOLEAN
      BY <2>3 DEF LinkInv, FlagType
  <2> QED BY <2>1, <2>2, <2>4 DEF LinkInv, FlagType
<1>5. AgentType' /\ WireType'
    BY <1>1, <1>2, <1>3, DiesType, LosesType DEF LinkInv, AgentType, WireType
<1>6. CountType'
    BY <1>1 DEF LinkInv, CountType, issued
<1> QED BY <1>1, <1>4, <1>5, <1>6, ServerStill DEF LinkInv

\* The user, a kill and a start keep the types.
LEMMA ClickTypes == ASSUME LinkInv, Click PROVE LinkInv'
<1>1. /\ UNCHANGED <<python, c2s, s2c, agent, issued, faults>>
      /\ clicks < MaxClicks /\ clicks' = clicks + 1
    BY DEF Click
<1>2. CountType'
    BY <1>1, BoundsNat DEF LinkInv, CountType, issued
<1>3. AgentType' /\ WireType'
    BY <1>1 DEF LinkInv, AgentType, WireType, agent
<1>4. FlagType'
  <2>1. UNCHANGED <<agent_up, btn_prev, overlong>>
      BY <1>1 DEF issued, agent
  <2> QED BY <2>1 DEF LinkInv, FlagType
<1> QED BY <1>1, <1>2, <1>3, <1>4, ServerStill DEF LinkInv

LEMMA KilledTypes == ASSUME LinkInv, AgentKilled PROVE LinkInv'
<1>1. /\ UNCHANGED <<python, shown, btn_prev, clicks, issued>>
      /\ Dies /\ LoseUnread /\ faults < MaxFaults /\ faults' = faults + 1
    BY DEF AgentKilled, Fault
<1>2. s2c' \in [Conns -> Seq(Lines)]
  <2>1. ASSUME NEW i \in Slots, slots[i] # None, s2c' = [s2c EXCEPT ![slots[i]] = Append(@, Half)]
        PROVE  s2c' \in [Conns -> Seq(Lines)]
    <3>1. slots[i] \in Conns
        BY <2>1 DEF LinkInv, AgentType
    <3>2. Append(s2c[slots[i]], Half) \in Seq(Lines)
        BY <3>1, LineTypes DEF LinkInv, WireType
    <3> QED BY <2>1, <3>1, <3>2 DEF LinkInv, WireType
  <2> QED BY <2>1 DEF AgentKilled, LinkInv, WireType
<1>3. AgentType' /\ WireType'
    BY <1>1, <1>2, DiesType, LosesType DEF LinkInv, AgentType, WireType
<1>4. CountType'
    BY <1>1, BoundsNat DEF LinkInv, CountType, issued
<1>5. FlagType'
  <2>1. agent_up' = FALSE /\ UNCHANGED <<btn_prev, overlong>>
      BY <1>1 DEF issued, Dies
  <2> QED BY <2>1 DEF LinkInv, FlagType
<1> QED BY <1>1, <1>3, <1>4, <1>5, ServerStill DEF LinkInv

LEMMA StartTypes == ASSUME LinkInv, AgentStart PROVE LinkInv'
<1>1. /\ UNCHANGED <<python, c2s, s2c, backlog, slots, buf, clicks, issued, faults>>
      /\ agent_up' = TRUE /\ shown' = "idle" /\ btn_prev' = Pressed
    BY DEF AgentStart
<1>2. AgentType' /\ WireType' /\ CountType'
    BY <1>1 DEF LinkInv, AgentType, WireType, CountType, issued, AgentStates
<1>3. FlagType'
  <2>1. agent_up' \in BOOLEAN /\ overlong' = overlong
      BY <1>1 DEF issued
  <2>2. btn_prev' \in BOOLEAN
      BY <1>1, Bool
  <2> QED BY <2>1, <2>2 DEF LinkInv, FlagType
<1> QED BY <1>1, <1>2, <1>3, ServerStill DEF LinkInv

LEMMA RestartTypes == ASSUME LinkInv, ServerRestart PROVE LinkInv'
<1>1. /\ pc' = [t \in Threads |-> IF t = Reader THEN "boot" ELSE "idle"]
      /\ local' = [t \in Threads |-> None] /\ cmd' = [t \in Threads |-> NoCommand]
      /\ rsock' = None /\ rbuf' = <<>> /\ sock' = None /\ current_state' = "idle"
      /\ s2c' = [c \in Conns |-> <<>>]
      /\ UNCHANGED <<handled, c2s, agent, clicks, issued>>
      /\ faults < MaxFaults /\ faults' = faults + 1
    BY DEF ServerRestart, Fault
<1>2. ThreadType'
  <2>1. "idle" \in Points /\ "boot" \in ReaderPoints
      BY DEF Points, ReaderPoints
  <2> QED BY <1>1, <2>1, ThreadsAre, NoCommandType DEF ThreadType
<1>3. ServerType'
    BY <1>1 DEF LinkInv, ServerType, Shape, AgentStates
<1>4. WireType' /\ AgentType' /\ Receiving'
    BY <1>1, ThreadsAre DEF LinkInv, WireType, AgentType, Receiving, agent
<1>5. CountType'
    BY <1>1, BoundsNat DEF LinkInv, CountType, issued
<1>6. FlagType'
  <2>1. UNCHANGED <<agent_up, btn_prev, overlong>>
      BY <1>1 DEF agent, issued
  <2> QED BY <2>1 DEF LinkInv, FlagType
<1> QED BY <1>2, <1>3, <1>4, <1>5, <1>6 DEF LinkInv

\* The types hold when both programs start.
LEMMA LinkInit == Init => LinkInv
<1> SUFFICES ASSUME Init PROVE LinkInv
    OBVIOUS
<1>1. ThreadType
  <2>1. "idle" \in Points /\ "boot" \in ReaderPoints
      BY DEF Points, ReaderPoints
  <2> QED BY <2>1, ThreadsAre, NoCommandType DEF Init, ThreadType
<1>2. ServerType /\ WireType /\ Receiving
  <2>1. handled \in 0..MaxClicks
      BY BoundsNat DEF Init
  <2> QED BY <2>1, ThreadsAre DEF Init, ServerType, WireType, Receiving, Shape, AgentStates
<1>3. AgentType
  <2>1. buf \in [Slots -> Seq({"text"})] /\ \A i \in Slots : Len(buf[i]) <= RxCap
      BY NoBuffer DEF Init
  <2> QED BY <2>1 DEF Init, AgentType, AgentStates
<1>4. CountType
    BY BoundsNat DEF Init, CountType
<1>5. FlagType
    BY DEF Init, FlagType
<1> QED BY <1>1, <1>2, <1>3, <1>4, <1>5 DEF LinkInv

\* Every step keeps the types: one lemma for each action.
LEMMA LinkStep == LinkInv /\ [Next]_vars => LinkInv'
<1> SUFFICES ASSUME LinkInv, [Next]_vars PROVE LinkInv'
    OBVIOUS
<1>1. CASE (\E t \in Handlers : Begin(t)) \/ (\E t \in Threads : CmdStep(t)) \/ ReadStep
           \/ CallbackFails
    BY <1>1, ThreadTypes
<1>2. CASE AgentStep
    BY <1>2, AcceptTypes, PollTypes, ReadSlotTypes, EndSlotTypes DEF AgentStep
<1>3. CASE Click \/ AgentKilled \/ AgentStart \/ ServerRestart
    BY <1>3, ClickTypes, KilledTypes, StartTypes, RestartTypes
<1>4. CASE UNCHANGED vars
  <2>1. UNCHANGED <<python, agent, clicks, issued, faults, c2s, s2c>>
      BY <1>4 DEF vars
  <2>2. WireType'
      BY <2>1 DEF LinkInv, WireType
  <2> QED BY <2>1, <2>2, AgentStill, ServerStill DEF LinkInv
<1> QED BY <1>1, <1>2, <1>3, <1>4 DEF Next

\* Every variable keeps its type, and a slot's buffer never holds more than RX_BUF_SIZE - 1,
\* which leaves room for the NUL (process_client, accept_clients).
THEOREM LinkTypes == Spec => []TypeOK
<1>1. LinkInv => TypeOK
  <2> SUFFICES ASSUME LinkInv PROVE TypeOK
      OBVIOUS
  <2>1. agent_up \in BOOLEAN /\ btn_prev \in BOOLEAN /\ overlong \in BOOLEAN
      BY DEF LinkInv, FlagType
  <2>2. /\ c2s \in [Conns -> Seq(AgentStates \cup {"text"})]
        /\ s2c \in [Conns -> Seq(Half..MaxClicks)] /\ rbuf \in Seq(Half..MaxClicks)
      BY DEF LinkInv, WireType, ServerType, Units, Lines
  <2> QED BY <2>1, <2>2 DEF LinkInv, ThreadType, ServerType, AgentType, CountType, TypeOK
<1> QED BY <1>1, LinkInit, LinkStep, PTL DEF Spec

---------------------------------------------------------------------------
(* Nothing disturbed: the invariant, and what leaves its parts alone.      *)

\* The connection that __init__ made.
Conn == IF pc[Reader] = "boot_store" THEN local[Reader] ELSE sock

\* The agent has c, and nothing else, in its backlog or in a slot.
Waiting(c) == backlog = <<c>> /\ (\A i \in Slots : slots[i] = None) /\ Fits(c2s[c])
InSlot(c, i) == /\ backlog = <<>> /\ slots[i] = c /\ \A j \in Slots \ {i} : slots[j] = None
                /\ Fits(buf[i] \o c2s[c])
Held(c) == Waiting(c) \/ \E i \in Slots : InSlot(c, i)

\* Event n has happened; and if nothing happened since, the agent knows it.
Told(n) == n <= clicks /\ (n = clicks => btn_prev = Pressed)

Heard(line) == InOrder(line) /\ \A i \in DOMAIN line : line[i] >= 0 /\ Told(line[i])

CalmPoints == {"idle", "send", "check", "note"}
CalmReaderPoints == {"look", "recv", "lines", "send", "check", "note"}

\* No thread connects, but the one that runs __init__.
Threaded ==
    /\ \A t \in Handlers : pc[t] \in CalmPoints /\ local[t] = None
    /\ pc[Reader] \in CalmReaderPoints \cup {"boot", "boot_store"}
    /\ \A t \in Threads : cmd[t].len <= RxCap
    /\ Booting => sock = None /\ rsock = None /\ rbuf = <<>> /\ \A t \in Handlers : pc[t] = "idle"
    /\ pc[Reader] # "boot_store" => local[Reader] = None
    /\ rsock \in {None, sock}

Alone == backlog = <<>> /\ \A i \in Slots : slots[i] = None

OneLink == IF pc[Reader] = "boot" THEN Alone
           ELSE Conn \in Conns /\ Held(Conn) /\ Heard(rbuf \o s2c[Conn])

Calm == /\ agent_up /\ Threaded /\ OneLink /\ Told(handled)
        /\ \A k \in DOMAIN rbuf : rbuf[k] > 0

\* What Undisturbed rests on: no thread ever connects again, the one connection is in the
\* backlog or in one slot and what is on the way in it fits the slot's buffer, and what is
\* on the way to the server has happened.
CalmInv == faults = 0 /\ ~overlong => Calm

\* A connection in the backlog or in one slot is all that the agent has.
LEMMA HeldHas ==
    ASSUME LinkInv, NEW c \in Conns, Held(c)
    PROVE  AgentHas(c) /\ {d \in Conns : AgentHas(d)} = {c}
<1>1. None \notin Conns
    BY ThreadsDistinct
<1>2. CASE Waiting(c)
  <2>1. DOMAIN backlog = {1} /\ backlog[1] = c
      BY <1>2 DEF Waiting
  <2>2. {backlog[i] : i \in DOMAIN backlog} = {c}
      BY <2>1
  <2>3. \A i \in Slots : slots[i] = None
      BY <1>2 DEF Waiting
  <2> QED BY <1>1, <2>2, <2>3 DEF AgentHas
<1>3. ASSUME NEW i \in Slots, InSlot(c, i)
      PROVE  AgentHas(c) /\ {d \in Conns : AgentHas(d)} = {c}
  <2>1. {backlog[k] : k \in DOMAIN backlog} = {}
      BY <1>3 DEF InSlot
  <2>2. slots[i] = c /\ \A j \in Slots : j # i => slots[j] = None
      BY <1>3 DEF InSlot
  <2> QED BY <1>1, <2>1, <2>2 DEF AgentHas
<1> QED BY <1>2, <1>3 DEF Held

\* A calm server has the connection, and once booted it is its socket.
LEMMA CalmHas ==
    ASSUME LinkInv, Calm, pc[Reader] # "boot", NEW c, c = Conn
    PROVE  /\ c \in Conns /\ c # None /\ PyHas(c) /\ AgentHas(c)
           /\ {d \in Conns : AgentHas(d)} = {c}
           /\ ~Booting => sock = c
<1>1. c \in Conns /\ Held(c) /\ c # None
    BY ThreadsDistinct DEF Calm, OneLink
<1>2. PyHas(c)
  <2>1. local[Reader] \in {local[t] : t \in Threads}
      BY ThreadsAre
  <2> QED BY <2>1 DEF PyHas, Conn
<1>3. ~Booting => sock = c
    BY DEF Booting, Conn
<1> QED BY <1>1, <1>2, <1>3, HeldHas

\* A step that leaves the agent's connections alone leaves a held one held.
LEMMA HeldStill ==
    ASSUME NEW c, Held(c), UNCHANGED <<backlog, slots, buf, c2s>>
    PROVE  Held(c)'
<1>1. CASE Waiting(c)
    BY <1>1 DEF Waiting, Held
<1>2. ASSUME NEW i \in Slots, InSlot(c, i) PROVE InSlot(c, i)'
    BY <1>2 DEF InSlot
<1> QED BY <1>1, <1>2 DEF Held

\* A step without a click and without a poll changes nothing of what was told.
LEMMA ToldStill ==
    ASSUME NEW n, Told(n), UNCHANGED <<clicks, btn_prev>>
    PROVE  Told(n)'
    BY DEF Told, Pressed

\* Nor does it change what is heard.
LEMMA HeardStill ==
    ASSUME NEW line, Heard(line), UNCHANGED <<handled, clicks, btn_prev>>
    PROVE  Heard(line)'
<1>1. InOrder(line)'
    BY DEF Heard, InOrder
<1>2. \A i \in DOMAIN line : line[i] >= 0 /\ Told(line[i])'
    BY ToldStill DEF Heard
<1> QED BY <1>1, <1>2 DEF Heard

\* A socket that the server still refers to keeps what was not read.
LEMMA DropKeeps ==
    ASSUME DropUnread, NEW c \in Conns, PyHas(c)'
    PROVE  s2c'[c] = s2c[c]
    BY DEF DropUnread

\* A step of a thread that leaves the connection as it is.
LEMMA LinkKeeps ==
    ASSUME Calm, ~Booting, ~Booting', sock' = sock, Held(sock)', s2c'[sock] = s2c[sock],
           UNCHANGED <<rbuf, handled, clicks, btn_prev, agent_up>>
    PROVE  agent_up' /\ OneLink' /\ Told(handled)' /\ \A k \in DOMAIN rbuf' : rbuf'[k] > 0
<1>1. PICK c, line : c = sock /\ line = rbuf \o s2c[sock]
    OBVIOUS
<1>2. pc[Reader] \notin {"boot", "boot_store"} /\ pc'[Reader] \notin {"boot", "boot_store"}
    BY DEF Booting
<1>3. c \in Conns /\ Heard(line)
    BY <1>1, <1>2 DEF Calm, OneLink, Conn
<1>4. Heard(line)'
    BY <1>3, HeardStill
<1>5. Conn' = c /\ Held(c)' /\ rbuf' \o s2c'[c] = line
    BY <1>1, <1>2 DEF Conn
<1>6. OneLink'
    BY <1>2, <1>3, <1>4, <1>5 DEF OneLink
<1>7. Told(handled)'
  <2>1. PICK n : n = handled
      OBVIOUS
  <2> QED BY <2>1, ToldStill DEF Calm, Told
<1>8. agent_up'
    BY DEF Calm
<1>9. \A k \in DOMAIN rbuf' : rbuf'[k] > 0
    BY DEF Calm
<1> QED BY <1>6, <1>7, <1>8, <1>9

\* A thread that goes to another undisturbed point leaves the threads undisturbed.
LEMMA ThreadedMoves ==
    ASSUME LinkInv, Threaded, ~Booting, NEW t \in Threads, NEW p, Goto(t, p),
           t \in Handlers => p \in CalmPoints, t = Reader => p \in CalmReaderPoints,
           \A h \in Threads : cmd'[h].len <= RxCap, local' = local, rsock' \in {None, sock'}
    PROVE  Threaded' /\ ~Booting'
<1>1. pc' = [pc EXCEPT ![t] = p] /\ \A h \in Threads : h \in DOMAIN pc
    BY DEF Goto, LinkInv, ThreadType
<1>2. \A h \in Handlers : pc'[h] \in CalmPoints /\ local'[h] = None
    BY <1>1, ThreadsAre DEF Threaded
<1>3. pc'[Reader] \in CalmReaderPoints
    BY <1>1, ThreadsAre DEF Threaded, Booting
<1>4. pc'[Reader] \notin {"boot", "boot_store"} /\ pc[Reader] \notin {"boot", "boot_store"}
    BY <1>3 DEF CalmReaderPoints, Booting
<1>5. ~Booting'
    BY <1>4 DEF Booting
<1> QED BY <1>2, <1>3, <1>4, <1>5 DEF Threaded

\* Without a command there is nothing that does not fit.
LEMMA ForgetsFits ==
    ASSUME LinkInv, Threaded, NEW t \in Threads, Forget(t)
    PROVE  \A h \in Threads : cmd'[h].len <= RxCap
<1>1. NoCommand.len = 1 /\ 1 <= RxCap
    BY BoundsNat DEF NoCommand
<1>2. cmd' = [cmd EXCEPT ![t] = NoCommand] /\ cmd \in [Threads -> Commands]
    BY DEF Forget, LinkInv, ThreadType
<1> QED BY <1>1, <1>2 DEF Threaded

---------------------------------------------------------------------------
(* Nothing disturbed: the steps of send_cmd.                               *)

\* What is on the way to the server is a sequence of integers.
LEMMA LineInt ==
    ASSUME LinkInv, NEW c \in Conns
    PROVE  /\ rbuf \in Seq(Int) /\ s2c[c] \in Seq(Int) /\ rbuf \o s2c[c] \in Seq(Int)
           /\ handled \in Nat /\ clicks \in Nat
<1>1. rbuf \in Seq(Lines) /\ s2c[c] \in Seq(Lines)
    BY DEF LinkInv, ServerType, WireType
<1>2. rbuf \in Seq(Int) /\ s2c[c] \in Seq(Int)
    BY <1>1, LineTypes, SeqMonotonic
<1>3. handled \in Nat /\ clicks \in Nat
    BY BoundsNat DEF LinkInv, ServerType, CountType
<1> QED BY <1>2, <1>3, ConcatProperties

\* Each step of send_cmd leaves everything undisturbed: the sendall meets an agent that has
\* the connection.
LEMMA BeginCalm ==
    ASSUME LinkInv, Calm, NEW t \in Handlers, Begin(t), ~overlong' PROVE Calm'
<1>1. ~Booting /\ UNCHANGED <<local, rsock, rbuf, sock, handled, c2s, s2c, agent, clicks>>
      /\ Goto(t, "send")
    BY DEF Begin, Booting
<1>2. PICK m \in [state : States, len : Lens] :
              cmd' = [cmd EXCEPT ![t] = m] /\ overlong' = (overlong \/ m.len > RxCap)
    BY DEF Begin
<1>3. m.len <= RxCap
  <2>1. PICK n : n = m.len
      OBVIOUS
  <2>2. n \in Nat
      BY <2>1, LensNat
  <2>3. ~(n > RxCap)
      BY <1>2, <2>1
  <2>4. n <= RxCap
      BY <2>2, <2>3, BoundsNat
  <2> QED BY <2>1, <2>4
<1>4. \A h \in Threads : cmd'[h].len <= RxCap
    BY <1>2, <1>3, ThreadsAre DEF LinkInv, ThreadType, Calm, Threaded
<1>5. Threaded' /\ ~Booting'
  <2>1. rsock' \in {None, sock'} /\ "send" \in CalmPoints
      BY <1>1 DEF Calm, Threaded, CalmPoints
  <2> QED BY <1>1, <1>4, <2>1, ThreadsAre, ThreadedMoves DEF Calm
<1>6. Held(sock)'
  <2>1. Held(sock)
      BY <1>1 DEF Calm, OneLink, Conn, Booting
  <2>2. PICK c : c = sock
      OBVIOUS
  <2>3. Held(c)'
      BY <1>1, <2>1, <2>2, HeldStill DEF agent
  <2> QED BY <1>1, <2>2, <2>3
<1> QED BY <1>1, <1>5, <1>6, LinkKeeps DEF Calm, agent

\* A command goes behind what is on the way.
LEMMA PutHeld ==
    ASSUME LinkInv, NEW c \in Conns, Held(c), NEW m \in Commands, m.len <= RxCap,
           c2s' = [c2s EXCEPT ![c] = @ \o Line(m)], UNCHANGED <<backlog, slots, buf>>
    PROVE  Held(c)'
<1>1. /\ c2s[c] \in Seq(Units) /\ Line(m) \in Seq(Units)
      /\ c2s'[c] = c2s[c] \o Line(m)
    BY LineIs DEF LinkInv, WireType
<1>2. CASE Waiting(c)
  <2>1. Fits(c2s[c] \o Line(m))
      BY <1>1, <1>2, FitsMore DEF Waiting
  <2> QED BY <1>1, <1>2, <2>1 DEF Waiting, Held
<1>3. ASSUME NEW i \in Slots, InSlot(c, i) PROVE InSlot(c, i)'
  <2>1. buf[i] \in Seq(Units)
    <3>1. buf[i] \in Seq({"text"}) /\ {"text"} \subseteq Units
        BY DEF LinkInv, AgentType, Units
    <3> QED BY <3>1, SeqMonotonic
  <2>2. buf[i] \o c2s[c] \in Seq(Units) /\ Fits(buf[i] \o c2s[c])
      BY <1>1, <1>3, <2>1, ConcatProperties DEF InSlot
  <2>3. Fits((buf[i] \o c2s[c]) \o Line(m))
      BY <2>2, FitsMore
  <2>4. (buf[i] \o c2s[c]) \o Line(m) = buf[i] \o c2s'[c]
    <3>1. PICK b, q, l : b = buf[i] /\ q = c2s[c] /\ l = Line(m)
        OBVIOUS
    <3>2. b \in Seq(Units) /\ q \in Seq(Units) /\ l \in Seq(Units)
        BY <1>1, <2>1, <3>1
    <3>3. (b \o q) \o l = b \o (q \o l)
        BY <3>2, ConcatAssociative
    <3> QED BY <1>1, <3>1, <3>3
  <2>5. Fits(buf'[i] \o c2s'[c])
      BY <2>3, <2>4
  <2> QED BY <1>3, <2>5 DEF InSlot, Fits
<1> QED BY <1>2, <1>3 DEF Held

LEMMA SendCalm == ASSUME LinkInv, Calm, NEW t \in Threads, Send(t) PROVE Calm'
<1>1. /\ pc[t] = "send" /\ DropUnread
      /\ UNCHANGED <<local, rsock, rbuf, handled, agent, clicks>>
    BY DEF Send
<1>2. ~Booting
    BY <1>1, ThreadsAre DEF Calm, Threaded, Booting
<1>3. PICK c : c = sock
    OBVIOUS
<1>4. c \in Conns /\ c # None /\ AgentHas(c) /\ Held(c)
    BY <1>2, <1>3, CalmHas DEF Booting, Conn, Calm, OneLink
<1>5. Put(t) /\ Goto(t, "check") /\ UNCHANGED <<cmd, sock>>
    BY <1>3, <1>4 DEF Send
<1>6. Threaded' /\ ~Booting'
  <2>1. /\ rsock' \in {None, sock'} /\ "check" \in CalmPoints /\ "check" \in CalmReaderPoints
        /\ \A h \in Threads : cmd'[h].len <= RxCap
      BY <1>1, <1>5 DEF Calm, Threaded, CalmPoints, CalmReaderPoints
  <2> QED BY <1>1, <1>2, <1>5, <2>1, ThreadedMoves DEF Calm
<1>7. Held(c)'
  <2>1. cmd[t] \in Commands /\ cmd[t].len <= RxCap
      BY DEF LinkInv, ThreadType, Calm, Threaded
  <2> QED BY <1>1, <1>3, <1>4, <1>5, <2>1, PutHeld DEF Put, agent
<1>8. s2c'[c] = s2c[c]
  <2>1. PyHas(c)'
      BY <1>3, <1>5 DEF PyHas
  <2> QED BY <1>1, <1>4, <2>1, DropKeeps
<1>9. Held(sock)' /\ s2c'[sock] = s2c[sock]
    BY <1>3, <1>5, <1>7, <1>8
<1> QED BY <1>1, <1>2, <1>5, <1>6, <1>9, LinkKeeps DEF Calm, agent

\* A step that leaves what is on the way as it is.
LEMMA PointCalm ==
    ASSUME LinkInv, Calm, ~Booting, NEW t \in Threads, NEW p, Goto(t, p),
           t \in Handlers => p \in CalmPoints, t = Reader => p \in CalmReaderPoints,
           \A h \in Threads : cmd'[h].len <= RxCap, rsock' \in {None, sock},
           s2c'[sock] = s2c[sock],
           UNCHANGED <<local, rbuf, sock, handled, c2s, agent, clicks>>
    PROVE  Calm'
<1>1. Threaded' /\ ~Booting'
    BY ThreadedMoves DEF Calm
<1>2. Held(sock)'
  <2>1. Held(sock)
      BY DEF Calm, OneLink, Conn, Booting
  <2>2. PICK c : c = sock
      OBVIOUS
  <2>3. Held(c)'
      BY <2>1, <2>2, HeldStill DEF agent
  <2> QED BY <2>2, <2>3
<1> QED BY <1>1, <1>2, LinkKeeps DEF Calm, agent

LEMMA CheckCalm == ASSUME LinkInv, Calm, NEW t \in Threads, Check(t) PROVE Calm'
<1>1. /\ pc[t] = "check" /\ Goto(t, IF sock = None THEN "connect" ELSE "note")
      /\ UNCHANGED <<cmd, local, rsock, rbuf, sock, handled, c2s, s2c, agent, clicks>>
    BY DEF Check
<1>2. ~Booting
    BY <1>1, ThreadsAre DEF Calm, Threaded, Booting
<1>3. sock # None
    BY <1>2, CalmHas DEF Booting, Conn
<1>4. Goto(t, "note") /\ "note" \in CalmPoints /\ "note" \in CalmReaderPoints
    BY <1>1, <1>3 DEF CalmPoints, CalmReaderPoints
<1>5. rsock' \in {None, sock} /\ \A h \in Threads : cmd'[h].len <= RxCap
    BY <1>1 DEF Calm, Threaded
<1> QED BY <1>1, <1>2, <1>4, <1>5, PointCalm

LEMMA NoteCalm == ASSUME LinkInv, Calm, NEW t \in Threads, Note(t) PROVE Calm'
<1>1. /\ pc[t] = "note" /\ Goto(t, Done(t)) /\ Forget(t)
      /\ UNCHANGED <<local, rsock, rbuf, sock, handled, c2s, s2c, agent, clicks>>
    BY DEF Note
<1>2. ~Booting
    BY <1>1, ThreadsAre DEF Calm, Threaded, Booting
<1>3. (t \in Handlers => Done(t) \in CalmPoints) /\ (t = Reader => Done(t) \in CalmReaderPoints)
    BY ThreadsAre DEF Done, CalmPoints, CalmReaderPoints
<1>4. \A h \in Threads : cmd'[h].len <= RxCap
    BY <1>1, ForgetsFits DEF Calm
<1>5. rsock' \in {None, sock}
    BY <1>1 DEF Calm, Threaded
<1> QED BY <1>1, <1>2, <1>3, <1>4, <1>5, PointCalm

\* With no thread in _connect these are all the steps of send_cmd.
LEMMA CmdCalm == ASSUME LinkInv, Calm, NEW t \in Threads, CmdStep(t) PROVE Calm'
<1>1. pc[t] \notin {"connect", "store", "alive", "resend"}
    BY ThreadsAre DEF Calm, Threaded, CalmPoints, CalmReaderPoints
<1> QED BY <1>1, SendCalm, CheckCalm, NoteCalm DEF CmdStep, Connect, ConnectFrom, Store, StoreFrom,
           Alive, Resend

---------------------------------------------------------------------------
(* Nothing disturbed: the steps of _read_loop.                             *)

\* Each step of _read_loop leaves everything undisturbed.
LEMMA LookCalm == ASSUME LinkInv, Calm, Look PROVE Calm'
<1>1. /\ pc[Reader] = "look" /\ rsock' = sock /\ DropUnread
      /\ Goto(Reader, IF sock = None THEN "look" ELSE "recv")
      /\ UNCHANGED <<cmd, local, rbuf, sock, handled, c2s, agent, clicks>>
    BY DEF Look
<1>2. ~Booting
    BY <1>1 DEF Booting
<1>3. sock \in Conns
    BY <1>2, CalmHas DEF Booting, Conn
<1>4. {"look", "recv"} \subseteq CalmReaderPoints
    BY DEF CalmReaderPoints
<1>5. s2c'[sock] = s2c[sock]
  <2>1. PICK c : c = sock
      OBVIOUS
  <2>2. PyHas(c)'
      BY <1>1, <2>1 DEF PyHas
  <2>3. s2c'[c] = s2c[c]
      BY <1>1, <1>3, <2>1, <2>2, DropKeeps
  <2> QED BY <2>1, <2>3
<1>6. \A h \in Threads : cmd'[h].len <= RxCap
    BY <1>1 DEF Calm, Threaded
<1> QED BY <1>1, <1>2, <1>4, <1>5, <1>6, PointCalm, ThreadsAre

LEMMA LinesDoneCalm == ASSUME LinkInv, Calm, LinesDone PROVE Calm'
<1>1. /\ pc[Reader] = "lines" /\ Goto(Reader, "look")
      /\ UNCHANGED <<cmd, local, rsock, rbuf, sock, handled, c2s, s2c, agent, clicks>>
    BY DEF LinesDone
<1>2. ~Booting /\ "look" \in CalmReaderPoints
    BY <1>1 DEF Booting, CalmReaderPoints
<1>3. rsock' \in {None, sock} /\ \A h \in Threads : cmd'[h].len <= RxCap
    BY <1>1 DEF Calm, Threaded
<1> QED BY <1>1, <1>2, <1>3, PointCalm, ThreadsAre

\* Nothing on the way: the reader's buffer is all there is.
LEMMA NothingBehind == ASSUME NEW s \in Seq(Int) PROVE s \o <<>> = s
    BY ConcatEmptySeq

\* recv sees data or a timeout, never the end of the connection.
LEMMA RecvCalm == ASSUME LinkInv, Calm, Recv PROVE Calm'
<1>1. /\ pc[Reader] = "recv"
      /\ UNCHANGED <<cmd, local, rsock, sock, handled, c2s, agent, clicks>>
    BY DEF Recv
<1>2. ~Booting
    BY <1>1 DEF Booting
<1>3. PICK c : c = sock
    OBVIOUS
<1>4. c = rsock
    BY <1>1, <1>3 DEF LinkInv, Receiving, Calm, Threaded
<1>5. c \in Conns /\ AgentHas(c) /\ Held(c)
    BY <1>2, <1>3, CalmHas DEF Booting, Conn, Calm, OneLink
<1>6. /\ s2c' = [s2c EXCEPT ![c] = <<>>] /\ rbuf' = Events(rbuf \o s2c[c])
      /\ Goto(Reader, "lines")
    BY <1>3, <1>4, <1>5 DEF Recv
<1>7. Threaded' /\ ~Booting'
  <2>1. /\ rsock' \in {None, sock'} /\ "lines" \in CalmReaderPoints
        /\ \A h \in Threads : cmd'[h].len <= RxCap
      BY <1>1 DEF Calm, Threaded, CalmReaderPoints
  <2> QED BY <1>1, <1>2, <1>6, <2>1, ThreadsAre, ThreadedMoves DEF Calm
<1>8. PICK line : line = rbuf \o s2c[c]
    OBVIOUS
<1>9. /\ line \in Seq(Int) /\ Heard(line)
      /\ \A i \in DOMAIN line : line[i] >= 0 /\ Told(line[i])
    BY <1>2, <1>3, <1>5, <1>8, LineInt DEF Calm, OneLink, Conn, Booting, Heard
<1>10. /\ Events(line) \in Seq(Int) /\ InOrder(Events(line))
       /\ \A k \in DOMAIN Events(line) : /\ Events(line)[k] > 0
                                         /\ \E i \in DOMAIN line : Events(line)[k] = line[i]
  <2>1. handled \in Int
      BY <1>5, LineInt
  <2> QED BY <1>9, <2>1, EventsCalm DEF Heard
<1>11. PICK e : e = Events(line)
    OBVIOUS
<1>12. Heard(e) /\ e \in Seq(Int) /\ \A k \in DOMAIN e : e[k] > 0
  <2>1. \A k \in DOMAIN e : e[k] >= 0 /\ Told(e[k])
      BY <1>9, <1>10, <1>11
  <2> QED BY <1>10, <1>11, <2>1 DEF Heard
<1>13. Heard(e)'
    BY <1>1, <1>12, HeardStill DEF agent
<1>14. Held(c)'
    BY <1>1, <1>5, HeldStill DEF agent
<1>15. rbuf' = e /\ s2c'[c] = <<>> /\ rbuf' \o s2c'[c] = e
  <2>1. s2c'[c] = <<>>
      BY <1>5, <1>6 DEF LinkInv, WireType
  <2> QED BY <1>6, <1>8, <1>11, <1>12, <2>1, NothingBehind
<1>16. OneLink'
  <2>1. Conn' = c /\ pc'[Reader] # "boot"
      BY <1>1, <1>3, <1>7 DEF Conn, Booting
  <2> QED BY <1>5, <1>13, <1>14, <1>15, <2>1 DEF OneLink
<1>17. Told(handled)'
  <2>1. PICK n : n = handled
      OBVIOUS
  <2> QED BY <1>1, <2>1, ToldStill DEF Calm, Told, agent
<1>18. agent_up'
    BY <1>1 DEF Calm, agent
<1> QED BY <1>7, <1>12, <1>15, <1>16, <1>17, <1>18 DEF Calm

\* The event that is handled is the first one, and those behind it are newer.
LEMMA EventLineCalm == ASSUME LinkInv, Calm, EventLine PROVE Calm'
<1> DEFINE m == [state |-> IF Head(rbuf) % 2 = 1 THEN "listening" ELSE "thinking", len |-> 1]
<1>1. /\ pc[Reader] = "lines" /\ ~NoLine
      /\ handled' = Head(rbuf) /\ rbuf' = Tail(rbuf)
      /\ cmd' = [cmd EXCEPT ![Reader] = m] /\ Goto(Reader, "send")
      /\ UNCHANGED <<local, rsock, sock, c2s, s2c, agent, clicks>>
    BY DEF EventLine
<1>2. ~Booting
    BY <1>1 DEF Booting
<1>3. PICK c : c = sock
    OBVIOUS
<1>4. c \in Conns /\ Held(c)
    BY <1>2, <1>3, CalmHas DEF Booting, Conn, Calm, OneLink
<1>5. Threaded' /\ ~Booting'
  <2>1. m.len = 1 /\ 1 <= RxCap
      BY BoundsNat
  <2> HIDE DEF m
  <2>2. \A h \in Threads : cmd'[h].len <= RxCap
      BY <1>1, <2>1 DEF LinkInv, ThreadType, Calm, Threaded
  <2>3. rsock' \in {None, sock'} /\ "send" \in CalmReaderPoints
      BY <1>1 DEF Calm, Threaded, CalmReaderPoints
  <2> QED BY <1>1, <1>2, <2>2, <2>3, ThreadsAre, ThreadedMoves DEF Calm
<1> HIDE DEF m
<1>6. PICK b, q, line : b = rbuf /\ q = s2c[c] /\ line = b \o q
    OBVIOUS
<1>7. /\ b \in Seq(Int) /\ q \in Seq(Int) /\ line \in Seq(Int)
      /\ Heard(line) /\ \A k \in DOMAIN b : b[k] > 0
    BY <1>2, <1>3, <1>4, <1>6, LineInt DEF Calm, OneLink, Conn, Booting
<1>8. /\ b # <<>> /\ handled' = b[1] /\ b[1] > 0 /\ rbuf' = Tail(b)
      /\ Len(Tail(b)) = Len(b) - 1 /\ Tail(b) \in Seq(Int)
      /\ \A k \in 1..(Len(b) - 1) : Tail(b)[k] = b[k + 1]
  <2>1. /\ b # <<>> /\ handled' = b[1] /\ b[1] > 0 /\ rbuf' = Tail(b)
        /\ Len(Tail(b)) = Len(b) - 1
        /\ \A k \in 1..(Len(b) - 1) : Tail(b)[k] = b[k + 1]
      BY <1>1, <1>6, FirstLine DEF LinkInv, ServerType
  <2> QED BY <1>7, <2>1, HeadTailProperties
<1>9. PICK r, rest : r = Tail(b) /\ rest = r \o q
    OBVIOUS
<1>10. PICK lb, lq : lb = Len(b) /\ lq = Len(q)
    OBVIOUS
<1>11. lb \in Nat /\ lb > 0 /\ lq \in Nat
    BY <1>7, <1>8, <1>10
<1>12. /\ Len(line) = lb + lq /\ DOMAIN line = 1..(lb + lq)
       /\ \A k \in 1..(lb + lq) : line[k] = IF k <= lb THEN b[k] ELSE q[k - lb]
    BY <1>6, <1>7, <1>10, ConcatProperties
<1>13. /\ rest \in Seq(Int) /\ Len(rest) = lb - 1 + lq
       /\ \A k \in 1..(lb - 1 + lq) : rest[k] = IF k <= lb - 1 THEN r[k] ELSE q[k - (lb - 1)]
    BY <1>7, <1>8, <1>9, <1>10, ConcatProperties
<1>14. \A k \in 1..(lb - 1 + lq) : k + 1 \in 1..(lb + lq) /\ rest[k] = line[k + 1]
  <2> SUFFICES ASSUME NEW k \in 1..(lb - 1 + lq)
               PROVE  k + 1 \in 1..(lb + lq) /\ rest[k] = line[k + 1]
      OBVIOUS
  <2>1. k + 1 \in 1..(lb + lq)
      BY <1>11
  <2>2. CASE k <= lb - 1
    <3>1. k \in 1..(lb - 1) /\ k + 1 <= lb
        BY <1>11, <2>2
    <3>2. rest[k] = r[k]
        BY <1>13, <2>2
    <3>3. r[k] = b[k + 1]
        BY <1>8, <1>9, <1>10, <3>1
    <3>4. line[k + 1] = b[k + 1]
        BY <1>12, <2>1, <3>1
    <3> QED BY <2>1, <3>2, <3>3, <3>4
  <2>3. CASE ~(k <= lb - 1)
    <3>1. ~(k + 1 <= lb) /\ k + 1 - lb = k - (lb - 1)
        BY <1>11, <2>3
    <3>2. rest[k] = q[k - (lb - 1)]
        BY <1>13, <2>3
    <3>3. line[k + 1] = q[k - (lb - 1)]
      <4>1. PICK n, p : n = k + 1 /\ p = k - (lb - 1)
          OBVIOUS
      <4>2. n \in 1..(lb + lq) /\ ~(n <= lb) /\ n - lb = p
          BY <1>11, <2>1, <3>1, <4>1
      <4>3. line[n] = q[n - lb]
          BY <1>12, <4>2
      <4>4. line[n] = q[p]
          BY <4>2, <4>3
      <4> QED BY <4>1, <4>4
    <3> QED BY <2>1, <3>2, <3>3
  <2> QED BY <2>1, <2>2, <2>3
<1>15. line[1] = b[1] /\ 1 \in 1..(lb + lq)
  <2>1. 1 \in 1..(lb + lq) /\ 1 <= lb
      BY <1>11
  <2> QED BY <1>12, <2>1
<1>16. DOMAIN rest = 1..(lb - 1 + lq)
    BY <1>13
<1>17. Heard(rest)'
  <2>1. ASSUME NEW k \in 1..(lb - 1 + lq)
        PROVE  /\ rest[k] >= 0 /\ Told(rest[k])'
               /\ rest[k] > 0 => /\ rest[k] > handled'
                                 /\ \A j \in 1..(k - 1) : rest[j] < rest[k]
    <3>1. k + 1 \in 1..(lb + lq) /\ rest[k] = line[k + 1] /\ k \in Nat
        BY <1>11, <1>14
    <3>2. line[k + 1] >= 0 /\ Told(line[k + 1])
        BY <1>7, <1>12, <3>1 DEF Heard
    <3>3. Told(rest[k])'
        BY <1>1, <3>1, <3>2, ToldStill DEF agent
    <3>4. ASSUME rest[k] > 0
          PROVE  /\ rest[k] > handled'
                 /\ \A j \in 1..(k - 1) : rest[j] < rest[k]
      <4>1. \A j \in 1..k : line[j] < line[k + 1]
        <5>1. \A j \in 1..((k + 1) - 1) : line[j] < line[k + 1]
            BY <1>7, <1>12, <3>1, <3>4 DEF Heard, InOrder
        <5>2. (k + 1) - 1 = k
            BY <3>1
        <5> QED BY <5>1, <5>2
      <4>2. 1 \in 1..k
          BY <3>1
      <4>3. rest[k] > handled'
        <5>1. line[1] \in Int /\ line[k + 1] \in Int
            BY <1>7, <1>12, <1>15, <3>1
        <5> QED BY <1>8, <1>15, <3>1, <4>1, <4>2, <5>1
      <4>4. ASSUME NEW j \in 1..(k - 1) PROVE rest[j] < rest[k]
        <5>1. j + 1 \in 1..k /\ j \in 1..(lb - 1 + lq)
            BY <1>11, <3>1
        <5>2. rest[j] = line[j + 1]
            BY <1>14, <5>1
        <5> QED BY <3>1, <4>1, <5>1, <5>2
      <4> QED BY <4>3, <4>4
    <3> QED BY <3>1, <3>2, <3>3, <3>4
  <2> QED BY <1>16, <2>1 DEF Heard, InOrder
<1>18. Held(c)'
    BY <1>1, <1>4, HeldStill DEF agent
<1>19. OneLink'
  <2>1. Conn' = c /\ pc'[Reader] # "boot" /\ rbuf' \o s2c'[c] = rest
      BY <1>1, <1>3, <1>5, <1>6, <1>8, <1>9 DEF Conn, Booting
  <2> QED BY <1>4, <1>17, <1>18, <2>1 DEF OneLink
<1>20. Told(handled)'
  <2>1. PICK n : n = line[1]
      OBVIOUS
  <2>2. Told(n)
      BY <1>7, <1>12, <1>15, <2>1 DEF Heard
  <2>3. Told(n)'
      BY <1>1, <2>2, ToldStill DEF agent
  <2>4. handled' = n
      BY <1>8, <1>15, <2>1
  <2> QED BY <2>3, <2>4 DEF Told
<1>21. \A k \in DOMAIN rbuf' : rbuf'[k] > 0
  <2>1. \A k \in 1..(lb - 1) : k + 1 \in DOMAIN b
      BY <1>7, <1>10, <1>11
  <2>2. DOMAIN Tail(b) = 1..(lb - 1)
      BY <1>8, <1>10
  <2> QED BY <1>7, <1>8, <1>10, <2>1, <2>2
<1>22. agent_up'
    BY <1>1 DEF Calm, agent
<1> QED BY <1>5, <1>19, <1>20, <1>21, <1>22 DEF Calm

---------------------------------------------------------------------------
(* Nothing disturbed: the connection of __init__.                          *)

\* __init__ connects, and the reader thread starts with that socket.
LEMMA BootCalm == ASSUME LinkInv, Calm, Boot PROVE Calm'
<1>1. ASSUME ConnectFrom(Reader, "boot", "boot_store") PROVE Calm'
  <2>1. /\ pc[Reader] = "boot" /\ Goto(Reader, "boot_store") /\ FreeConns # {}
        /\ UNCHANGED <<cmd, rsock, rbuf, sock, handled, slots, buf, agent_up, btn_prev, clicks>>
      BY <1>1 DEF ConnectFrom
  <2>2. PICK c : c = CHOOSE d \in FreeConns : TRUE
      OBVIOUS
  <2>3. c \in Conns
      BY <2>1, <2>2 DEF FreeConns
  <2>4. /\ local' = [local EXCEPT ![Reader] = c] /\ backlog' = Append(backlog, c)
        /\ c2s' = [c2s EXCEPT ![c] = <<>>] /\ s2c' = [s2c EXCEPT ![c] = <<>>]
      BY <1>1, <2>2 DEF ConnectFrom
  <2>5. Booting /\ sock = None /\ rsock = None /\ rbuf = <<>> /\ \A t \in Handlers : pc[t] = "idle"
      BY <2>1 DEF Booting, Calm, Threaded
  <2>6. pc' = [pc EXCEPT ![Reader] = "boot_store"] /\ \A t \in Threads : t \in DOMAIN pc
      BY <2>1 DEF Goto, LinkInv, ThreadType
  <2>7. Threaded'
    <3>1. \A t \in Handlers : pc'[t] = "idle" /\ local'[t] = None
        BY <2>4, <2>5, <2>6, ThreadsAre DEF Calm, Threaded, LinkInv, ThreadType
    <3>2. pc'[Reader] = "boot_store"
        BY <2>6, ThreadsAre
    <3>3. \A t \in Threads : cmd'[t].len <= RxCap
        BY <2>1 DEF Calm, Threaded
    <3> QED BY <2>1, <2>5, <3>1, <3>2, <3>3 DEF Threaded, CalmPoints
  <2>8. OneLink'
    <3>1. backlog' = <<c>> /\ \A i \in Slots : slots'[i] = None
        BY <2>1, <2>4 DEF Calm, OneLink, Alone
    <3>2. c2s'[c] = <<>> /\ s2c'[c] = <<>>
        BY <2>3, <2>4 DEF LinkInv, WireType
    <3>3. Held(c)'
        BY <3>1, <3>2, FitsNothing DEF Held, Waiting, Fits
    <3>4. rbuf' \o s2c'[c] = <<>>
        BY <2>1, <2>5, <3>2
    <3>5. Heard(<<>>)'
        BY DEF Heard, InOrder
    <3>6. Conn' = c /\ pc'[Reader] # "boot"
        BY <2>4, <2>6, ThreadsAre DEF Conn, LinkInv, ThreadType
    <3> QED BY <2>3, <3>3, <3>4, <3>5, <3>6 DEF OneLink
  <2>9. Told(handled)'
    <3>1. PICK n : n = handled
        OBVIOUS
    <3> QED BY <2>1, <3>1, ToldStill DEF Calm, Told
  <2>10. agent_up' /\ \A k \in DOMAIN rbuf' : rbuf'[k] > 0
      BY <2>1 DEF Calm
  <2> QED BY <2>7, <2>8, <2>9, <2>10 DEF Calm
<1>2. ASSUME StoreFrom(Reader, "boot_store", "look") PROVE Calm'
  <2>1. /\ pc[Reader] = "boot_store" /\ Goto(Reader, "look") /\ DropUnread
        /\ sock' = local[Reader] /\ local' = [local EXCEPT ![Reader] = None]
        /\ UNCHANGED <<cmd, rsock, rbuf, handled, c2s, agent, clicks>>
      BY <1>2 DEF StoreFrom
  <2>2. Booting /\ sock = None /\ rsock = None /\ rbuf = <<>> /\ \A t \in Handlers : pc[t] = "idle"
      BY <2>1 DEF Booting, Calm, Threaded
  <2>3. PICK c : c = local[Reader]
      OBVIOUS
  <2>4. Conn = c /\ c \in Conns /\ Held(c) /\ Heard(rbuf \o s2c[c])
      BY <2>1, <2>3 DEF Conn, Calm, OneLink
  <2>5. pc' = [pc EXCEPT ![Reader] = "look"] /\ \A t \in Threads : t \in DOMAIN pc
      BY <2>1 DEF Goto, LinkInv, ThreadType
  <2>6. Threaded'
    <3>1. \A t \in Handlers : pc'[t] = "idle" /\ local'[t] = None
        BY <2>1, <2>2, <2>5, ThreadsAre DEF Calm, Threaded, LinkInv, ThreadType
    <3>2. pc'[Reader] = "look" /\ local'[Reader] = None
        BY <2>1, <2>5, ThreadsAre DEF LinkInv, ThreadType
    <3>3. \A t \in Threads : cmd'[t].len <= RxCap
        BY <2>1 DEF Calm, Threaded
    <3> QED BY <2>1, <2>2, <3>1, <3>2, <3>3 DEF Threaded, Booting, CalmPoints, CalmReaderPoints
  <2>7. OneLink'
    <3>1. s2c'[c] = s2c[c]
      <4>1. PyHas(c)'
          BY <2>1, <2>3 DEF PyHas
      <4> QED BY <2>1, <2>4, <4>1, DropKeeps
    <3>2. PICK line : line = rbuf \o s2c[c]
        OBVIOUS
    <3>3. Heard(line)' /\ line = rbuf' \o s2c'[c]
        BY <2>1, <2>4, <3>1, <3>2, HeardStill DEF agent
    <3>4. Held(c)'
        BY <2>1, <2>4, HeldStill DEF agent
    <3>5. Conn' = c /\ pc'[Reader] # "boot"
        BY <2>1, <2>3, <2>5, ThreadsAre DEF Conn
    <3> QED BY <2>4, <3>3, <3>4, <3>5 DEF OneLink
  <2>8. Told(handled)'
    <3>1. PICK n : n = handled
        OBVIOUS
    <3> QED BY <2>1, <3>1, ToldStill DEF Calm, Told, agent
  <2>9. agent_up' /\ \A k \in DOMAIN rbuf' : rbuf'[k] > 0
      BY <2>1 DEF Calm, agent
  <2> QED BY <2>6, <2>7, <2>8, <2>9 DEF Calm
<1> QED BY <1>1, <1>2 DEF Boot

\* The steps of the reader's thread together; a broken connection's cannot happen.
LEMMA ReadCalm == ASSUME LinkInv, Calm, ReadStep PROVE Calm'
<1>1. pc[Reader] \notin {"clear", "reconnect", "restore", "dying"}
    BY DEF Calm, Threaded, CalmReaderPoints
<1> QED BY <1>1, BootCalm, LookCalm, RecvCalm, LinesDoneCalm, EventLineCalm
        DEF ReadStep, Clear, Reconnect, ConnectFrom, StoreFrom, ReaderEnds

---------------------------------------------------------------------------
(* Nothing disturbed: the agent's steps.                                   *)

\* A step of the agent that keeps the connection.
LEMMA AgentKeeps ==
    ASSUME Calm, UNCHANGED <<python, clicks>>, agent_up', pc[Reader] # "boot",
           NEW c, c = Conn, Held(c)', NEW line, line = rbuf \o s2c'[c], Heard(line)',
           Told(handled)'
    PROVE  Calm'
<1>1. Threaded'
    BY DEF python, Calm, Threaded, Booting
<1>2. Conn' = c /\ c \in Conns /\ pc'[Reader] # "boot"
    BY DEF python, Conn, Calm, OneLink
<1>3. rbuf' \o s2c'[c] = line
    BY DEF python
<1>4. OneLink'
    BY <1>2, <1>3 DEF OneLink
<1>5. \A k \in DOMAIN rbuf' : rbuf'[k] > 0
    BY DEF python, Calm
<1> QED BY <1>1, <1>4, <1>5 DEF Calm

\* accept moves the one connection from the backlog to a slot.
LEMMA AcceptCalm == ASSUME LinkInv, Calm, AcceptClients PROVE Calm'
<1>1. /\ backlog # <<>> /\ backlog' = Tail(backlog)
      /\ UNCHANGED <<python, c2s, s2c, agent_up, btn_prev, clicks>>
    BY DEF AcceptClients
<1>2. pc[Reader] # "boot"
    BY <1>1 DEF Calm, OneLink, Alone
<1>3. PICK c, line : c = Conn /\ line = rbuf \o s2c[Conn]
    OBVIOUS
<1>4. c \in Conns /\ Held(c) /\ Heard(line)
    BY <1>2, <1>3 DEF Calm, OneLink
<1>5. Waiting(c)
    BY <1>1, <1>4 DEF Held, InSlot
<1>6. PICK i : i = CHOOSE k \in FreeSlots : \A j \in FreeSlots : k <= j
    OBVIOUS
<1>7. FreeSlots # {} /\ i \in Slots
  <2>1. FreeSlots # {}
      BY <1>5, SlotsAre DEF Waiting, FreeSlots
  <2> QED BY <1>6, <2>1, FirstFree DEF FreeSlots
<1>8. slots' = [slots EXCEPT ![i] = c] /\ buf' = [buf EXCEPT ![i] = <<>>] /\ backlog' = <<>>
  <2>1. slots' = [slots EXCEPT ![i] = Head(backlog)] /\ buf' = [buf EXCEPT ![i] = <<>>]
      BY <1>6, <1>7 DEF AcceptClients
  <2>2. Head(backlog) = c /\ Tail(backlog) = <<>>
      BY <1>5 DEF Waiting
  <2> QED BY <1>1, <2>1, <2>2
<1>9. InSlot(c, i)'
  <2>1. slots'[i] = c /\ \A j \in Slots \ {i} : slots'[j] = None
      BY <1>5, <1>7, <1>8 DEF Waiting, LinkInv, AgentType
  <2>2. buf'[i] = <<>>
      BY <1>7, <1>8 DEF LinkInv, AgentType
  <2>3. c2s'[c] = c2s[c] /\ c2s[c] \in Seq(Units) /\ Fits(c2s[c])
      BY <1>1, <1>4, <1>5 DEF Waiting, LinkInv, WireType
  <2>4. buf'[i] \o c2s'[c] = c2s[c]
      BY <2>2, <2>3, ConcatEmptySeq
  <2>5. Fits(buf'[i] \o c2s'[c])
      BY <2>3, <2>4
  <2> QED BY <1>8, <2>1, <2>5 DEF InSlot, Fits
<1>10. Held(c)'
    BY <1>7, <1>9 DEF Held
<1>11. Heard(line)' /\ line = rbuf \o s2c'[c]
    BY <1>1, <1>3, <1>4, HeardStill DEF python
<1>12. Told(handled)' /\ agent_up'
  <2>1. PICK n : n = handled
      OBVIOUS
  <2> QED BY <1>1, <2>1, ToldStill DEF Calm, Told, python
<1> QED BY <1>1, <1>2, <1>3, <1>10, <1>11, <1>12, AgentKeeps

\* A line that comes behind all others is heard in its turn.
LEMMA HeardMore ==
    ASSUME NEW line \in Seq(Int), Heard(line)', NEW e \in Nat, Told(e)',
           e > 0 => e > handled' /\ \A i \in DOMAIN line : line[i] < e
    PROVE  Heard(Append(line, e))'
<1> DEFINE r == Append(line, e)
<1>1. /\ r \in Seq(Int) /\ Len(r) = Len(line) + 1 /\ r[Len(line) + 1] = e
      /\ \A i \in 1..Len(line) : r[i] = line[i]
    BY AppendProperties
<1> HIDE DEF r
<1>2. PICK n : n = Len(line)
    OBVIOUS
<1>3. n \in Nat /\ DOMAIN line = 1..n /\ DOMAIN r = 1..(n + 1)
    BY <1>1, <1>2
<1>4. ASSUME NEW i \in 1..(n + 1)
      PROVE  /\ r[i] >= 0 /\ Told(r[i])'
             /\ r[i] > 0 => r[i] > handled' /\ \A j \in 1..(i - 1) : r[j] < r[i]
  <2>1. \A j \in 1..n : r[j] = line[j]
      BY <1>1, <1>2
  <2>2. CASE i \in 1..n
    <3>1. r[i] = line[i] /\ i \in DOMAIN line /\ \A j \in 1..(i - 1) : j \in 1..n
        BY <1>3, <2>1, <2>2
    <3>2. /\ line[i] >= 0 /\ Told(line[i])'
          /\ line[i] > 0 => line[i] > handled' /\ \A j \in 1..(i - 1) : line[j] < line[i]
        BY <3>1 DEF Heard, InOrder
    <3>3. Told(r[i])'
        BY <3>1, <3>2 DEF Told
    <3> QED BY <2>1, <3>1, <3>2, <3>3
  <2>3. CASE i = n + 1
    <3>1. r[i] = e /\ (i - 1) = n
        BY <1>1, <1>2, <1>3, <2>3
    <3>2. Told(r[i])'
        BY <3>1 DEF Told
    <3> QED BY <1>3, <2>1, <3>1, <3>2
  <2> QED BY <1>3, <2>2, <2>3
<1>5. Heard(r)'
    BY <1>3, <1>4 DEF Heard, InOrder
<1> QED BY <1>5 DEF r

\* An event put on the connection comes behind what the reader has.
LEMMA AppendBehind ==
    ASSUME NEW a \in Seq(Int), NEW b \in Seq(Int), NEW e \in Int
    PROVE  a \o Append(b, e) = Append(a \o b, e)
<1>1. /\ Append(b, e) = b \o <<e>>
      /\ a \o b \in Seq(Int)
      /\ <<e>> \in Seq(Int)
  <2>1. Append(b, e) = b \o <<e>>
      BY AppendIsConcat
  <2>2. a \o b \in Seq(Int)
      BY ConcatProperties
  <2>3. <<e>> \in Seq(Int)
      OBVIOUS
  <2> QED BY <2>1, <2>2, <2>3
<1>2. Append(a \o b, e) = (a \o b) \o <<e>>
    BY <1>1, AppendIsConcat
<1>3. (a \o b) \o <<e>> = a \o (b \o <<e>>)
    BY <1>1, ConcatAssociative
<1> QED BY <1>1, <1>2, <1>3

\* A slot in use is the slot of the connection.
LEMMA CalmSlot ==
    ASSUME LinkInv, Calm, NEW i \in Slots, slots[i] # None
    PROVE  pc[Reader] # "boot" /\ slots[i] = Conn /\ InSlot(Conn, i)
<1>1. pc[Reader] # "boot"
    BY DEF Calm, OneLink, Alone
<1>2. PICK c : c = Conn
    OBVIOUS
<1>3. Held(c) /\ ~Waiting(c)
    BY <1>1, <1>2 DEF Calm, OneLink, Waiting
<1>4. PICK k \in Slots : InSlot(c, k)
    BY <1>3 DEF Held
<1>5. k = i
    BY <1>4 DEF InSlot
<1> QED BY <1>1, <1>2, <1>4, <1>5 DEF InSlot

\* A read takes what fits, its lines become commands, and the answer has a reader.
LEMMA ReadSlotCalm == ASSUME LinkInv, Calm, NEW i \in Slots, ReadSlot(i) PROVE Calm'
<1>1. PICK c \in Conns : \E n \in 0..Len(c2s[c]) : \E data : Reads(i, c, n, data)
    BY ReadSlotIs
<1>2. PICK n \in 0..Len(c2s[c]) : \E data : Reads(i, c, n, data)
    BY <1>1
<1>3. PICK data : Reads(i, c, n, data)
    BY <1>2
<1>4. c = slots[i] /\ c # None
    BY <1>3, ThreadsDistinct DEF Reads
<1>5. pc[Reader] # "boot" /\ c = Conn /\ InSlot(c, i)
    BY <1>4, CalmSlot
<1>6. PyHas(c)
    BY <1>5, CalmHas
<1>7. /\ s2c' = [s2c EXCEPT ![c] = IF Ends(data) # {} /\ @ = <<>> THEN <<Reply>> ELSE @]
      /\ buf' = [buf EXCEPT ![i] = Remains(data)]
      /\ c2s' = [c2s EXCEPT ![c] = SubSeq(@, n + 1, Len(@))]
      /\ UNCHANGED <<backlog, slots, agent_up>>
    BY <1>3, <1>6 DEF Reads
<1>8. UNCHANGED <<python, btn_prev, clicks>> /\ n <= Space(i)
      /\ data = buf[i] \o SubSeq(c2s[c], 1, n)
    BY <1>3 DEF Reads
<1>9. InSlot(c, i)'
  <2>1. PICK m \in 0..Len(buf[i] \o c2s[c]) :
                 Remains(data) \o SubSeq(c2s[c], n + 1, Len(c2s[c]))
                    = SubSeq(buf[i] \o c2s[c], m + 1, Len(buf[i] \o c2s[c]))
      BY <1>8, ReadIs
  <2>2. PICK all : all = buf[i] \o c2s[c]
      OBVIOUS
  <2>3. all \in Seq(Units) /\ Fits(all)
    <3>1. buf[i] \in Seq(Units)
      <4>1. buf[i] \in Seq({"text"}) /\ {"text"} \subseteq Units
          BY DEF LinkInv, AgentType, Units
      <4> QED BY <4>1, SeqMonotonic
    <3>2. c2s[c] \in Seq(Units)
        BY DEF LinkInv, WireType
    <3> QED BY <1>5, <2>2, <3>1, <3>2, ConcatProperties DEF InSlot
  <2>4. Fits(SubSeq(all, m + 1, Len(all)))
    <3>1. m \in 0..Len(all)
        BY <2>1, <2>2
    <3> QED BY <2>3, <3>1, FitsSuffix
  <2>5. buf'[i] = Remains(data) /\ c2s'[c] = SubSeq(c2s[c], n + 1, Len(c2s[c]))
      BY <1>7 DEF LinkInv, AgentType, WireType
  <2>6. Fits(buf'[i] \o c2s'[c])
      BY <2>1, <2>2, <2>4, <2>5
  <2> QED BY <1>5, <1>7, <2>6 DEF InSlot, Fits
<1>10. Held(c)'
    BY <1>9 DEF Held
<1>11. PICK b, q, line : b = rbuf /\ q = s2c[c] /\ line = b \o q
    OBVIOUS
<1>12. b \in Seq(Int) /\ q \in Seq(Int) /\ line \in Seq(Int) /\ Heard(line)
       /\ handled \in Nat /\ clicks \in Nat
    BY <1>5, <1>11, LineInt DEF Calm, OneLink
<1>13. PICK l2 : l2 = rbuf \o s2c'[c]
    OBVIOUS
<1>14. Heard(line)'
    BY <1>8, <1>12, HeardStill DEF python
<1>15. Heard(l2)'
  <2>1. CASE Ends(data) # {} /\ q = <<>>
    <3>1. s2c'[c] = <<Reply>>
        BY <1>7, <1>11, <2>1 DEF LinkInv, WireType
    <3>2. line = b
        BY <1>11, <1>12, <2>1, NothingBehind
    <3>3. l2 = Append(line, 0)
      <4>1. Append(b, 0) = b \o <<0>>
          BY <1>12, AppendIsConcat
      <4> QED BY <1>11, <1>13, <3>1, <3>2, <4>1 DEF Reply
    <3>4. Told(0)'
        BY <1>8, <1>12 DEF Calm, Told, Pressed
    <3>5. Heard(Append(line, 0))'
        BY <1>12, <1>14, <3>4, HeardMore
    <3> QED BY <3>3, <3>5
  <2>2. CASE ~(Ends(data) # {} /\ q = <<>>)
    <3>1. s2c'[c] = s2c[c]
        BY <1>7, <1>11, <2>2 DEF LinkInv, WireType
    <3> QED BY <1>11, <1>13, <1>14, <3>1
  <2> QED BY <2>1, <2>2
<1>16. Told(handled)' /\ agent_up'
  <2>1. PICK k : k = handled
      OBVIOUS
  <2> QED BY <1>7, <1>8, <2>1, ToldStill DEF Calm, Told, python
<1> QED BY <1>5, <1>8, <1>10, <1>13, <1>15, <1>16, AgentKeeps

\* A slot is never closed: its buffer is not full, and its client is there.
LEMMA EndSlotCalm == ASSUME LinkInv, Calm, NEW i \in Slots, EndSlot(i) PROVE FALSE
<1>1. slots[i] # None /\ (Space(i) = 0 \/ ~PyHas(slots[i]))
    BY DEF EndSlot
<1>2. PICK c : c = Conn
    OBVIOUS
<1>3. pc[Reader] # "boot" /\ slots[i] = c /\ InSlot(c, i)
    BY <1>1, <1>2, CalmSlot
<1>4. c \in Conns /\ PyHas(slots[i])
    BY <1>2, <1>3, CalmHas
<1>5. Space(i) = 0
    BY <1>1, <1>4
<1>6. buf[i] \in Seq({"text"}) /\ c2s[c] \in Seq(Units) /\ Fits(buf[i] \o c2s[c])
    BY <1>3, <1>4 DEF LinkInv, AgentType, WireType, InSlot
<1>7. Len(buf[i]) = RxCap
  <2>1. PICK l : l = Len(buf[i])
      OBVIOUS
  <2>2. l \in Nat
      BY <1>6, <2>1, LenProperties
  <2>3. RxCap - l = 0
      BY <1>5, <2>1 DEF Space
  <2>4. l = RxCap
      BY <2>2, <2>3, BoundsNat
  <2> QED BY <2>1, <2>4
<1> QED BY <1>6, <1>7, FitsFull

\* The button: the event is newer than all that is on the way, for the agent did not know it.
LEMMA PollCalm == ASSUME LinkInv, Calm, PollButtons PROVE Calm'
<1> DEFINE gone == {i \in Clients : ~PyHas(slots[i])}
           told == {slots[i] : i \in {j \in Clients : \A k \in gone : j < k}}
<1>1. /\ s2c' = [c \in Conns |-> IF c \in told THEN Append(s2c[c], clicks) ELSE s2c[c]]
      /\ IF gone = {} THEN UNCHANGED <<c2s, backlog, slots, buf, agent_up>>
                      ELSE Dies /\ LoseUnread
      /\ btn_prev' = Pressed /\ Pressed # btn_prev
      /\ UNCHANGED <<python, shown, clicks, issued, faults>>
    BY DEF PollButtons
<1>2. gone = {}
  <2>1. ASSUME NEW i \in Slots, slots[i] # None PROVE PyHas(slots[i])
      BY <2>1, CalmSlot, CalmHas
  <2> QED BY <2>1 DEF Clients
<1>3. UNCHANGED <<c2s, backlog, slots, buf, agent_up>>
    BY <1>1, <1>2
<1>4. UNCHANGED <<python, clicks>> /\ btn_prev' = Pressed /\ Pressed # btn_prev
    BY <1>1
<1> HIDE DEF gone, told
<1>5. \A c \in Conns : s2c'[c] = Append(s2c[c], clicks) \/ s2c'[c] = s2c[c]
    BY <1>1
<1>6. ASSUME NEW k, Told(k) PROVE Told(k)' /\ k <= clicks /\ k # clicks
    BY <1>4, <1>6 DEF Told, Pressed
<1>7. Told(handled)' /\ agent_up'
  <2>1. PICK k : k = handled
      OBVIOUS
  <2>2. Told(k)'
      BY <1>6, <2>1 DEF Calm
  <2> QED BY <1>3, <1>4, <2>1, <2>2 DEF Told, Calm, python
<1>8. CASE pc[Reader] = "boot"
  <2>1. Threaded' /\ pc'[Reader] = "boot"
      BY <1>4, <1>8 DEF python, Calm, Threaded, Booting
  <2>2. Alone'
      BY <1>3, <1>8 DEF Alone, Calm, OneLink
  <2>3. \A k \in DOMAIN rbuf' : rbuf'[k] > 0
      BY <1>4 DEF python, Calm
  <2> QED BY <1>7, <2>1, <2>2, <2>3 DEF Calm, OneLink
<1>9. CASE pc[Reader] # "boot"
  <2>1. PICK c : c = Conn
      OBVIOUS
  <2>2. PICK b, q, line : b = rbuf /\ q = s2c[c] /\ line = b \o q
      OBVIOUS
  <2>3. c \in Conns /\ Held(c) /\ Heard(line)
      BY <1>9, <2>1, <2>2 DEF Calm, OneLink
  <2>4. b \in Seq(Int) /\ q \in Seq(Int) /\ line \in Seq(Int)
        /\ handled \in Nat /\ clicks \in Nat
      BY <2>2, <2>3, LineInt
  <2>5. Held(c)'
      BY <1>3, <2>3, HeldStill
  <2>6. PICK l2 : l2 = rbuf \o s2c'[c]
      OBVIOUS
  <2>7. Heard(line)'
    <3>1. InOrder(line)'
        BY <1>4, <2>3 DEF python, Heard, InOrder
    <3>2. \A k \in DOMAIN line : line[k] >= 0 /\ Told(line[k])'
        BY <1>6, <2>3 DEF Heard
    <3> QED BY <3>1, <3>2 DEF Heard
  <2>8. Heard(l2)'
    <3>1. CASE s2c'[c] = s2c[c]
        BY <2>2, <2>6, <2>7, <3>1
    <3>2. CASE s2c'[c] = Append(s2c[c], clicks)
      <4>1. l2 = Append(line, clicks)
        <5>1. PICK n : n = clicks
            OBVIOUS
        <5>2. b \o Append(q, n) = Append(b \o q, n)
            BY <2>4, <5>1, AppendBehind
        <5> QED BY <2>2, <2>6, <3>2, <5>1, <5>2
      <4>2. clicks > handled /\ \A k \in DOMAIN line : line[k] < clicks
        <5>1. handled <= clicks /\ handled # clicks
            BY <1>6 DEF Calm
        <5>2. ASSUME NEW k \in DOMAIN line PROVE line[k] < clicks
          <6>1. line[k] \in Int
              BY <2>4
          <6>2. line[k] <= clicks /\ line[k] # clicks
              BY <1>6, <2>3 DEF Heard
          <6> QED BY <2>4, <6>1, <6>2
        <5> QED BY <2>4, <5>1, <5>2
      <4>3. Told(clicks)'
          BY <1>4, <2>4 DEF Told, Pressed
      <4>4. PICK n : n = clicks
          OBVIOUS
      <4>5. n \in Nat /\ Told(n)' /\ n > handled' /\ \A k \in DOMAIN line : line[k] < n
          BY <1>4, <2>4, <4>2, <4>3, <4>4 DEF python, Told, Pressed
      <4>6. Heard(Append(line, n))'
          BY <2>4, <2>7, <4>5, HeardMore
      <4> QED BY <4>1, <4>4, <4>6
    <3> QED BY <1>5, <2>3, <3>1, <3>2
  <2> QED BY <1>4, <1>7, <1>9, <2>1, <2>5, <2>6, <2>8, AgentKeeps
<1> QED BY <1>8, <1>9

---------------------------------------------------------------------------
(* Nothing disturbed: the rest, and the theorem.                           *)

\* A click makes the agent's view of the button old, and no event.
LEMMA ClickCalm == ASSUME LinkInv, Calm, Click PROVE Calm'
<1>1. UNCHANGED <<python, c2s, s2c, agent>> /\ clicks' = clicks + 1
    BY DEF Click
<1>2. clicks \in Nat
    BY BoundsNat DEF LinkInv, CountType
<1>3. ASSUME NEW k \in Int, Told(k) PROVE Told(k)'
    BY <1>1, <1>2, <1>3 DEF Told
<1>4. Threaded'
    BY <1>1 DEF python, Calm, Threaded, Booting
<1>5. Told(handled)' /\ agent_up' /\ \A k \in DOMAIN rbuf' : rbuf'[k] > 0
  <2>1. PICK k : k = handled
      OBVIOUS
  <2>2. k \in Int
      BY <2>1, BoundsNat DEF LinkInv, ServerType
  <2>3. Told(k)'
      BY <1>3, <2>1, <2>2 DEF Calm
  <2> QED BY <1>1, <2>1, <2>3 DEF Calm, Told, python, agent
<1>6. OneLink'
  <2>1. CASE pc[Reader] = "boot"
      BY <1>1, <2>1 DEF python, agent, Calm, OneLink, Alone
  <2>2. CASE pc[Reader] # "boot"
    <3>1. PICK c : c = Conn
        OBVIOUS
    <3>2. PICK line : line = rbuf \o s2c[c]
        OBVIOUS
    <3>3. c \in Conns /\ Held(c) /\ Heard(line)
        BY <2>2, <3>1, <3>2 DEF Calm, OneLink
    <3>4. line \in Seq(Int)
        BY <3>2, <3>3, LineInt
    <3>5. Held(c)'
        BY <1>1, <3>3, HeldStill DEF agent
    <3>6. Heard(line)'
      <4>1. InOrder(line)'
          BY <1>1, <3>3 DEF python, Heard, InOrder
      <4>2. \A k \in DOMAIN line : line[k] >= 0 /\ Told(line[k])'
          BY <1>3, <3>3, <3>4 DEF Heard
      <4> QED BY <4>1, <4>2 DEF Heard
    <3>7. Conn' = c /\ rbuf' \o s2c'[c] = line /\ pc'[Reader] # "boot"
        BY <1>1, <2>2, <3>1, <3>2 DEF python, Conn
    <3> QED BY <3>3, <3>5, <3>6, <3>7 DEF OneLink
  <2> QED BY <2>1, <2>2
<1> QED BY <1>4, <1>5, <1>6 DEF Calm

\* Every step leaves everything undisturbed, as long as no fault and no overlong line comes.
LEMMA CalmStep == LinkInv /\ CalmInv /\ [Next]_vars => CalmInv'
<1> SUFFICES ASSUME LinkInv, CalmInv, [Next]_vars, faults' = 0, ~overlong'
             PROVE  Calm'
    BY DEF CalmInv
<1>1. ASSUME NEW t \in Handlers, Begin(t) PROVE Calm'
  <2>1. faults = 0 /\ ~overlong
      BY <1>1 DEF Begin
  <2> QED BY <1>1, <2>1, BeginCalm DEF CalmInv
<1>2. ASSUME NEW t \in Threads, CmdStep(t) PROVE Calm'
  <2>1. UNCHANGED <<issued, faults>>
      BY <1>2 DEF CmdStep, Send, Check, Connect, ConnectFrom, Store, StoreFrom, Alive, Resend, Note
  <2> QED BY <1>2, <2>1, CmdCalm DEF CalmInv, issued
<1>3. CASE ReadStep
  <2>1. UNCHANGED <<issued, faults>>
      BY <1>3 DEF ReadStep, Boot, Look, Recv, LinesDone, EventLine, Clear, Reconnect, ReaderEnds,
             ConnectFrom, StoreFrom
  <2> QED BY <1>3, <2>1, ReadCalm DEF CalmInv, issued
<1>4. CASE CallbackFails \/ AgentKilled \/ ServerRestart
  <2>1. faults' = faults + 1 /\ faults \in Nat
      BY <1>4, BoundsNat DEF CallbackFails, AgentKilled, ServerRestart, Fault, LinkInv, CountType
  <2> QED BY <2>1
<1>5. CASE AgentStep
  <2>1. CASE AcceptClients
    <3>1. UNCHANGED <<issued, faults>>
        BY <2>1 DEF AcceptClients
    <3> QED BY <2>1, <3>1, AcceptCalm DEF CalmInv, issued
  <2>2. CASE PollButtons
    <3>1. UNCHANGED <<issued, faults>>
        BY <2>2 DEF PollButtons
    <3> QED BY <2>2, <3>1, PollCalm DEF CalmInv, issued
  <2>3. ASSUME NEW i \in Slots, ReadSlot(i) \/ EndSlot(i) PROVE Calm'
    <3>1. UNCHANGED <<issued, faults>>
        BY <2>3 DEF ReadSlot, EndSlot
    <3>2. Calm
        BY <3>1 DEF CalmInv, issued
    <3> QED BY <2>3, <3>2, ReadSlotCalm, EndSlotCalm
  <2> QED BY <1>5, <2>1, <2>2, <2>3 DEF AgentStep
<1>6. CASE Click
  <2>1. UNCHANGED <<issued, faults>>
      BY <1>6 DEF Click
  <2> QED BY <1>6, <2>1, ClickCalm DEF CalmInv, issued
<1>7. CASE AgentStart
  <2>1. UNCHANGED <<issued, faults>> /\ ~agent_up
      BY <1>7 DEF AgentStart
  <2> QED BY <2>1 DEF CalmInv, issued, Calm
<1>8. CASE UNCHANGED vars
  <2>1. /\ UNCHANGED <<issued, faults, clicks, handled, btn_prev, agent_up, rbuf, s2c>>
        /\ UNCHANGED <<backlog, slots, buf, c2s>> /\ UNCHANGED python
      BY <1>8 DEF vars, agent, python
  <2>2. Calm
      BY <2>1 DEF CalmInv, issued
  <2>3. Threaded' /\ Told(handled)' /\ agent_up' /\ \A k \in DOMAIN rbuf' : rbuf'[k] > 0
      BY <2>1, <2>2 DEF python, Calm, Threaded, Booting, Told, Pressed
  <2>4. OneLink'
    <3>1. CASE pc[Reader] = "boot"
        BY <2>1, <2>2, <3>1 DEF python, Calm, OneLink, Alone
    <3>2. CASE pc[Reader] # "boot"
      <4>1. PICK c : c = Conn
          OBVIOUS
      <4>2. PICK line : line = rbuf \o s2c[c]
          OBVIOUS
      <4>3. c \in Conns /\ Held(c) /\ Heard(line)
          BY <2>2, <3>2, <4>1, <4>2 DEF Calm, OneLink
      <4>4. Held(c)' /\ Heard(line)'
          BY <2>1, <4>3, HeldStill, HeardStill
      <4>5. Conn' = c /\ rbuf' \o s2c'[c] = line /\ pc'[Reader] # "boot"
          BY <2>1, <3>2, <4>1, <4>2 DEF python, Conn
      <4> QED BY <4>3, <4>4, <4>5 DEF OneLink
    <3> QED BY <3>1, <3>2
  <2> QED BY <2>3, <2>4 DEF Calm
<1> QED BY <1>1, <1>2, <1>3, <1>4, <1>5, <1>6, <1>7, <1>8 DEF Next

\* Nothing is disturbed when both programs start.
LEMMA CalmInit == Init => CalmInv
<1> SUFFICES ASSUME Init PROVE Calm
    BY DEF CalmInv
<1>1. pc[Reader] = "boot" /\ \A t \in Handlers : pc[t] = "idle"
    BY ThreadsAre DEF Init
<1>2. \A t \in Threads : cmd[t].len <= RxCap /\ local[t] = None
    BY BoundsNat DEF Init, NoCommand
<1>3. Threaded
    BY <1>1, <1>2, ThreadsAre DEF Init, Threaded, CalmPoints
<1>4. OneLink
    BY <1>1 DEF Init, OneLink, Alone
<1>5. Told(handled)
  <2>1. clicks = 0 /\ handled = 0
      BY DEF Init
  <2>2. ~Pressed
      BY <2>1 DEF Pressed
  <2>3. ~btn_prev
      BY DEF Init
  <2>4. btn_prev = Pressed
      BY <2>2, <2>3, Bool DEF Init
  <2>5. handled <= clicks
      BY <2>1
  <2> QED BY <2>4, <2>5 DEF Told
<1>6. agent_up /\ \A k \in DOMAIN rbuf : rbuf[k] > 0
    BY DEF Init
<1> QED BY <1>3, <1>4, <1>5, <1>6 DEF Calm

\* Nobody killed and nothing too long: the server and the agent keep their first connection,
\* whatever the threads, the reads and the button do in whatever order; and an event comes to
\* the callback once and in its turn (GUIClient, process_client, ipc_server_broadcast).
THEOREM LinkUndisturbed == Spec => []Undisturbed
<1>1. LinkInv /\ CalmInv => Undisturbed
  <2> SUFFICES ASSUME LinkInv, Calm
               PROVE  /\ agent_up
                      /\ ~Booting => /\ {c \in Conns : AgentHas(c)} = {sock}
                                     /\ InOrder(rbuf \o s2c[sock])
      BY DEF CalmInv, Undisturbed
  <2>1. agent_up
      BY DEF Calm
  <2>2. ASSUME ~Booting
        PROVE  {c \in Conns : AgentHas(c)} = {sock} /\ InOrder(rbuf \o s2c[sock])
    <3>1. PICK c : c = Conn
        OBVIOUS
    <3>2. pc[Reader] # "boot" /\ c = sock
        BY <2>2, <3>1 DEF Booting, Conn
    <3>3. {d \in Conns : AgentHas(d)} = {c}
        BY <3>1, <3>2, CalmHas
    <3>4. InOrder(rbuf \o s2c[c])
        BY <3>1, <3>2 DEF Calm, OneLink, Heard
    <3> QED BY <3>2, <3>3, <3>4
  <2> QED BY <2>1, <2>2
<1> QED BY <1>1, LinkInit, LinkStep, CalmInit, CalmStep, PTL DEF Spec

---------------------------------------------------------------------------
(* The agent's screen.                                                     *)

\* What the screen invariant needs to know of the types.
ScreenType == g_state \in AgentStates /\ g_idle_page \in Pages

\* OneScreen, with the types it rests on.
ScreenInv == ScreenType /\ OneScreen

\* A state's container is one of the three, and the idle container is shown for the states
\* that share it.
LEMMA ContainerType ==
    ASSUME NEW s \in AgentStates
    PROVE  /\ Container(s) \in Containers
           /\ Container(s) = "idle" <=> s \in {"idle", "listening", "thinking"}
    BY DEF Container, Containers, AgentStates

\* The next page, or the one before the first, is a page.
LEMMA NextPage ==
    ASSUME NEW p \in Pages, NEW dir \in {-1, 1}
    PROVE  (p + dir + IDLE_PAGE_COUNT) % IDLE_PAGE_COUNT \in Pages
    BY DEF Pages, IDLE_PAGE_COUNT

\* agent_set_state replaces what is visible, whatever it was, when it shows the idle
\* container; else it leaves the page as it is.
LEMMA SetStateKeeps ==
    ASSUME ScreenInv, NEW s \in AgentStates, agent_set_state(s)
    PROVE  ScreenInv'
<1>1. g_state' = s
    BY DEF agent_set_state
<1>2. containers' = {Container(s)}
  <2>1. containers \ Containers = {}
    BY ContainerType DEF ScreenInv, ScreenType, OneScreen
  <2> QED BY <2>1 DEF agent_set_state
<1>3. CASE Container(s) = "idle"
  <2>1. pages' = {PageOf(s)} /\ dots' = {PageOf(s)} /\ g_idle_page' = PageOf(s)
    BY <1>3 DEF agent_set_state, ShowPage
  <2>2. PageOf(s) \in Pages /\ (s # "idle" => PageOf(s) = 1)
    BY DEF PageOf, Pages, IDLE_PAGE_COUNT
  <2> QED BY <1>1, <1>2, <2>1, <2>2 DEF ScreenInv, ScreenType, OneScreen
<1>4. CASE Container(s) # "idle"
  <2>1. UNCHANGED <<pages, dots, g_idle_page>>
    BY <1>4 DEF agent_set_state
  <2>2. s \notin {"listening", "thinking"}
    BY <1>4, ContainerType
  <2> QED BY <1>1, <1>2, <2>1, <2>2 DEF ScreenInv, ScreenType, OneScreen
<1> QED BY <1>3, <1>4

\* Turning a page hides the old one; it happens in the idle state only.
LEMMA NavKeeps ==
    ASSUME ScreenInv, NEW dir \in {-1, 1}, agent_idle_nav(dir)
    PROVE  ScreenInv'
<1> DEFINE next == (g_idle_page + dir + IDLE_PAGE_COUNT) % IDLE_PAGE_COUNT
<1>1. g_idle_page' = next /\ next \in Pages
    BY NextPage DEF agent_idle_nav, Turn, ScreenInv, ScreenType
<1>2. pages' = {next} /\ dots' = {next}
    BY DEF agent_idle_nav, Turn, ScreenInv, OneScreen
<1>3. g_state' = g_state /\ g_state = "idle" /\ containers' = containers
    BY DEF agent_idle_nav, Turn
<1> HIDE DEF next
<1> QED BY <1>1, <1>2, <1>3 DEF ScreenInv, ScreenType, OneScreen

\* Every variable of the screen invariant keeps its type, and OneScreen with it.
LEMMA ScreenStep ==
    ASSUME ScreenInv, [ScreenNext]_screen_vars
    PROVE  ScreenInv'
<1>1. CASE Command
    BY <1>1, SetStateKeeps, StatesKnown DEF Command
<1>2. ASSUME NEW dir \in {-1, 1}, agent_idle_nav(dir)
      PROVE  ScreenInv'
    BY <1>2, NavKeeps
<1>3. CASE Tick \/ UNCHANGED screen_vars
  <2>1. UNCHANGED screen
    BY <1>3 DEF Tick, screen_vars
  <2> QED BY <2>1 DEF screen, ScreenInv, ScreenType, OneScreen
<1> QED BY <1>1, <1>2, <1>3 DEF ScreenNext

\* One container is visible and it is the state's; one page of the idle container is, with
\* its dot; while the agent listens or thinks it is the face (agent_set_state,
\* agent_idle_nav).
THEOREM ScreenIsOne == ScreenSpec => []OneScreen
<1>1. ScreenInit => ScreenInv
    BY DEF ScreenInit, ScreenInv, ScreenType, OneScreen, Container, AgentStates, Pages,
           IDLE_PAGE_COUNT
<1>2. ScreenInv /\ [ScreenNext]_screen_vars => ScreenInv'
    BY ScreenStep
<1>3. ScreenInv => OneScreen
    BY DEF ScreenInv
<1> QED BY <1>1, <1>2, <1>3, PTL DEF ScreenSpec

---------------------------------------------------------------------------
(* The face.                                                               *)

Openings == 0..100
Faces == {f \in [Params -> -100..100] : f.left \in Openings /\ f.right \in Openings}

\* The phase of a blink goes in steps of 20, which is why it never passes 80.
FaceInv ==
    /\ current \in Emotions /\ target \in Emotions /\ trans_pct \in 0..100
    /\ face \in Faces
    /\ blinking \in BOOLEAN /\ blink_phase \in {0, 20, 40, 60, 80} /\ since_blink \in 0..BlinkTicks
    /\ set_back \in BOOLEAN

\* The emotions of the five states.
LEMMA EmotionsAre == Emotions = {"NEUTRAL", "HAPPY", "SURPRISED", "WORKING_HARD", "SAD"}
    BY DEF Emotions, EMO_TABLE

\* A state's emotion is one of them.
LEMMA EmotionOf == ASSUME NEW s \in AgentStates PROVE Emotion(s) \in Emotions
<1>1. CASE s = "idle"
    BY <1>1, EmotionsAre DEF Emotion
<1>2. CASE s = "listening"
    BY <1>2, EmotionsAre DEF Emotion
<1>3. CASE s = "thinking"
    BY <1>3, EmotionsAre DEF Emotion
<1>4. CASE s = "speaking"
    BY <1>4, EmotionsAre DEF Emotion
<1>5. CASE s = "error"
    BY <1>5, EmotionsAre DEF Emotion
<1> QED BY <1>1, <1>2, <1>3, <1>4, <1>5 DEF AgentStates

\* The table's faces are faces.
LEMMA TableType == ASSUME NEW e \in Emotions PROVE EMO_TABLE[e] \in Faces
<1>1. CASE e = "NEUTRAL"
    BY <1>1 DEF EMO_TABLE, Faces, Params, Openings
<1>2. CASE e = "HAPPY"
    BY <1>2 DEF EMO_TABLE, Faces, Params, Openings
<1>3. CASE e = "SURPRISED"
    BY <1>3 DEF EMO_TABLE, Faces, Params, Openings
<1>4. CASE e = "WORKING_HARD"
    BY <1>4 DEF EMO_TABLE, Faces, Params, Openings
<1>5. CASE e = "SAD"
    BY <1>5 DEF EMO_TABLE, Faces, Params, Openings
<1> QED BY <1>1, <1>2, <1>3, <1>4, <1>5, EmotionsAre

\* A share of a distance is no more than the distance, in C's division too.
LEMMA Share ==
    ASSUME NEW d \in Nat, NEW pct \in 0..100
    PROVE  d * pct \in Nat /\ (d * pct) \div 100 \in 0..d
<1>1. PICK n : n = d * pct
    OBVIOUS
<1>2. n \in Nat /\ n <= d * 100
  <2>1. d * pct \in Nat
      OBVIOUS
  <2>2. d * pct <= d * 100
    <3>1. PICK r : r = 100 - pct
        OBVIOUS
    <3>2. r \in Nat /\ pct = 100 - r
        BY <3>1
    <3>3. d * r \in Nat
        BY <3>2
    <3>4. d * (100 - r) = d * 100 - d * r
        BY <3>2
    <3> QED BY <3>2, <3>3, <3>4
  <2> QED BY <1>1, <2>1, <2>2
<1>3. n \div 100 \in 0..d
    BY <1>2
<1> QED BY <1>1, <1>2, <1>3

\* A step of the transition is between its two ends.
LEMMA Between ==
    ASSUME NEW low \in Int, NEW high \in Int, NEW from \in low..high, NEW to \in low..high,
           NEW pct \in 0..100
    PROVE  from + Quot((to - from) * pct, 100) \in low..high
<1>1. CASE to >= from
  <2>1. PICK d : d = to - from
      OBVIOUS
  <2>2. d \in Nat
      BY <1>1, <2>1
  <2>3. d * pct \in Nat /\ (d * pct) \div 100 \in 0..d
      BY <2>2, Share
  <2>4. Quot(d * pct, 100) = (d * pct) \div 100
      BY <2>3 DEF Quot
  <2>5. PICK q : q = (d * pct) \div 100
      OBVIOUS
  <2> QED BY <2>1, <2>2, <2>3, <2>4, <2>5
<1>2. CASE to < from
  <2>1. PICK d : d = from - to
      OBVIOUS
  <2>2. d \in Nat /\ to - from = -d
      BY <1>2, <2>1
  <2>3. d * pct \in Nat /\ (d * pct) \div 100 \in 0..d
      BY <2>2, Share
  <2>4. PICK n : n = d * pct
      OBVIOUS
  <2>5. (-d) * pct = -n
      BY <2>2, <2>4
  <2>6. Quot(-n, 100) = -(n \div 100)
      BY <2>3, <2>4 DEF Quot
  <2>7. PICK q : q = n \div 100
      OBVIOUS
  <2>8. (to - from) * pct = -n
      BY <2>2, <2>5
  <2> QED BY <2>1, <2>2, <2>3, <2>4, <2>6, <2>7, <2>8
<1> QED BY <1>1, <1>2

\* A step of a transition between two faces is a face.
LEMMA LerpType ==
    ASSUME NEW from \in Faces, NEW to \in Faces, NEW pct \in 0..100
    PROVE  Lerp(from, to, pct) \in Faces
<1> DEFINE f == Lerp(from, to, pct)
<1>1. f = [p \in Params |-> from[p] + Quot((to[p] - from[p]) * pct, 100)]
    BY DEF Lerp
<1>2. ASSUME NEW p \in Params, NEW low \in Int, from[p] \in low..100, to[p] \in low..100
      PROVE  f[p] \in low..100
  <2>1. PICK a, b : a = from[p] /\ b = to[p]
      OBVIOUS
  <2>2. a \in low..100 /\ b \in low..100 /\ 100 \in Int
      BY <1>2, <2>1
  <2>3. a + Quot((b - a) * pct, 100) \in low..100
      BY <2>2, Between
  <2> QED BY <1>1, <2>1, <2>3
<1>3. f \in [Params -> -100..100]
  <2>1. ASSUME NEW p \in Params PROVE f[p] \in -100..100
    <3>1. from[p] \in -100..100 /\ to[p] \in -100..100 /\ -100 \in Int
        BY DEF Faces
    <3> QED BY <1>2, <3>1
  <2> QED BY <1>1, <2>1
<1>4. f.left \in 0..100 /\ f.right \in 0..100
  <2>1. from["left"] \in 0..100 /\ to["left"] \in 0..100 /\ "left" \in Params
      BY DEF Faces, Openings, Params
  <2>2. from["right"] \in 0..100 /\ to["right"] \in 0..100 /\ "right" \in Params
      BY DEF Faces, Openings, Params
  <2>3. f["left"] \in 0..100
      BY <1>2, <2>1
  <2>4. f["right"] \in 0..100
      BY <1>2, <2>2
  <2> HIDE DEF f
  <2> QED BY <2>3, <2>4
<1> HIDE DEF f
<1>5. f \in Faces
    BY <1>3, <1>4 DEF Faces, Openings
<1> QED BY <1>5 DEF f

\* A blink changes a face into a face.
LEMMA BlinkedType == ASSUME FaceInv PROVE Blinked \in Faces
<1>1. ASSUME NEW l \in Openings, NEW r \in Openings PROVE WithEyes(l, r) \in Faces
  <2>1. face \in [Params -> -100..100] /\ l \in -100..100 /\ r \in -100..100
      BY DEF FaceInv, Faces, Openings
  <2>2. WithEyes(l, r) \in [Params -> -100..100]
      BY <2>1 DEF WithEyes
  <2>3. WithEyes(l, r).left = l /\ WithEyes(l, r).right = r
      BY <2>1 DEF WithEyes, Params
  <2> QED BY <2>2, <2>3 DEF Faces
<1>2. CASE BlinkEnds
  <2>1. EMO_TABLE[current].left \in Openings /\ EMO_TABLE[current].right \in Openings
      BY TableType DEF FaceInv, Faces
  <2> QED BY <1>1, <1>2, <2>1 DEF Blinked
<1>3. CASE blinking /\ ~BlinkEnds
  <2>1. blink_phase + 20 \in {20, 40, 60, 80}
      BY <1>3 DEF FaceInv, BlinkEnds
  <2>2. Openness(blink_phase + 20) \in Openings
      BY <2>1 DEF Openness, Openings
  <2> QED BY <1>1, <1>3, <2>2 DEF Blinked
<1>4. CASE ~blinking
    BY <1>4 DEF Blinked, FaceInv, BlinkEnds
<1> QED BY <1>2, <1>3, <1>4

\* A tick keeps the face in its range.
LEMMA TickFace == ASSUME FaceInv, Tick PROVE FaceInv'
<1>1. blinking' \in BOOLEAN
  <2>1. CASE blinking
      BY <2>1 DEF Tick, Blink, FaceInv, BlinkEnds
  <2>2. CASE ~blinking
      BY <2>2 DEF Tick, Blink
  <2> QED BY <2>1, <2>2
<1>2. blink_phase' \in {0, 20, 40, 60, 80}
    BY DEF Tick, Blink, FaceInv, BlinkEnds
<1>3. since_blink' \in 0..BlinkTicks
    BY BlinkTicksNat DEF Tick, Blink, FaceInv
<1>4. target' \in Emotions
    BY DEF Tick, FaceInv
<1>5. /\ current' \in Emotions /\ trans_pct' \in 0..100 /\ face' \in Faces
  <2>1. CASE Moving
    <3>1. face' = Lerp(EMO_TABLE[current], EMO_TABLE[target], trans_pct)
          /\ trans_pct' = (IF TransEnds THEN 100 ELSE (trans_pct + 8) % 256)
          /\ current' = IF TransEnds THEN target ELSE current
        BY <2>1 DEF Tick, Transition
    <3>2. face' \in Faces
        BY <3>1, TableType, LerpType DEF FaceInv
    <3>3. trans_pct' \in 0..100
        BY <3>1 DEF TransEnds, FaceInv
    <3> QED BY <3>1, <3>2, <3>3 DEF FaceInv
  <2>2. CASE ~Moving
      BY <2>2, BlinkedType DEF Tick, Transition, FaceInv
  <2> QED BY <2>1, <2>2
<1>6. set_back' \in BOOLEAN
    BY DEF Tick, FaceInv
<1> QED BY <1>1, <1>2, <1>3, <1>4, <1>5, <1>6 DEF FaceInv

\* So does every step.
LEMMA FaceStep == ASSUME FaceInv, [ScreenNext]_screen_vars PROVE FaceInv'
<1>1. ASSUME NEW s \in States, agent_set_state(s) PROVE FaceInv'
  <2>1. set_back' \in BOOLEAN
      BY <1>1 DEF agent_set_state, SetEmotion, SetBack
  <2>2. target' \in Emotions /\ trans_pct' = 0
        /\ UNCHANGED <<current, face, blinking, blink_phase, since_blink>>
      BY <1>1, EmotionOf, StatesKnown DEF agent_set_state, SetEmotion
  <2> QED BY <2>1, <2>2 DEF FaceInv
<1>2. ASSUME NEW dir \in {-1, 1}, agent_idle_nav(dir) PROVE FaceInv'
    BY <1>2 DEF agent_idle_nav, Turn, kawaii, FaceInv
<1>3. CASE Tick
    BY <1>3, TickFace
<1>4. CASE UNCHANGED screen_vars
    BY <1>4 DEF screen_vars, kawaii, FaceInv
<1> QED BY <1>1, <1>2, <1>3, <1>4 DEF ScreenNext, Command

\* Through any transitions and blinks, also those that meet, no percentage, phase or opening
\* of the face leaves its range, though the code keeps them in single bytes.
THEOREM ScreenTypes == ScreenSpec => []ScreenTypeOK
<1>1. ScreenInit => ScreenInv /\ FaceInv
  <2>1. ScreenInit => ScreenInv
      BY DEF ScreenInit, ScreenInv, ScreenType, OneScreen, Container, AgentStates, Pages,
             IDLE_PAGE_COUNT
  <2>2. ScreenInit => FaceInv
    <3>1. "NEUTRAL" \in Emotions
        BY EmotionsAre
    <3>2. ScreenInit => face \in Faces
        BY <3>1, TableType DEF ScreenInit
    <3>3. ScreenInit => since_blink \in 0..BlinkTicks
        BY BlinkTicksNat DEF ScreenInit
    <3>4. ScreenInit => blinking \in BOOLEAN /\ set_back \in BOOLEAN
        BY DEF ScreenInit
    <3> QED BY <3>1, <3>2, <3>3, <3>4 DEF ScreenInit, FaceInv
  <2> QED BY <2>1, <2>2
<1>2. ScreenInv /\ FaceInv /\ [ScreenNext]_screen_vars => (ScreenInv /\ FaceInv)'
    BY ScreenStep, FaceStep
<1>3. ScreenInv /\ FaceInv => ScreenTypeOK
  <2> SUFFICES ASSUME ScreenInv, FaceInv PROVE ScreenTypeOK
      OBVIOUS
  <2>1. containers \subseteq Containers /\ pages \subseteq Pages /\ dots \subseteq Pages
      BY ContainerType DEF ScreenInv, ScreenType, OneScreen
  <2>2. face \in [Params -> -100..100] /\ face.left \in 0..100 /\ face.right \in 0..100
      BY DEF FaceInv, Faces, Openings
  <2>3. blink_phase \in 0..80
      BY DEF FaceInv
  <2> QED BY <2>1, <2>2, <2>3 DEF ScreenTypeOK, ScreenInv, ScreenType, FaceInv
<1> QED BY <1>1, <1>2, <1>3, PTL DEF ScreenSpec

=============================================================================

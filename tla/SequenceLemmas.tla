---------------------------- MODULE SequenceLemmas ----------------------------
(***************************************************************************)
(* Lemmas on what the models are built from: induction over the numbers,   *)
(* recursive functions, and FlattenSeq.  The induction is by the least     *)
(* counterexample, as the order of the numbers is well-founded.            *)
(***************************************************************************)
EXTENDS Integers, SequencesExt, SequenceTheorems, WellFoundedInduction, TLAPS

\* A set of numbers with 0, and with n + 1 for each n, has all of them.
LEMMA SetInduction ==
  ASSUME NEW S \in SUBSET Nat, 0 \in S, \A n \in S : n + 1 \in S
  PROVE  S = Nat
  <1> DEFINE T == Nat \ S
  <1>1. SUFFICES ASSUME T # {} PROVE FALSE
    OBVIOUS
  <1>2. PICK n \in T : \A m \in T : ~(<<m, n>> \in OpToRel(<, Nat))
    <2>1. T \subseteq Nat
      OBVIOUS
    <2> HIDE DEF T
    <2> QED
      BY <1>1, <2>1, NatLessThanWellFounded, WFMin
  <1>3. n - 1 \in T /\ <<n - 1, n>> \in OpToRel(<, Nat)
    BY DEF OpToRel
  <1> QED
    BY <1>2, <1>3

\* From each d outside of stop, next leads to something smaller.
Descends(D, size, stop, next) ==
  /\ size \in [D -> Nat] /\ stop \in SUBSET D /\ next \in [D -> D]
  /\ \A d \in D \ stop : size[next[d]] < size[d]

\* S has what stops, and each d it has next[d] of.
Inherited(S, D, stop, next) ==
  S \in SUBSET D /\ stop \subseteq S /\ \A d \in D \ stop : next[d] \in S => d \in S

\* Such a set has everything.
LEMMA DescendsInduction ==
  ASSUME NEW D, NEW size, NEW stop, NEW next, Descends(D, size, stop, next),
         NEW S, Inherited(S, D, stop, next)
  PROVE  S = D
  <1> USE DEF Inherited
  <1> DEFINE N == {n \in Nat : \A d \in D : size[d] < n => d \in S}
  <1>1. 0 \in N
    BY DEF Descends
  <1>2. ASSUME NEW n \in N PROVE n + 1 \in N
    <2> SUFFICES ASSUME NEW d \in D, size[d] < n + 1 PROVE d \in S
      OBVIOUS
    <2>1. CASE d \in stop
      BY <2>1
    <2>2. CASE d \notin stop
      <3>1. next[d] \in D /\ size[next[d]] < n
        BY <2>2 DEF Descends
      <3> QED
        BY <2>2, <3>1
    <2> QED
      BY <2>1, <2>2
  <1>3. N = Nat
    <2> HIDE DEF N
    <2>1. N \in SUBSET Nat
      BY DEF N
    <2> QED
      BY <1>1, <1>2, <2>1, SetInduction
  <1>4. \A d \in D : size[d] + 1 \in N /\ size[d] < size[d] + 1
    BY <1>3 DEF Descends
  <1> QED
    BY <1>4

\* f is defined by recursion along next.
Recursive(f, D, stop, next, base, g) ==
  \A d \in D : f[d] = IF d \in stop THEN base[d] ELSE g[<<d, f[next[d]]>>]

\* There is a function defined by recursion along what descends.
LEMMA RecursionExists ==
  ASSUME NEW D, NEW T, NEW size, NEW stop, NEW next, Descends(D, size, stop, next),
         NEW base \in [D -> T], NEW g \in [D \X T -> T]
  PROVE  \E f \in [D -> T] : Recursive(f, D, stop, next, base, g)
  <1> USE DEF Descends
  <1> DEFINE Body(f, d) == IF d \in stop THEN base[d] ELSE g[<<d, f[next[d]]>>]
             Below(n) == {d \in D : size[d] < n}
             Good(f, n) == f \in [Below(n) -> T] /\ \A d \in Below(n) : f[d] = Body(f, d)
  <1>1. ASSUME NEW f, NEW h, NEW m \in Nat, NEW n \in Nat, Good(f, m), Good(h, n)
        PROVE  \A d \in Below(m) \intersect Below(n) : f[d] = h[d]
    <2> DEFINE S == {k \in Nat : \A d \in Below(k) \intersect Below(m) \intersect Below(n) :
                                   f[d] = h[d]}
    <2>1. 0 \in S
      OBVIOUS
    <2>2. ASSUME NEW k \in S PROVE k + 1 \in S
      <3> SUFFICES ASSUME NEW d \in Below(k + 1) \intersect Below(m) \intersect Below(n)
                   PROVE  f[d] = h[d]
        OBVIOUS
      <3>1. CASE d \in stop
        BY <1>1, <3>1
      <3>2. CASE d \notin stop
        <4>1. next[d] \in Below(k) \intersect Below(m) \intersect Below(n)
          BY <3>2
        <4>2. f[next[d]] = h[next[d]]
          BY <4>1
        <4> QED
          BY <1>1, <3>2, <4>2
      <3> QED
        BY <3>1, <3>2
    <2>3. S = Nat
      <3> HIDE DEF S
      <3>1. S \in SUBSET Nat
        BY DEF S
      <3> QED
        BY <2>1, <2>2, <3>1, SetInduction
    <2> QED
      <3> SUFFICES ASSUME NEW d \in Below(m) \intersect Below(n) PROVE f[d] = h[d]
        OBVIOUS
      <3>1. m \in S
        BY <2>3
      <3> QED
        BY <3>1
  <1>2. \A n \in Nat : \E f : Good(f, n)
    <2> DEFINE S == {n \in Nat : \E f : Good(f, n)}
    <2>1. 0 \in S
      <3>1. Good([d \in Below(0) |-> base[d]], 0)
        OBVIOUS
      <3> QED
        BY <3>1
    <2>2. ASSUME NEW n \in S PROVE n + 1 \in S
      <3>1. PICK f : Good(f, n)
        OBVIOUS
      <3> DEFINE h == [d \in Below(n + 1) |-> Body(f, d)]
      <3>2. \A d \in Below(n + 1) \ stop : next[d] \in Below(n)
        OBVIOUS
      <3>3. h \in [Below(n + 1) -> T]
        BY <3>1, <3>2
      <3>4. \A d \in Below(n) : h[d] = f[d]
        BY <3>1
      <3>5. \A d \in Below(n + 1) : h[d] = Body(h, d)
        BY <3>2, <3>4
      <3>6. Good(h, n + 1)
        BY <3>3, <3>5
      <3> HIDE DEF Good, h
      <3> QED
        BY <3>6
    <2> HIDE DEF S
    <2>3. S = Nat
      <3>1. S \in SUBSET Nat
        BY DEF S
      <3> QED
        BY <2>1, <2>2, <3>1, SetInduction
    <2> QED
      BY <2>3 DEF S
  <1> DEFINE stage(n) == CHOOSE f : Good(f, n)
             F == [d \in D |-> stage(size[d] + 1)[d]]
  <1>3. \A n \in Nat : Good(stage(n), n)
    BY <1>2
  <1> HIDE DEF stage
  <1>4. \A d \in D : size[d] + 1 \in Nat /\ d \in Below(size[d] + 1)
    OBVIOUS
  <1>5. F \in [D -> T]
    BY <1>3, <1>4
  <1>6. ASSUME NEW d \in D PROVE F[d] = Body(F, d)
    <2> DEFINE f == stage(size[d] + 1)
    <2>1. Good(f, size[d] + 1) /\ F[d] = f[d] /\ f[d] = Body(f, d)
      BY <1>3, <1>4
    <2>2. CASE d \in stop
      BY <2>1, <2>2
    <2>3. CASE d \notin stop
      <3> DEFINE e == next[d]
                 h == stage(size[e] + 1)
      <3>1. e \in D /\ e \in Below(size[d] + 1) /\ e \in Below(size[e] + 1)
        BY <2>3
      <3>2. Good(h, size[e] + 1) /\ F[e] = h[e]
        BY <1>3, <1>4, <3>1
      <3>3. f[e] = h[e]
        <4>1. size[d] + 1 \in Nat /\ size[e] + 1 \in Nat
          OBVIOUS
        <4> HIDE DEF f, h, e, Good, Below
        <4> QED
          BY <1>1, <2>1, <3>1, <3>2, <4>1
      <3> QED
        BY <2>1, <2>3, <3>2, <3>3
    <2> QED
      BY <2>2, <2>3
  <1> QED
    BY <1>5, <1>6 DEF Recursive

\* The elements of a concatenation.
LEMMA ConcatIs ==
  ASSUME NEW X, NEW a \in Seq(X), NEW b \in Seq(X)
  PROVE  /\ a \o b \in Seq(X)
         /\ Len(a) \in Nat /\ Len(b) \in Nat /\ Len(a \o b) = Len(a) + Len(b)
         /\ \A n \in 1..Len(a) : (a \o b)[n] = a[n]
         /\ \A n \in 1..Len(b) : (a \o b)[Len(a) + n] = b[n]
  BY ConcatProperties

\* Concatenation is associative.
Associates(X) == \A a, b, c \in Seq(X) : (a \o b) \o c = a \o (b \o c)

LEMMA ConcatAssoc == ASSUME NEW X PROVE Associates(X)
  <1> USE DEF Associates
  <1> SUFFICES ASSUME NEW a \in Seq(X), NEW b \in Seq(X), NEW c \in Seq(X)
               PROVE  (a \o b) \o c = a \o (b \o c)
    OBVIOUS
  <1> QED
    BY ConcatAssociative

\* The elements of what is behind a place.
LEMMA SuffixIs ==
  ASSUME NEW X, NEW s \in Seq(X), NEW k \in 1..(Len(s) + 1)
  PROVE  /\ SubSeq(s, k, Len(s)) \in Seq(X)
         /\ Len(SubSeq(s, k, Len(s))) = Len(s) + 1 - k
         /\ \A n \in 1..Len(SubSeq(s, k, Len(s))) : SubSeq(s, k, Len(s))[n] = s[n + k - 1]
  OBVIOUS

\* What is behind a place of what is behind a place.
LEMMA SuffixOfSuffix ==
  ASSUME NEW X, NEW s \in Seq(X), NEW t \in Seq(X), NEW n \in Nat, NEW m \in Nat,
         t = SubSeq(s, n + 1, Len(s)), n + m <= Len(s)
  PROVE  SubSeq(t, m + 1, Len(t)) = SubSeq(s, n + m + 1, Len(s))
  <1> DEFINE x == SubSeq(t, m + 1, Len(t))
             y == SubSeq(s, n + m + 1, Len(s))
  <1>1. Len(s) \in Nat /\ n + 1 \in 1..(Len(s) + 1) /\ n + m + 1 \in 1..(Len(s) + 1)
    OBVIOUS
  <1>2. Len(t) = Len(s) + 1 - (n + 1) /\ \A i \in 1..Len(t) : t[i] = s[i + (n + 1) - 1]
    BY <1>1, SuffixIs
  <1>3. m + 1 \in 1..(Len(t) + 1) /\ Len(t) \in Nat
    BY <1>1, <1>2
  <1>4. /\ x \in Seq(X) /\ Len(x) = Len(t) + 1 - (m + 1)
        /\ \A i \in 1..Len(x) : x[i] = t[i + (m + 1) - 1]
    BY <1>3, SuffixIs
  <1>5. /\ y \in Seq(X) /\ Len(y) = Len(s) + 1 - (n + m + 1)
        /\ \A i \in 1..Len(y) : y[i] = s[i + (n + m + 1) - 1]
    BY <1>1, SuffixIs
  <1> HIDE DEF x, y
  <1>6. Len(x) = Len(y)
    BY <1>1, <1>2, <1>4, <1>5
  <1>7. ASSUME NEW i \in 1..Len(x) PROVE x[i] = y[i]
    <2>1. i \in Nat /\ i + (m + 1) - 1 \in 1..Len(t) /\ i \in 1..Len(y)
      <3> DEFINE lt == Len(t)
                 lx == Len(x)
      <3>1. lt \in Nat /\ lx = lt - m /\ i \in 1..lx
        <4>1. lt \in Nat /\ i \in 1..lx
          BY <1>3
        <4>2. lx = lt + 1 - (m + 1)
          BY <1>4
        <4> HIDE DEF lt, lx
        <4> QED
          BY <4>1, <4>2
      <3> HIDE DEF lt, lx
      <3>2. i \in Nat /\ i + (m + 1) - 1 \in 1..lt
        BY <3>1
      <3> QED
        BY <1>6, <3>1, <3>2 DEF lt, lx
    <2>2. (i + (m + 1) - 1) + (n + 1) - 1 = i + (n + m + 1) - 1
      BY <2>1
    <2> QED
      BY <1>2, <1>4, <1>5, <2>1, <2>2
  <1>8. x = y
    BY <1>4, <1>5, <1>6, <1>7, SeqEqual
  <1> QED
    BY <1>8 DEF x, y

\* What is behind a place of a concatenation's first part.
LEMMA SubSeqConcat ==
  ASSUME NEW X, NEW a \in Seq(X), NEW b \in Seq(X), NEW k \in 1..(Len(a) + 1)
  PROVE  SubSeq(a \o b, k, Len(a \o b)) = SubSeq(a, k, Len(a)) \o b
  <1> DEFINE c == a \o b
             x == SubSeq(c, k, Len(c))
             y == SubSeq(a, k, Len(a))
  <1>1. /\ c \in Seq(X)
        /\ Len(a) \in Nat /\ Len(b) \in Nat /\ Len(c) = Len(a) + Len(b)
        /\ \A n \in 1..Len(a) : c[n] = a[n]
        /\ \A n \in 1..Len(b) : c[Len(a) + n] = b[n]
    BY ConcatIs
  <1> HIDE DEF c
  <1>2. x \in Seq(X) /\ Len(x) = Len(c) + 1 - k /\ \A n \in 1..Len(x) : x[n] = c[n + k - 1]
    BY <1>1
  <1>3. y \in Seq(X) /\ Len(y) = Len(a) + 1 - k /\ \A n \in 1..Len(y) : y[n] = a[n + k - 1]
    BY <1>1
  <1> HIDE DEF x, y
  <1>4. /\ y \o b \in Seq(X) /\ Len(y \o b) = Len(y) + Len(b)
        /\ \A n \in 1..Len(y) : (y \o b)[n] = y[n]
        /\ \A n \in 1..Len(b) : (y \o b)[Len(y) + n] = b[n]
    <2>1. y \in Seq(X)
      BY <1>3
    <2> QED
      BY <2>1, ConcatIs
  <1>5. Len(x) = Len(y \o b)
    BY <1>1, <1>2, <1>3, <1>4
  <1>6. ASSUME NEW n \in 1..Len(x) PROVE x[n] = (y \o b)[n]
    <2>0. Len(x) \in Nat /\ Len(y) \in Nat /\ k \in Nat /\ k >= 1 /\ n \in Nat /\ n >= 1
      BY <1>1, <1>2, <1>3
    <2>1. CASE n <= Len(y)
      <3>1. n \in 1..Len(y) /\ n + k - 1 \in 1..Len(a)
        BY <1>1, <1>3, <2>0, <2>1
      <3>2. x[n] = c[n + k - 1] /\ y[n] = a[n + k - 1] /\ (y \o b)[n] = y[n]
        BY <1>2, <1>3, <1>4, <3>1
      <3> QED
        BY <1>1, <3>1, <3>2
    <2>2. CASE n > Len(y)
      <3> DEFINE m == n - Len(y)
      <3>1. m \in 1..Len(b) /\ n = Len(y) + m /\ n + k - 1 = Len(a) + m
        <4> DEFINE la == Len(a)
                   lb == Len(b)
                   ly == Len(y)
                   lx == Len(x)
        <4>1. /\ la \in Nat /\ lb \in Nat /\ ly = la + 1 - k /\ lx = la + lb + 1 - k
              /\ k \in Nat /\ n \in Nat /\ n <= lx /\ n > ly
          <5>1. la \in Nat /\ lb \in Nat /\ k \in Nat /\ n \in Nat
            BY <1>1, <2>0
          <5>2. ly = la + 1 - k
            BY <1>3
          <5>3. lx = la + lb + 1 - k
            BY <1>1, <1>2
          <5>4. n <= lx /\ n > ly
            BY <2>2
          <5> QED
            BY <5>1, <5>2, <5>3, <5>4
        <4> HIDE DEF la, lb, ly, lx
        <4>2. n - ly \in 1..lb /\ n = ly + (n - ly) /\ n + k - 1 = la + (n - ly)
          BY <4>1
        <4> QED
          BY <4>2 DEF la, lb, ly, lx
      <3> HIDE DEF m
      <3> QED
        BY <1>1, <1>2, <1>4, <3>1
    <2>3. n <= Len(y) \/ n > Len(y)
      BY <2>0
    <2> QED
      BY <2>1, <2>2, <2>3
  <1>7. x = y \o b
    BY <1>2, <1>4, <1>5, <1>6, SeqEqual
  <1> QED
    BY <1>7 DEF x, y, c

\* The first part of a concatenation is a prefix of it.
LEMMA PrefixIs ==
  ASSUME NEW X, NEW a \in Seq(X), NEW b \in Seq(X)
  PROVE  \E n \in 0..Len(a \o b) : a = SubSeq(a \o b, 1, n)
  <1> DEFINE c == a \o b
             x == SubSeq(c, 1, Len(a))
  <1>1. /\ c \in Seq(X) /\ Len(a) \in Nat /\ Len(b) \in Nat /\ Len(c) = Len(a) + Len(b)
        /\ \A n \in 1..Len(a) : c[n] = a[n]
    BY ConcatIs
  <1> HIDE DEF c
  <1>2. x \in Seq(X) /\ Len(x) = Len(a) /\ \A n \in 1..Len(a) : x[n] = a[n]
    BY <1>1
  <1> HIDE DEF x
  <1>3. x = a
    BY <1>2, SeqEqual
  <1>4. Len(a) \in 0..Len(c)
    BY <1>1
  <1> QED
    BY <1>3, <1>4 DEF x, c

\* An element in front is the head.
LEMMA ConcatFirst ==
  ASSUME NEW X, NEW x \in X, NEW s \in Seq(X)
  PROVE  <<x>> \o s # <<>> /\ Head(<<x>> \o s) = x /\ Tail(<<x>> \o s) = s
  OBVIOUS

-----------------------------------------------------------------------------
(* FlattenSeq. *)

\* f[n] is what the first n sequences of s are flattened to.
Flattens(f, s) ==
  /\ FlattenSeq(s) = f[Len(s)]
  /\ f[1] = s[1]
  /\ \A n \in 2..Len(s) : f[n] = f[n - 1] \o s[n]

\* FlattenSeq's recursive function exists.
LEMMA FlattenIs ==
  ASSUME NEW X, NEW s \in Seq(Seq(X)), s # <<>>
  PROVE  \E f \in [1..Len(s) -> Seq(X)] : Flattens(f, s)
  <1> DEFINE D == 1..Len(s)
             Flat(h) == h = [n \in D |-> IF n = 1 THEN s[n] ELSE h[n - 1] \o s[n]]
             f == CHOOSE h : Flat(h)
  <1>1. \A n \in D : s[n] \in Seq(X)
    OBVIOUS
  <1>2. \E h \in [D -> Seq(X)] : \A n \in D : h[n] = IF n = 1 THEN s[n] ELSE h[n - 1] \o s[n]
    <2> DEFINE size == [n \in D |-> n]
               stop == {1}
               next == [n \in D |-> IF n = 1 THEN 1 ELSE n - 1]
               base == [n \in D |-> s[n]]
               g == [p \in D \X Seq(X) |-> p[2] \o s[p[1]]]
    <2>1. Descends(D, size, stop, next)
      BY DEF Descends
    <2>2. base \in [D -> Seq(X)]
      BY <1>1
    <2>3. g \in [D \X Seq(X) -> Seq(X)]
      BY <1>1, ConcatProperties
    <2>4. \E h \in [D -> Seq(X)] : Recursive(h, D, stop, next, base, g)
      <3> HIDE DEF D, size, stop, next, base, g
      <3> QED
        BY <2>1, <2>2, <2>3, RecursionExists
    <2>5. PICK h \in [D -> Seq(X)] : Recursive(h, D, stop, next, base, g)
      BY <2>4
    <2>6. ASSUME NEW n \in D PROVE h[n] = IF n = 1 THEN s[n] ELSE h[n - 1] \o s[n]
      <3>1. h[n] = IF n \in stop THEN base[n] ELSE g[<<n, h[next[n]]>>]
        BY <2>5 DEF Recursive
      <3>2. n # 1 => g[<<n, h[n - 1]>>] = h[n - 1] \o s[n]
        <4>1. n # 1 => n - 1 \in D
          OBVIOUS
        <4>2. n # 1 => h[n - 1] \in Seq(X)
          BY <4>1
        <4>3. n # 1 => <<n, h[n - 1]>> \in D \X Seq(X)
          BY <4>2
        <4> QED
          BY <4>3
      <3> QED
        BY <3>1, <3>2
    <2> QED
      BY <2>6
  <1>3. PICK h \in [D -> Seq(X)] :
          \A n \in D : h[n] = IF n = 1 THEN s[n] ELSE h[n - 1] \o s[n]
    BY <1>2
  <1>4. Flat(h)
    BY <1>3
  <1>5. Flat(f)
    BY <1>4
  <1>6. FlattenSeq(s) = f[Len(s)]
    BY DEF FlattenSeq
  <1>7. \A n \in D : f[n] \in Seq(X)
    <2> DEFINE S == {n \in Nat : n + 1 \in D => f[n + 1] \in Seq(X)}
    <2> HIDE DEF f
    <2>1. 0 \in S
      BY <1>1, <1>5
    <2>2. ASSUME NEW n \in S PROVE n + 1 \in S
      <3> SUFFICES ASSUME n + 2 \in D PROVE f[n + 2] \in Seq(X)
        OBVIOUS
      <3>1. n + 1 \in D /\ f[n + 1] \in Seq(X) /\ s[n + 2] \in Seq(X)
        BY <1>1
      <3>2. f[n + 2] = f[n + 1] \o s[n + 2]
        <4>1. n + 2 # 1 /\ (n + 2) - 1 = n + 1
          OBVIOUS
        <4> QED
          BY <1>5, <4>1
      <3> QED
        BY <3>1, <3>2, ConcatProperties
    <2> HIDE DEF S
    <2>3. S = Nat
      <3>1. S \in SUBSET Nat
        BY DEF S
      <3> QED
        BY <2>1, <2>2, <3>1, SetInduction
    <2>4. \A n \in D : n - 1 \in Nat /\ (n - 1) + 1 = n
      OBVIOUS
    <2> QED
      BY <2>3, <2>4 DEF S
  <1> HIDE DEF f
  <1>8. f \in [D -> Seq(X)]
    BY <1>5, <1>7
  <1>9. /\ f[1] = s[1]
        /\ \A n \in 2..Len(s) : f[n] = f[n - 1] \o s[n]
    <2>1. 1 \in D /\ \A n \in 2..Len(s) : n \in D /\ n # 1
      OBVIOUS
    <2> QED
      BY <1>5, <2>1
  <1> QED
    BY <1>6, <1>8, <1>9 DEF Flattens

\* Flattening nothing gives nothing; flattening sequences over X gives one over X.
LEMMA FlattenType ==
  ASSUME NEW X
  PROVE  /\ FlattenSeq(<<>>) = <<>>
         /\ \A s \in Seq(Seq(X)) : FlattenSeq(s) \in Seq(X)
  <1>1. FlattenSeq(<<>>) = <<>>
    BY DEF FlattenSeq
  <1>2. ASSUME NEW s \in Seq(Seq(X)), s # <<>> PROVE FlattenSeq(s) \in Seq(X)
    <2>1. PICK f \in [1..Len(s) -> Seq(X)] : Flattens(f, s)
      BY <1>2, FlattenIs
    <2>2. Len(s) \in 1..Len(s)
      BY <1>2
    <2> QED
      BY <2>1, <2>2 DEF Flattens
  <1> QED
    BY <1>1, <1>2

\* One sequence more at the end.
LEMMA FlattenAppend ==
  ASSUME NEW X, NEW s \in Seq(Seq(X)), NEW x \in Seq(X)
  PROVE  FlattenSeq(Append(s, x)) = FlattenSeq(s) \o x
  <1> DEFINE t == Append(s, x)
  <1>1. /\ t \in Seq(Seq(X)) /\ t # <<>> /\ Len(t) = Len(s) + 1 /\ t[Len(t)] = x
        /\ \A n \in 1..Len(s) : t[n] = s[n]
        /\ Len(s) \in Nat
    BY AppendProperties
  <1> HIDE DEF t
  <1>2. PICK h \in [1..Len(t) -> Seq(X)] : Flattens(h, t)
    BY <1>1, FlattenIs
  <1>3. CASE s = <<>>
    <2>1. Len(t) = 1 /\ FlattenSeq(s) = <<>>
      BY <1>1, <1>3, FlattenType
    <2> QED
      BY <1>1, <1>2, <2>1 DEF t, Flattens
  <1>4. CASE s # <<>>
    <2>1. PICK f \in [1..Len(s) -> Seq(X)] : Flattens(f, s)
      BY <1>4, FlattenIs
    <2> DEFINE S == {n \in Nat : n + 1 \in 1..Len(s) => h[n + 1] = f[n + 1]}
    <2>2. 0 \in S
      BY <1>1, <1>2, <2>1 DEF Flattens
    <2>3. ASSUME NEW n \in S PROVE n + 1 \in S
      <3> SUFFICES ASSUME n + 2 \in 1..Len(s) PROVE h[n + 2] = f[n + 2]
        OBVIOUS
      <3>1. n + 2 \in 2..Len(s) /\ n + 2 \in 2..Len(t) /\ (n + 2) - 1 = n + 1
        BY <1>1
      <3>2. h[n + 1] = f[n + 1]
        BY <3>1
      <3>3. h[n + 2] = h[n + 1] \o t[n + 2]
        BY <1>2, <3>1 DEF Flattens
      <3>4. f[n + 2] = f[n + 1] \o s[n + 2]
        BY <2>1, <3>1 DEF Flattens
      <3> QED
        BY <1>1, <3>1, <3>2, <3>3, <3>4
    <2>4. S = Nat
      <3> HIDE DEF S
      <3>1. S \in SUBSET Nat
        BY DEF S
      <3> QED
        BY <2>2, <2>3, <3>1, SetInduction
    <2>5. h[Len(s)] = f[Len(s)]
      <3>1. Len(s) - 1 \in Nat /\ (Len(s) - 1) + 1 = Len(s) /\ Len(s) \in 1..Len(s)
        BY <1>1, <1>4
      <3> QED
        BY <2>4, <3>1
    <2>6. Len(t) \in 2..Len(t) /\ Len(t) - 1 = Len(s)
      BY <1>1, <1>4
    <2> QED
      BY <1>1, <1>2, <2>1, <2>5, <2>6 DEF t, Flattens
  <1> QED
    BY <1>3, <1>4

\* The first sequence taken off.
LEMMA FlattenTail ==
  ASSUME NEW X, NEW s \in Seq(Seq(X)), s # <<>>
  PROVE  FlattenSeq(s) = Head(s) \o FlattenSeq(Tail(s))
  <1>0. Associates(X)
    BY ConcatAssoc
  <1> DEFINE t == Tail(s)
  <1>1. /\ t \in Seq(Seq(X)) /\ Len(t) = Len(s) - 1 /\ Head(s) = s[1] /\ s[1] \in Seq(X)
        /\ \A n \in 1..Len(t) : t[n] = s[n + 1]
        /\ Len(s) \in Nat \ {0}
    <2>1. /\ Head(s) \in Seq(X) /\ t \in Seq(Seq(X)) /\ Len(t) = Len(s) - 1
          /\ \A n \in 1..Len(t) : t[n] = s[n + 1]
      BY HeadTailProperties
    <2>2. Head(s) = s[1] /\ Len(s) \in Nat \ {0}
      OBVIOUS
    <2> HIDE DEF t
    <2> QED
      BY <2>1, <2>2
  <1> HIDE DEF t
  <1>2. PICK f \in [1..Len(s) -> Seq(X)] : Flattens(f, s)
    BY FlattenIs
  <1>3. CASE t = <<>>
    <2>1. Len(s) = 1 /\ FlattenSeq(t) = <<>>
      BY <1>1, <1>3, FlattenType
    <2> QED
      BY <1>1, <1>2, <2>1 DEF t, Flattens
  <1>4. CASE t # <<>>
    <2>1. PICK h \in [1..Len(t) -> Seq(X)] : Flattens(h, t)
      BY <1>1, <1>4, FlattenIs
    <2> DEFINE S == {n \in Nat : n + 1 \in 1..Len(t) => f[n + 2] = s[1] \o h[n + 1]}
    <2>2. 0 \in S
      <3>1. 2 \in 2..Len(s) /\ 2 - 1 = 1 /\ 1 \in 1..Len(t)
        BY <1>1, <1>4
      <3>2. f[2] = f[1] \o s[2]
        BY <1>2, <3>1 DEF Flattens
      <3>3. f[1] = s[1] /\ h[1] = t[1]
        BY <1>2, <2>1 DEF Flattens
      <3>4. t[1] = s[2]
        BY <1>1, <3>1
      <3>5. 0 + 1 = 1 /\ 0 + 2 = 2 /\ f[2] = s[1] \o h[1]
        BY <3>2, <3>3, <3>4
      <3> QED
        BY <3>5
    <2>3. ASSUME NEW n \in S PROVE n + 1 \in S
      <3> SUFFICES ASSUME n + 2 \in 1..Len(t) PROVE f[n + 3] = s[1] \o h[n + 2]
        <4>1. (n + 1) + 1 = n + 2 /\ (n + 1) + 2 = n + 3 /\ n + 1 \in Nat
          OBVIOUS
        <4> QED
          BY <4>1
      <3>1. /\ n + 3 \in 2..Len(s) /\ (n + 3) - 1 = n + 2
            /\ n + 2 \in 2..Len(t) /\ (n + 2) - 1 = n + 1
            /\ n + 1 \in 1..Len(t)
        BY <1>1
      <3>2. f[n + 2] = s[1] \o h[n + 1]
        BY <3>1
      <3>3. f[n + 3] = f[n + 2] \o s[n + 3]
        BY <1>2, <3>1 DEF Flattens
      <3>4. h[n + 2] = h[n + 1] \o t[n + 2]
        BY <2>1, <3>1 DEF Flattens
      <3>5. /\ t[n + 2] = s[n + 3]
            /\ h[n + 1] \in Seq(X) /\ t[n + 2] \in Seq(X)
        <4>1. n + 2 \in 1..Len(t) /\ (n + 2) + 1 = n + 3
          OBVIOUS
        <4>2. t[n + 2] = s[n + 3]
          BY <1>1, <4>1
        <4>3. t[n + 2] \in Seq(X)
          BY <1>1, <4>1
        <4> QED
          BY <2>1, <3>1, <4>2, <4>3
      <3> DEFINE a == h[n + 1]
                 b == t[n + 2]
                 c == s[1]
      <3>6. (c \o a) \o b = c \o (a \o b)
        <4>1. a \in Seq(X) /\ b \in Seq(X) /\ c \in Seq(X)
          BY <1>1, <3>5
        <4> HIDE DEF a, b, c, S
        <4> QED
          BY <1>0, <4>1 DEF Associates
      <3> QED
        BY <3>2, <3>3, <3>4, <3>5, <3>6
    <2>4. S = Nat
      <3> HIDE DEF S
      <3>1. S \in SUBSET Nat
        BY DEF S
      <3> QED
        BY <2>2, <2>3, <3>1, SetInduction
    <2>5. f[Len(s)] = s[1] \o h[Len(t)]
      <3>1. /\ Len(t) - 1 \in Nat /\ (Len(t) - 1) + 1 = Len(t) /\ Len(t) \in 1..Len(t)
            /\ (Len(t) - 1) + 2 = Len(s)
        BY <1>1, <1>4
      <3> QED
        BY <2>4, <3>1
    <2> QED
      BY <1>1, <1>2, <2>1, <2>5 DEF t, Flattens
  <1> QED
    BY <1>3, <1>4

-----------------------------------------------------------------------------
(* What a function makes of each element, put together. *)

Through(f, s) == FlattenSeq([n \in DOMAIN s |-> f[s[n]]])

\* A set with <<>>, and with s for each Tail(s), has all sequences.
LEMMA SeqInduction ==
  ASSUME NEW X, NEW S \in SUBSET Seq(X), <<>> \in S,
         \A s \in Seq(X) : s # <<>> /\ Tail(s) \in S => s \in S
  PROVE  S = Seq(X)
  <1> DEFINE size == [s \in Seq(X) |-> Len(s)]
             next == [s \in Seq(X) |-> IF s = <<>> THEN <<>> ELSE Tail(s)]
             stop == {<<>>}
  <1>1. \A s \in Seq(X) : Len(s) \in Nat
    OBVIOUS
  <1>2. \A s \in Seq(X) : s # <<>> => Tail(s) \in Seq(X) /\ Len(Tail(s)) < Len(s)
    OBVIOUS
  <1>3. <<>> \in Seq(X)
    OBVIOUS
  <1>4. Descends(Seq(X), size, stop, next)
    BY <1>1, <1>2, <1>3 DEF Descends
  <1>5. Inherited(S, Seq(X), stop, next)
    BY DEF Inherited
  <1> HIDE DEF size, next, stop
  <1> QED
    BY <1>4, <1>5, DescendsInduction

\* The first element's part comes first.
Parted(X, Y, f) ==
  /\ Through(f, <<>>) = <<>>
  /\ \A s \in Seq(X) : Through(f, s) \in Seq(Y)
  /\ \A s \in Seq(X) : s # <<>> => Through(f, s) = f[Head(s)] \o Through(f, Tail(s))

LEMMA ThroughParts == ASSUME NEW X, NEW Y, NEW f \in [X -> Seq(Y)] PROVE Parted(X, Y, f)
  <1>1. ASSUME NEW s \in Seq(X)
        PROVE  /\ [n \in DOMAIN s |-> f[s[n]]] \in Seq(Seq(Y))
               /\ Len([n \in DOMAIN s |-> f[s[n]]]) = Len(s)
    <2>1. Len(s) \in Nat /\ DOMAIN s = 1..Len(s) /\ \A n \in 1..Len(s) : f[s[n]] \in Seq(Y)
      OBVIOUS
    <2>2. [n \in 1..Len(s) |-> f[s[n]]] \in [1..Len(s) -> Seq(Y)]
      BY <2>1
    <2> QED
      BY <2>1, <2>2
  <1>2. Through(f, <<>>) = <<>>
    <2>1. [n \in DOMAIN <<>> |-> f[<<>>[n]]] = <<>>
      OBVIOUS
    <2> QED
      BY <2>1, FlattenType DEF Through
  <1>3. ASSUME NEW s \in Seq(X) PROVE Through(f, s) \in Seq(Y)
    BY <1>1, FlattenType DEF Through
  <1>4. ASSUME NEW s \in Seq(X), s # <<>>
        PROVE  Through(f, s) = f[Head(s)] \o Through(f, Tail(s))
    <2> DEFINE m == [n \in DOMAIN s |-> f[s[n]]]
               t == [n \in DOMAIN Tail(s) |-> f[Tail(s)[n]]]
    <2>1. /\ Tail(s) \in Seq(X) /\ Head(s) = s[1] /\ Len(s) \in Nat \ {0}
          /\ Len(Tail(s)) = Len(s) - 1 /\ DOMAIN s = 1..Len(s)
          /\ \A n \in 1..Len(Tail(s)) : Tail(s)[n] = s[n + 1]
      BY <1>4
    <2>2. m \in Seq(Seq(Y)) /\ Len(m) = Len(s) /\ t \in Seq(Seq(Y)) /\ Len(t) = Len(s) - 1
      BY <1>1, <2>1
    <2>3. m[1] = f[Head(s)]
      BY <2>1
    <2>4. \A n \in 1..Len(t) : t[n] = m[n + 1]
      <3>1. \A n \in 1..(Len(s) - 1) : n \in DOMAIN Tail(s) /\ n + 1 \in DOMAIN s
        BY <2>1
      <3> QED
        BY <2>1, <2>2, <3>1
    <2> HIDE DEF m, t
    <2>5. m # <<>> /\ Head(m) = m[1] /\ Tail(m) \in Seq(Seq(Y)) /\ Len(Tail(m)) = Len(t)
          /\ \A n \in 1..Len(Tail(m)) : Tail(m)[n] = m[n + 1]
      BY <2>1, <2>2
    <2>6. Tail(m) = t
      <3>1. \A n \in 1..Len(Tail(m)) : Tail(m)[n] = t[n]
        BY <2>4, <2>5
      <3> QED
        BY <2>2, <2>5, <3>1, SeqEqual
    <2>7. FlattenSeq(m) = Head(m) \o FlattenSeq(Tail(m))
      BY <2>2, <2>5, FlattenTail
    <2> QED
      BY <2>3, <2>5, <2>6, <2>7 DEF Through, m, t
  <1> QED
    BY <1>2, <1>3, <1>4 DEF Parted

\* What becomes of a concatenation.
Splits(X, f) ==
  \A s, t \in Seq(X) : Through(f, s \o t) = Through(f, s) \o Through(f, t)

LEMMA ThroughSplits == ASSUME NEW X, NEW Y, NEW f \in [X -> Seq(Y)] PROVE Splits(X, f)
  <1> SUFFICES ASSUME NEW t \in Seq(X)
               PROVE  \A s \in Seq(X) : Through(f, s \o t) = Through(f, s) \o Through(f, t)
    BY DEF Splits
  <1> DEFINE S == {s \in Seq(X) : Through(f, s \o t) = Through(f, s) \o Through(f, t)}
  <1>0. Associates(Y)
    BY ConcatAssoc
  <1>5. Parted(X, Y, f)
    BY ThroughParts
  <1>4. /\ Through(f, <<>>) = <<>> /\ \A s \in Seq(X) : Through(f, s) \in Seq(Y)
        /\ \A s \in Seq(X) : s # <<>> => Through(f, s) = f[Head(s)] \o Through(f, Tail(s))
    BY <1>5 DEF Parted
  <1>1. <<>> \in S
    <2>1. <<>> \in Seq(X) /\ <<>> \o t = t
      BY ConcatEmptySeq
    <2>2. Through(f, t) \in Seq(Y) /\ Through(f, <<>>) = <<>>
      BY <1>4
    <2>3. <<>> \o Through(f, t) = Through(f, t)
      BY <2>2, ConcatEmptySeq
    <2> QED
      BY <2>1, <2>2, <2>3
  <1>2. ASSUME NEW s \in Seq(X), s # <<>>, Tail(s) \in S PROVE s \in S
    <2> DEFINE x == f[Head(s)]
               y == Through(f, Tail(s))
               z == Through(f, t)
    <2>1. Head(s) \in X /\ Tail(s) \in Seq(X)
      BY <1>2
    <2>2. x \in Seq(Y) /\ y \in Seq(Y) /\ z \in Seq(Y)
      BY <1>4, <2>1
    <2>3. s \o t \in Seq(X) /\ s \o t # <<>> /\ Head(s \o t) = Head(s) /\ Tail(s \o t) = Tail(s) \o t
      BY <1>2
    <2>4. Through(f, s \o t) = x \o Through(f, Tail(s) \o t)
      <3> DEFINE u == s \o t
      <3>1. u \in Seq(X) /\ u # <<>> /\ Head(u) = Head(s) /\ Tail(u) = Tail(s) \o t
        BY <2>3
      <3> HIDE DEF u
      <3>2. Through(f, u) = f[Head(u)] \o Through(f, Tail(u))
        BY <1>4, <3>1
      <3> QED
        BY <3>1, <3>2 DEF u
    <2>5. Through(f, Tail(s) \o t) = y \o z
      BY <1>2
    <2>6. Through(f, s) = x \o y
      BY <1>2, <1>4
    <2> HIDE DEF x, y, z
    <2>7. x \o (y \o z) = (x \o y) \o z
      BY <1>0, <2>2 DEF Associates
    <2> QED
      BY <2>4, <2>5, <2>6, <2>7 DEF z
  <1>3. S = Seq(X)
    <2> HIDE DEF S
    <2>1. S \in SUBSET Seq(X)
      BY DEF S
    <2> QED
      BY <1>1, <1>2, <2>1, SeqInduction
  <1> QED
    BY <1>3

\* Nothing comes of elements that become nothing.
Vanishes(X, f) ==
  \A s \in Seq(X) : (\A n \in 1..Len(s) : f[s[n]] = <<>>) => Through(f, s) = <<>>

LEMMA ThroughNone == ASSUME NEW X, NEW Y, NEW f \in [X -> Seq(Y)] PROVE Vanishes(X, f)
  <1> DEFINE None(s) == \A n \in 1..Len(s) : f[s[n]] = <<>>
             S == {s \in Seq(X) : None(s) => Through(f, s) = <<>>}
  <1>0. Parted(X, Y, f)
    BY ThroughParts
  <1>1. <<>> \in S
    <2>1. <<>> \in Seq(X) /\ Through(f, <<>>) = <<>>
      BY <1>0 DEF Parted
    <2> QED
      BY <2>1
  <1>2. ASSUME NEW s \in Seq(X), s # <<>>, Tail(s) \in S PROVE s \in S
    <2> SUFFICES ASSUME None(s) PROVE Through(f, s) = <<>>
      OBVIOUS
    <2>1. /\ Tail(s) \in Seq(X) /\ Head(s) = s[1] /\ 1 \in 1..Len(s)
          /\ \A n \in 1..Len(Tail(s)) : Tail(s)[n] = s[n + 1] /\ n + 1 \in 1..Len(s)
      BY <1>2
    <2>2. None(Tail(s)) /\ f[Head(s)] = <<>>
      BY <2>1
    <2>3. Through(f, Tail(s)) = <<>>
      BY <1>2, <2>2
    <2>4. Through(f, s) = <<>> \o <<>>
      BY <1>0, <1>2, <2>2, <2>3 DEF Parted
    <2> QED
      BY <2>4
  <1>3. S = Seq(X)
    <2> HIDE DEF S
    <2>1. S \in SUBSET Seq(X)
      BY DEF S
    <2> QED
      BY <1>1, <1>2, <2>1, SeqInduction
  <1> QED
    BY <1>3 DEF Vanishes
=============================================================================

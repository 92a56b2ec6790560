---------------------------- MODULE StoresProofs ----------------------------
(***************************************************************************)
(* Proofs about MessageStores, for any messages, peers and limits.         *)
(***************************************************************************)
EXTENDS MessageStores, WellFoundedInduction, TLAPS

LEMMA LeastNat ==
  ASSUME NEW T, T \subseteq Nat, T # {}
  PROVE  \E x \in T : \A y \in T : x <= y
  <1>1. PICK x \in T : \A y \in T : ~(<<y, x>> \in OpToRel(<, Nat))
    BY NatLessThanWellFounded, WFMin
  <1>2. \A y \in T : ~(y < x)
    BY <1>1 DEF OpToRel
  <1> QED BY <1>2

\* Induction along 0 .. N for a set of numbers.
LEMMA UpTo ==
  ASSUME NEW N \in Nat, NEW S, 0 \in S,
         \A k \in 1 .. N : k - 1 \in S => k \in S
  PROVE  \A k \in 0 .. N : k \in S
  <1> SUFFICES ASSUME {k \in 0 .. N : k \notin S} # {} PROVE FALSE
    OBVIOUS
  <1> DEFINE T == {k \in 0 .. N : k \notin S}
  <1>1. T \subseteq Nat /\ T # {}
    OBVIOUS
  <1> HIDE DEF T
  <1>2. PICK m \in T : \A y \in T : m <= y
    BY <1>1, LeastNat
  <1>3. m \in 1 .. N /\ m - 1 \in 0 .. N /\ m \notin S
    BY <1>2 DEF T
  <1>4. m - 1 \in S
    BY <1>2, <1>3 DEF T
  <1> QED BY <1>3, <1>4

-----------------------------------------------------------------------------
(***************************************************************************)
(* Sequences as sets of elements.                                          *)
(***************************************************************************)
LEMMA InSeq ==
  ASSUME NEW X, NEW s \in Seq(X)
  PROVE  /\ ToSet(s) \subseteq X
         /\ \A x : x \in ToSet(s) <=> \E k \in 1 .. Len(s) : s[k] = x
  BY DEF ToSet

LEMMA AppendSet ==
  ASSUME NEW X, NEW s \in Seq(X), NEW x \in X
  PROVE  Append(s, x) \in Seq(X) /\ ToSet(Append(s, x)) = ToSet(s) \cup {x}
  <1> PICK N \in Nat : N = Len(s)
    OBVIOUS
  <1>0. PICK t : t = Append(s, x)
    OBVIOUS
  <1>1. t \in Seq(X) /\ Len(t) = N + 1 /\ t[N + 1] = x /\ \A k \in 1 .. N : t[k] = s[k]
    BY <1>0
  <1>2. \A k \in 1 .. N + 1 : k = N + 1 \/ k \in 1 .. N
    OBVIOUS
  <1>3. \A y : y \in ToSet(s) <=> \E k \in 1 .. N : s[k] = y
    BY InSeq
  <1>4. \A y : y \in ToSet(t) <=> \E k \in 1 .. N + 1 : t[k] = y
    BY <1>1, InSeq
  <1>5. \A y : y \in ToSet(t) <=> y = x \/ y \in ToSet(s)
    BY <1>1, <1>2, <1>3, <1>4
  <1> QED BY <1>0, <1>1, <1>5

LEMMA JoinSet ==
  ASSUME NEW X, NEW s \in Seq(X), NEW t \in Seq(X)
  PROVE  s \o t \in Seq(X) /\ ToSet(s \o t) = ToSet(s) \cup ToSet(t)
  <1> PICK N \in Nat : N = Len(s)
    OBVIOUS
  <1> PICK M \in Nat : M = Len(t)
    OBVIOUS
  <1>0. PICK q : q = s \o t
    OBVIOUS
  <1>1. /\ q \in Seq(X) /\ Len(q) = N + M /\ \A k \in 1 .. N : q[k] = s[k]
        /\ \A k \in 1 .. M : q[N + k] = t[k]
    BY <1>0
  <1>2. \A k \in 1 .. N + M : k \in 1 .. N \/ (k - N \in 1 .. M /\ k = N + (k - N))
    OBVIOUS
  <1>3. /\ \A k \in 1 .. N : k \in 1 .. N + M
        /\ \A k \in 1 .. M : N + k \in 1 .. N + M
    OBVIOUS
  <1>4. /\ \A y : y \in ToSet(s) <=> \E k \in 1 .. N : s[k] = y
        /\ \A y : y \in ToSet(t) <=> \E k \in 1 .. M : t[k] = y
        /\ \A y : y \in ToSet(q) <=> \E k \in 1 .. N + M : q[k] = y
    <2>1. \A y : y \in ToSet(s) <=> \E k \in 1 .. N : s[k] = y
      BY InSeq
    <2>2. \A y : y \in ToSet(t) <=> \E k \in 1 .. M : t[k] = y
      BY InSeq
    <2>3. \A y : y \in ToSet(q) <=> \E k \in 1 .. N + M : q[k] = y
      <3>1. q \in Seq(X) /\ Len(q) = N + M
        BY <1>1
      <3>2. \A y : y \in ToSet(q) <=> \E k \in 1 .. Len(q) : q[k] = y
        BY <3>1, InSeq, Zenon
      <3> QED BY <3>1, <3>2
    <2> QED BY <2>1, <2>2, <2>3
  <1>5. ASSUME NEW y \in ToSet(q)
        PROVE  y \in ToSet(s) \/ y \in ToSet(t)
    <2>1. PICK k \in 1 .. N + M : q[k] = y
      BY <1>4
    <2>2. CASE k \in 1 .. N
      BY <1>1, <1>4, <2>1, <2>2
    <2>3. CASE k - N \in 1 .. M /\ k = N + (k - N)
      <3>1. PICK j \in 1 .. M : k = N + j
        BY <2>3
      <3>2. t[j] = y
        BY <1>1, <2>1, <3>1
      <3> QED BY <1>4, <3>2
    <2> QED BY <1>2, <2>2, <2>3
  <1>6. \A y \in ToSet(s) : y \in ToSet(q)
    BY <1>1, <1>3, <1>4
  <1>7. \A y \in ToSet(t) : y \in ToSet(q)
    BY <1>1, <1>3, <1>4
  <1>8. ToSet(q) = ToSet(s) \cup ToSet(t)
    BY <1>5, <1>6, <1>7
  <1> QED BY <1>0, <1>1, <1>8

LEMMA JoinAt ==
  ASSUME NEW X, NEW s \in Seq(X), NEW t \in Seq(X), NEW N \in Nat, NEW M \in Nat,
         N = Len(s), M = Len(t), NEW w, w = s \o t
  PROVE  /\ w \in Seq(X) /\ Len(w) = N + M /\ \A k \in 1 .. N : w[k] = s[k]
         /\ \A k \in 1 .. M : w[N + k] = t[k]
  OBVIOUS

LEMMA EmptySet ==
  ASSUME NEW X
  PROVE  << >> \in Seq(X) /\ ToSet(<< >>) = {}
  BY DEF ToSet

LEMMA OneSet ==
  ASSUME NEW X, NEW x \in X
  PROVE  <<x>> \in Seq(X) /\ ToSet(<<x>>) = {x}
  BY DEF ToSet

-----------------------------------------------------------------------------
(***************************************************************************)
(* What Only keeps.                                                        *)
(***************************************************************************)
OneMore(t, x, K) == IF x \in K THEN Append(t, x) ELSE t

LEMMA OnlySteps ==
  ASSUME NEW s, NEW K, NEW N \in Nat, N = Len(s)
  PROVE  \E f : /\ f[0] = << >>
                /\ \A k \in 1 .. N : f[k] = OneMore(f[k - 1], s[k], K)
                /\ f[N] = Only(s, K)
  <1> DEFINE IsF(g, n) == g = [k \in 0 .. n |-> IF k = 0 THEN << >> ELSE OneMore(g[k - 1], s[k], K)]
             S == {n \in Nat : \E g : IsF(g, n)}
  <1>1. 0 \in S
    <2> DEFINE g == [k \in 0 .. 0 |-> << >>]
    <2>1. g = [k \in 0 .. 0 |-> IF k = 0 THEN << >> ELSE OneMore(g[k - 1], s[k], K)]
      OBVIOUS
    <2>2. IsF(g, 0)
      BY <2>1
    <2> QED BY <2>2
  <1>2. ASSUME NEW n \in 1 .. N, n - 1 \in S
        PROVE  n \in S
    <2>1. PICK g : IsF(g, n - 1)
      BY <1>2
    <2> DEFINE h == [k \in 0 .. n |-> IF k = n THEN OneMore(g[n - 1], s[n], K) ELSE g[k]]
    <2>2. \A k \in 0 .. n - 1 : g[k] = IF k = 0 THEN << >> ELSE OneMore(g[k - 1], s[k], K)
      BY <2>1
    <2>3. ASSUME NEW k \in 0 .. n
          PROVE  h[k] = IF k = 0 THEN << >> ELSE OneMore(h[k - 1], s[k], K)
      <3>1. CASE k = n
        <4>1. n - 1 \in 0 .. n /\ n - 1 # n /\ n # 0
          OBVIOUS
        <4>2. h[n - 1] = g[n - 1]
          BY <4>1
        <4> QED BY <3>1, <4>1, <4>2
      <3>2. CASE k # n
        <4>1. k \in 0 .. n - 1 /\ h[k] = g[k]
          BY <3>2
        <4>2. CASE k = 0
          BY <2>2, <4>1, <4>2
        <4>3. CASE k # 0
          <5>1. k - 1 \in 0 .. n /\ k - 1 # n
            BY <4>1, <4>3
          <5>2. h[k - 1] = g[k - 1]
            BY <5>1
          <5> QED BY <2>2, <4>1, <4>3, <5>2
        <4> QED BY <4>2, <4>3
      <3> QED BY <3>1, <3>2
    <2>4. h = [k \in 0 .. n |-> h[k]]
      OBVIOUS
    <2> HIDE DEF h
    <2>5. IsF(h, n)
      BY <2>3, <2>4
    <2> QED BY <2>5
  <1>3. N \in S
    <2> HIDE DEF S
    <2>1. \A k \in 1 .. N : k - 1 \in S => k \in S
      BY <1>2
    <2>2. \A k \in 0 .. N : k \in S
      BY <1>1, <2>1, UpTo
    <2> QED BY <2>2
  <1>4. PICK g : g = [k \in 0 .. N |-> IF k = 0 THEN << >> ELSE OneMore(g[k - 1], s[k], K)]
    BY <1>3
  <1> DEFINE f == CHOOSE z : z = [k \in 0 .. N |-> IF k = 0 THEN << >> ELSE OneMore(z[k - 1], s[k], K)]
  <1>5. f = [k \in 0 .. N |-> IF k = 0 THEN << >> ELSE OneMore(f[k - 1], s[k], K)]
    BY <1>4
  <1>6. f[N] = Only(s, K)
    BY DEF Only, OneMore
  <1> HIDE DEF f
  <1>7. f[0] = << >> /\ \A k \in 1 .. N : f[k] = OneMore(f[k - 1], s[k], K)
    BY <1>5
  <1> QED BY <1>6, <1>7

Ordered(s, R) == \A i, j \in 1 .. Len(s) : i < j => <<s[i], s[j]>> \in R

LEMMA AppendOrdered ==
  ASSUME NEW X, NEW s \in Seq(X), NEW x \in X, NEW R, Ordered(s, R), \A y \in ToSet(s) : <<y, x>> \in R
  PROVE  Ordered(Append(s, x), R)
  <1> PICK N \in Nat : N = Len(s)
    OBVIOUS
  <1> PICK t : t = Append(s, x)
    OBVIOUS
  <1>1. t \in Seq(X) /\ Len(t) = N + 1 /\ t[N + 1] = x /\ \A k \in 1 .. N : t[k] = s[k]
    OBVIOUS
  <1>2. ASSUME NEW i \in 1 .. N + 1, NEW j \in 1 .. N + 1, i < j
        PROVE  <<t[i], t[j]>> \in R
    <2>1. i \in 1 .. N /\ t[i] = s[i] /\ s[i] \in ToSet(s)
      BY <1>1, <1>2, InSeq
    <2>2. CASE j = N + 1
      BY <1>1, <2>1, <2>2
    <2>3. CASE j # N + 1
      <3>1. j \in 1 .. N
        BY <2>3
      <3> QED BY <1>1, <1>2, <2>1, <3>1 DEF Ordered
    <2> QED BY <2>2, <2>3
  <1> QED BY <1>1, <1>2 DEF Ordered

\* Only(s, K) has the elements of s that are in K, in an order that they had.
LEMMA OnlyFacts ==
  ASSUME NEW X, NEW s \in Seq(X), NEW K, NEW R, Ordered(s, R)
  PROVE  /\ Only(s, K) \in Seq(X)
         /\ ToSet(Only(s, K)) = ToSet(s) \cap K
         /\ Ordered(Only(s, K), R)
  <1> PICK N \in Nat : N = Len(s)
    OBVIOUS
  <1>1. PICK f : /\ f[0] = << >> /\ f[N] = Only(s, K)
                 /\ \A k \in 1 .. N : f[k] = OneMore(f[k - 1], s[k], K)
    BY OnlySteps
  <1> DEFINE First(k) == {s[i] : i \in 1 .. k}
             S == {k \in 0 .. N : /\ f[k] \in Seq(X)
                                  /\ ToSet(f[k]) = First(k) \cap K
                                  /\ Ordered(f[k], R)}
  <1>2. 0 \in S
    <2>1. << >> \in Seq(X) /\ ToSet(<< >>) = {} /\ First(0) = {} /\ Ordered(<< >>, R)
      BY EmptySet DEF Ordered
    <2>2. f[0] \in Seq(X) /\ ToSet(f[0]) = First(0) \cap K /\ Ordered(f[0], R) /\ 0 \in 0 .. N
      BY <1>1, <2>1
    <2> QED BY <2>2
  <1>3. ASSUME NEW k \in 1 .. N, k - 1 \in S
        PROVE  k \in S
    <2> PICK t : t = f[k - 1]
      OBVIOUS
    <2>1. t \in Seq(X) /\ ToSet(t) = First(k - 1) \cap K /\ Ordered(t, R)
      BY <1>3
    <2>2. s[k] \in X /\ k \in 0 .. N
      BY InSeq
    <2>3. First(k) = First(k - 1) \cup {s[k]}
      <3>1. \A i \in 1 .. k : i = k \/ i \in 1 .. k - 1
        OBVIOUS
      <3>2. \A i \in 1 .. k - 1 : i \in 1 .. k
        OBVIOUS
      <3>3. k \in 1 .. k
        OBVIOUS
      <3> QED BY <3>1, <3>2, <3>3
    <2>4. \A y \in First(k - 1) : <<y, s[k]>> \in R
      <3>1. ASSUME NEW i \in 1 .. k - 1
            PROVE  <<s[i], s[k]>> \in R
        BY DEF Ordered
      <3> QED BY <3>1
    <2> HIDE DEF First
    <2>5. CASE s[k] \in K
      <3>1. f[k] = Append(t, s[k])
        BY <1>1, <2>5 DEF OneMore
      <3>2. Append(t, s[k]) \in Seq(X) /\ ToSet(Append(t, s[k])) = ToSet(t) \cup {s[k]}
        BY <2>1, <2>2, AppendSet
      <3>3. \A y \in ToSet(t) : <<y, s[k]>> \in R
        BY <2>1, <2>4
      <3>4. Ordered(Append(t, s[k]), R)
        BY <2>1, <2>2, <3>3, AppendOrdered
      <3>5. ToSet(Append(t, s[k])) = First(k) \cap K
        BY <2>1, <2>3, <2>5, <3>2
      <3> QED BY <2>2, <3>1, <3>2, <3>4, <3>5, Zenon
    <2>6. CASE s[k] \notin K
      <3>1. f[k] = t
        BY <1>1, <2>6 DEF OneMore
      <3>2. ToSet(t) = First(k) \cap K
        BY <2>1, <2>3, <2>6
      <3> QED BY <2>1, <2>2, <3>1, <3>2, Zenon
    <2> QED BY <2>5, <2>6
  <1>4. N \in S
    <2> HIDE DEF S
    <2>1. \A k \in 1 .. N : k - 1 \in S => k \in S
      BY <1>3
    <2>2. \A k \in 0 .. N : k \in S
      BY <1>2, <2>1, UpTo
    <2> QED BY <2>2
  <1>5. First(N) = ToSet(s)
    <2>1. \A x : x \in ToSet(s) <=> \E k \in 1 .. N : s[k] = x
      BY InSeq
    <2> QED BY <2>1
  <1>6. f[N] \in Seq(X) /\ ToSet(f[N]) = First(N) \cap K /\ Ordered(f[N], R)
    BY <1>4
  <1> HIDE DEF First
  <1> QED BY <1>1, <1>5, <1>6, Zenon

LEMMA OnlyAll ==
  ASSUME NEW X, NEW s \in Seq(X), NEW K, ToSet(s) \subseteq K
  PROVE  Only(s, K) = s
  <1> PICK N \in Nat : N = Len(s)
    OBVIOUS
  <1>1. PICK f : /\ f[0] = << >> /\ f[N] = Only(s, K)
                 /\ \A k \in 1 .. N : f[k] = OneMore(f[k - 1], s[k], K)
    BY OnlySteps
  <1>2. \A k \in 1 .. N : s[k] \in K /\ s[k] \in X
    BY InSeq
  <1> DEFINE S == {k \in 0 .. N : /\ f[k] \in Seq(X) /\ Len(f[k]) = k
                                  /\ \A i \in 1 .. k : f[k][i] = s[i]}
  <1>3. 0 \in S
    <2>1. << >> \in Seq(X) /\ Len(<< >>) = 0 /\ 0 \in 0 .. N /\ 1 .. 0 = {}
      OBVIOUS
    <2> QED BY <1>1, <2>1
  <1>4. ASSUME NEW k \in 1 .. N, k - 1 \in S
        PROVE  k \in S
    <2> PICK t : t = f[k - 1]
      OBVIOUS
    <2>1. t \in Seq(X) /\ Len(t) = k - 1 /\ \A i \in 1 .. k - 1 : t[i] = s[i]
      BY <1>4
    <2>2. f[k] = Append(t, s[k]) /\ s[k] \in X
      BY <1>1, <1>2 DEF OneMore
    <2>3. /\ f[k] \in Seq(X) /\ Len(f[k]) = k /\ f[k][k] = s[k]
          /\ \A i \in 1 .. k - 1 : f[k][i] = t[i]
      BY <2>1, <2>2
    <2>4. \A i \in 1 .. k : i = k \/ i \in 1 .. k - 1
      OBVIOUS
    <2>5. \A i \in 1 .. k : f[k][i] = s[i]
      BY <2>1, <2>3, <2>4
    <2>6. k \in 0 .. N
      OBVIOUS
    <2> QED BY <2>3, <2>5, <2>6
  <1>5. N \in S
    <2> HIDE DEF S
    <2>1. \A k \in 1 .. N : k - 1 \in S => k \in S
      BY <1>4
    <2>2. \A k \in 0 .. N : k \in S
      BY <1>3, <2>1, UpTo
    <2> QED BY <2>2
  <1>6. f[N] \in Seq(X) /\ Len(f[N]) = N /\ \A i \in 1 .. N : f[N][i] = s[i]
    BY <1>5
  <1>7. f[N] = s
    BY <1>6
  <1> QED BY <1>1, <1>7

\* What is in A and what is not in A make up the whole.
LEMMA OnlyLengths ==
  ASSUME NEW X, NEW s \in Seq(X), NEW A, NEW B,
         \A x \in ToSet(s) : x \in A <=> x \notin B
  PROVE  Len(Only(s, A)) + Len(Only(s, B)) = Len(s)
  <1> PICK N \in Nat : N = Len(s)
    OBVIOUS
  <1>1. PICK f : /\ f[0] = << >>
                 /\ \A k \in 1 .. N : f[k] = OneMore(f[k - 1], s[k], A)
                 /\ f[N] = Only(s, A)
    BY OnlySteps, Zenon
  <1>2. PICK g : /\ g[0] = << >>
                 /\ \A k \in 1 .. N : g[k] = OneMore(g[k - 1], s[k], B)
                 /\ g[N] = Only(s, B)
    BY OnlySteps, Zenon
  <1> DEFINE S == {k \in 0 .. N : /\ f[k] \in Seq(X) /\ g[k] \in Seq(X)
                                  /\ Len(f[k]) + Len(g[k]) = k}
  <1>3. 0 \in S
    <2>1. << >> \in Seq(X) /\ Len(<< >>) = 0 /\ 0 \in 0 .. N
      OBVIOUS
    <2>2. f[0] \in Seq(X) /\ g[0] \in Seq(X) /\ Len(f[0]) = 0 /\ Len(g[0]) = 0
      BY <1>1, <1>2, <2>1
    <2>3. Len(f[0]) + Len(g[0]) = 0
      BY <2>2
    <2> QED BY <2>1, <2>2, <2>3, Zenon
  <1>4. ASSUME NEW k \in 1 .. N, k - 1 \in S
        PROVE  k \in S
    <2> PICK t : t = f[k - 1]
      OBVIOUS
    <2> PICK r : r = g[k - 1]
      OBVIOUS
    <2>1. t \in Seq(X) /\ r \in Seq(X) /\ Len(t) + Len(r) = k - 1
      BY <1>4
    <2>2. s[k] \in X /\ s[k] \in ToSet(s) /\ k \in 0 .. N
      BY InSeq
    <2>3. Append(t, s[k]) \in Seq(X) /\ Len(Append(t, s[k])) = Len(t) + 1
      BY <2>1, <2>2
    <2>4. Append(r, s[k]) \in Seq(X) /\ Len(Append(r, s[k])) = Len(r) + 1
      BY <2>1, <2>2
    <2>5. PICK a \in Nat : a = Len(t)
      BY <2>1
    <2>8. PICK b \in Nat : b = Len(r)
      BY <2>1
    <2>9. (a + 1) + b = k /\ a + (b + 1) = k
      <3>1. a + b = k - 1
        BY <2>1, <2>5, <2>8, Zenon
      <3>2. k \in Nat
        OBVIOUS
      <3> HIDE DEF S
      <3> QED BY <3>1, <3>2
    <2>6. CASE s[k] \in A
      <3>1. f[k] = Append(t, s[k]) /\ g[k] = r
        BY <1>1, <1>2, <2>2, <2>6 DEF OneMore
      <3>2. f[k] \in Seq(X) /\ g[k] \in Seq(X) /\ Len(f[k]) = Len(t) + 1 /\ Len(g[k]) = Len(r)
        BY <2>1, <2>3, <3>1
      <3>3. Len(f[k]) + Len(g[k]) = k
        BY <2>5, <2>8, <2>9, <3>2, Zenon
      <3> QED BY <2>2, <3>2, <3>3, Zenon
    <2>7. CASE s[k] \notin A
      <3>1. f[k] = t /\ g[k] = Append(r, s[k])
        BY <1>1, <1>2, <2>2, <2>7 DEF OneMore
      <3>2. f[k] \in Seq(X) /\ g[k] \in Seq(X) /\ Len(f[k]) = Len(t) /\ Len(g[k]) = Len(r) + 1
        BY <2>1, <2>4, <3>1
      <3>3. Len(f[k]) + Len(g[k]) = k
        BY <2>5, <2>8, <2>9, <3>2, Zenon
      <3> QED BY <2>2, <3>2, <3>3, Zenon
    <2> QED BY <2>6, <2>7
  <1>5. N \in S
    <2> HIDE DEF S
    <2>1. \A k \in 1 .. N : k - 1 \in S => k \in S
      BY <1>4
    <2>2. \A k \in 0 .. N : k \in S
      BY <1>3, <2>1, UpTo
    <2> QED BY <2>2
  <1>6. Len(f[N]) + Len(g[N]) = N
    BY <1>5
  <1> QED BY <1>1, <1>2, <1>6

-----------------------------------------------------------------------------
(***************************************************************************)
(* Inserting by time, and keeping the newest.                              *)
(***************************************************************************)
\* The last elements of q, those after the first d.
IsRest(w, q, d) == /\ d \in 0 .. Len(q) /\ Len(w) = Len(q) - d
                   /\ \A j \in 1 .. Len(q) - d : w[j] = q[d + j]

LEMMA NewestFacts ==
  ASSUME NEW X, NEW q \in Seq(X), NEW k \in Nat \ {0}
  PROVE  /\ Newest(q, k) \in Seq(X)
         /\ Len(q) > k => IsRest(Newest(q, k), q, Len(q) - k)
         /\ Len(q) <= k => Newest(q, k) = q
         /\ Len(Newest(q, k)) <= k
         /\ ToSet(Newest(q, k)) \subseteq ToSet(q)
         /\ \A R : Ordered(q, R) => Ordered(Newest(q, k), R)
  <1> PICK N \in Nat : N = Len(q)
    OBVIOUS
  <1> PICK w : w = Newest(q, k)
    OBVIOUS
  <1>1. CASE N > k
    <2>1. N - k \in Nat
      BY <1>1
    <2>2. PICK d \in Nat : d = N - k
      BY <2>1
    <2>3. w = SubSeq(q, d + 1, N)
      BY <1>1, <2>2 DEF Newest
    <2>4. /\ w \in Seq(X) /\ Len(w) = N - d
          /\ \A j \in 1 .. N - d : w[j] = q[d + j] /\ d + j \in 1 .. N
      BY <1>1, <2>2, <2>3
    <2>5. ToSet(w) \subseteq ToSet(q)
      <3>1. ASSUME NEW y \in ToSet(w)
            PROVE  y \in ToSet(q)
        <4>1. PICK j \in 1 .. N - d : w[j] = y
          BY <2>4, InSeq
        <4>2. q[d + j] = y /\ d + j \in 1 .. N
          BY <2>4, <4>1
        <4> QED BY <4>2, InSeq
      <3> QED BY <3>1
    <2>6. ASSUME NEW R, Ordered(q, R)
          PROVE  Ordered(w, R)
      <3>1. ASSUME NEW i \in 1 .. N - d, NEW j \in 1 .. N - d, i < j
            PROVE  <<w[i], w[j]>> \in R
        <4>1. w[i] = q[d + i] /\ w[j] = q[d + j] /\ d + i \in 1 .. N /\ d + j \in 1 .. N
          BY <2>4
        <4>2. d + i < d + j
          BY <3>1
        <4> QED BY <2>6, <4>1, <4>2 DEF Ordered
      <3> QED BY <2>4, <3>1 DEF Ordered
    <2>7. IsRest(w, q, d)
      BY <1>1, <2>2, <2>4 DEF IsRest
    <2>8. Len(w) <= k
      BY <1>1, <2>2, <2>4
    <2> QED BY <1>1, <2>2, <2>4, <2>5, <2>6, <2>7, <2>8
  <1>2. CASE N <= k
    <2>0. ~(N > k)
      BY <1>2
    <2>1. w = SubSeq(q, 1, N)
      BY <2>0 DEF Newest
    <2>2. w = q
      BY <2>1
    <2> QED BY <1>2, <2>2
  <1> QED BY <1>1, <1>2

\* w is q with x at one place, in the order R.
IsInserted(w, q, x, X, R) ==
    /\ w \in Seq(X) /\ Len(w) = Len(q) + 1
    /\ ToSet(w) = ToSet(q) \cup {x}
    /\ Ordered(w, R)
    /\ \E i \in 1 .. Len(w) : w[i] = x /\ \A j \in 1 .. Len(w) : j # i => w[j] \in ToSet(q)

LEMMA InsertedFacts ==
  ASSUME NEW X, NEW q \in Seq(X), NEW x \in X, NEW Later, NEW R, Ordered(q, R),
         \A y \in ToSet(q) \ Later : <<y, x>> \in R,
         \A y \in ToSet(q) \cap Later : <<x, y>> \in R,
         \A y \in ToSet(q) \ Later, z \in ToSet(q) \cap Later : <<y, z>> \in R,
         NEW w, w = Inserted(q, x, Later)
  PROVE  IsInserted(w, q, x, X, R)
  <1>1. PICK a : a = Only(q, ToSet(q) \ Later)
    OBVIOUS
  <1>2. PICK b : b = Only(q, Later)
    OBVIOUS
  <1>3. a \in Seq(X) /\ ToSet(a) = ToSet(q) \ Later /\ Ordered(a, R)
    <2>1. ToSet(q) \cap (ToSet(q) \ Later) = ToSet(q) \ Later
      OBVIOUS
    <2> QED BY <1>1, <2>1, OnlyFacts
  <1>4. b \in Seq(X) /\ ToSet(b) = ToSet(q) \cap Later /\ Ordered(b, R)
    BY <1>2, OnlyFacts
  <1>5. PICK m \in Nat : m = Len(a)
    BY <1>3
  <1>6. PICK n \in Nat : n = Len(b)
    BY <1>4
  <1>7. PICK L \in Nat : L = Len(q)
    OBVIOUS
  <1>8. m + n = L
    <2>1. \A y \in ToSet(q) : y \in ToSet(q) \ Later <=> y \notin Later
      OBVIOUS
    <2>2. Len(Only(q, ToSet(q) \ Later)) + Len(Only(q, Later)) = Len(q)
      BY <2>1, OnlyLengths
    <2> QED BY <1>1, <1>2, <1>5, <1>6, <1>7, <2>2, Zenon
  <1>9. /\ w \in Seq(X) /\ Len(w) = m + 1 + n
        /\ \A k \in 1 .. m : w[k] = a[k]
        /\ w[m + 1] = x
        /\ \A k \in 1 .. n : w[m + 1 + k] = b[k]
    <2>1. w = a \o <<x>> \o b
      BY <1>1, <1>2 DEF Inserted
    <2>2. PICK c : c = a \o <<x>>
      OBVIOUS
    <2>3. /\ c \in Seq(X) /\ Len(c) = m + 1 /\ c[m + 1] = x
          /\ \A k \in 1 .. m : c[k] = a[k]
      BY <1>3, <1>5, <2>2
    <2>4. w = c \o b
      BY <2>1, <2>2
    <2>5. /\ w \in Seq(X) /\ Len(w) = m + 1 + n /\ \A k \in 1 .. m + 1 : w[k] = c[k]
          /\ \A k \in 1 .. n : w[m + 1 + k] = b[k]
      <3>1. PICK M \in Nat : M = m + 1
        OBVIOUS
      <3>2. c \in Seq(X) /\ Len(c) = M
        BY <2>3, <3>1
      <3>3. /\ w \in Seq(X) /\ Len(w) = M + n /\ \A k \in 1 .. M : w[k] = c[k]
            /\ \A k \in 1 .. n : w[M + k] = b[k]
        <4>1. c \in Seq(X) /\ b \in Seq(X) /\ M = Len(c) /\ n = Len(b) /\ w = c \o b
          BY <1>4, <1>6, <2>4, <3>2
        <4> QED BY ONLY <4>1, M \in Nat, n \in Nat, JoinAt
      <3> QED BY <3>1, <3>3
    <2>6. \A k \in 1 .. m : k \in 1 .. m + 1
      OBVIOUS
    <2>7. m + 1 \in 1 .. m + 1
      OBVIOUS
    <2> QED BY <2>3, <2>5, <2>6, <2>7
  <1>10. \A k \in 1 .. m : w[k] \in ToSet(a)
    BY <1>3, <1>5, <1>9, InSeq
  <1>11. \A k \in 1 .. n : w[m + 1 + k] \in ToSet(b)
    BY <1>4, <1>6, <1>9, InSeq
  <1>12. ASSUME NEW k \in 1 .. m + 1 + n
         PROVE  k \in 1 .. m \/ k = m + 1 \/ \E i \in 1 .. n : k = m + 1 + i
    <2>1. CASE k > m + 1
      <3>1. k - (m + 1) \in 1 .. n /\ k = m + 1 + (k - (m + 1))
        BY <2>1
      <3> QED BY <3>1
    <2>2. CASE ~(k > m + 1)
      BY <2>2
    <2> QED BY <2>1, <2>2
  <1>13. ToSet(w) = ToSet(q) \cup {x}
    <2>1. \A y : y \in ToSet(w) <=> \E k \in 1 .. m + 1 + n : w[k] = y
      BY <1>9, InSeq
    <2>2. ASSUME NEW y \in ToSet(w)
          PROVE  y \in ToSet(q) \cup {x}
      <3>1. PICK k \in 1 .. m + 1 + n : w[k] = y
        BY <2>1
      <3>2. y \in ToSet(a) \/ y = x \/ y \in ToSet(b)
        BY <1>9, <1>10, <1>11, <1>12, <3>1
      <3> QED BY <1>3, <1>4, <3>2
    <2>3. ASSUME NEW y \in ToSet(a)
          PROVE  y \in ToSet(w)
      <3>1. PICK k \in 1 .. m : a[k] = y
        BY <1>3, <1>5, InSeq
      <3>2. k \in 1 .. m + 1 + n /\ w[k] = y
        BY <1>9, <3>1
      <3> QED BY <2>1, <3>2
    <2>4. ASSUME NEW y \in ToSet(b)
          PROVE  y \in ToSet(w)
      <3>1. PICK k \in 1 .. n : b[k] = y
        BY <1>4, <1>6, InSeq
      <3>2. m + 1 + k \in 1 .. m + 1 + n /\ w[m + 1 + k] = y
        BY <1>9, <3>1
      <3> QED BY <2>1, <3>2
    <2>5. x \in ToSet(w)
      <3>1. m + 1 \in 1 .. m + 1 + n
        OBVIOUS
      <3> QED BY <1>9, <2>1, <3>1
    <2> QED BY <1>3, <1>4, <2>2, <2>3, <2>4, <2>5
  <1>14. ASSUME NEW i \in 1 .. m + 1 + n, NEW j \in 1 .. m + 1 + n, i < j
         PROVE  <<w[i], w[j]>> \in R
    <2>1. CASE i \in 1 .. m
      <3>1. w[i] \in ToSet(q) \ Later /\ w[i] = a[i]
        BY <1>3, <1>9, <1>10, <2>1
      <3>2. CASE j \in 1 .. m
        BY <1>3, <1>5, <1>9, <1>14, <2>1, <3>2 DEF Ordered
      <3>3. CASE j = m + 1
        BY <1>9, <3>1, <3>3
      <3>4. CASE \E k \in 1 .. n : j = m + 1 + k
        <4>1. w[j] \in ToSet(q) \cap Later
          BY <1>4, <1>11, <3>4
        <4> QED BY <3>1, <4>1
      <3> QED BY <1>12, <3>2, <3>3, <3>4
    <2>2. CASE i = m + 1
      <3>1. j \notin 1 .. m /\ j # m + 1
        BY <1>14, <2>2
      <3>2. PICK k \in 1 .. n : j = m + 1 + k
        BY <1>12, <3>1
      <3>3. w[j] \in ToSet(q) \cap Later
        BY <1>4, <1>11, <3>2
      <3> QED BY <1>9, <2>2, <3>3
    <2>3. CASE \E k \in 1 .. n : i = m + 1 + k
      <3>1. PICK k \in 1 .. n : i = m + 1 + k
        BY <2>3
      <3>2. j - (m + 1) \in 1 .. n /\ j = m + 1 + (j - (m + 1)) /\ k < j - (m + 1)
        BY <1>14, <3>1
      <3>3. PICK l \in 1 .. n : j = m + 1 + l /\ k < l
        BY <3>2
      <3>4. w[i] = b[k] /\ w[j] = b[l]
        BY <1>9, <3>1, <3>3
      <3>5. <<b[k], b[l]>> \in R
        BY <1>4, <1>6, <3>3 DEF Ordered
      <3> QED BY <3>4, <3>5
    <2> QED BY <1>12, <2>1, <2>2, <2>3
  <1>15. Ordered(w, R)
    BY <1>9, <1>14 DEF Ordered
  <1>16. ASSUME NEW j \in 1 .. m + 1 + n, j # m + 1
         PROVE  w[j] \in ToSet(q)
    BY <1>3, <1>4, <1>10, <1>11, <1>12, <1>16
  <1>17. m + 1 \in 1 .. m + 1 + n /\ m + 1 + n = L + 1
    BY <1>8
  <1>18. \E i \in 1 .. Len(w) : w[i] = x /\ \A j \in 1 .. Len(w) : j # i => w[j] \in ToSet(q)
    BY <1>9, <1>16, <1>17
  <1> QED BY <1>7, <1>9, <1>13, <1>15, <1>17, <1>18 DEF IsInserted

-----------------------------------------------------------------------------
(***************************************************************************)
(* A thread and a queue of envelopes, beside all that was put into them.   *)
(***************************************************************************)
RowOrder == {w \in DmRow \X DmRow : w[1].at <= w[2].at}
IdOrder == {w \in EnvelopeRow \X EnvelopeRow : w[1].id < w[2].id}

\* The newest rows are kept, sorted, and as long as all fit none is dropped.
ThreadInv(kept, put) ==
    /\ kept \in Seq(DmRow) /\ put \in Seq(DmRow)
    /\ Ordered(kept, RowOrder)
    /\ ToSet(kept) \subseteq ToSet(put)
    /\ Len(kept) = IF Len(put) > HistoryMax THEN HistoryMax ELSE Len(put)
    /\ Len(put) <= HistoryMax => ToSet(put) \subseteq ToSet(kept)
    /\ \A row \in ToSet(put) \ ToSet(kept) : \A x \in ToSet(kept) : row.at <= x.at

\* A later envelope found e expired.
Expired(e, queued) == \E f \in ToSet(queued) : f.id > e.id /\ ~Younger(f.at, e.at, EnvelopeTtl)

QueueInv(held, queued) ==
    /\ held \in Seq(EnvelopeRow) /\ queued \in Seq(EnvelopeRow)
    /\ \A k \in 1 .. Len(queued) : queued[k].id = k
    /\ Ordered(held, IdOrder)
    /\ ToSet(held) \subseteq ToSet(queued)
    /\ Len(held) <= EnvelopeMax
    /\ held # << >> => \A e \in ToSet(queued) \ ToSet(held) : e.id > held[1].id => Expired(e, queued)

LEMMA Limits ==
  /\ HistoryMax \in Nat \ {0} /\ EnvelopeMax \in Nat \ {0} /\ EnvelopeTtl \in Nat \ {0}
  /\ HistoryMs \in Nat /\ MaxTime \in Nat
  BY LimitAssumption

LEMMA ThreadPut ==
  ASSUME NEW kept, NEW put, NEW row \in DmRow, ThreadInv(kept, put)
  PROVE  ThreadInv(Newest(InsertedRow(kept, row), HistoryMax), Append(put, row))
  <1>0. PICK H \in Nat \ {0} : H = HistoryMax
    BY Limits
  <1>1. /\ kept \in Seq(DmRow) /\ put \in Seq(DmRow) /\ Ordered(kept, RowOrder)
        /\ ToSet(kept) \subseteq ToSet(put) /\ ToSet(put) \subseteq DmRow
    BY InSeq DEF ThreadInv
  <1>2. PICK n \in Nat : n = Len(kept)
    BY <1>1
  <1>3. PICK N \in Nat : N = Len(put)
    BY <1>1
  <1>4. /\ n = (IF N > H THEN H ELSE N) /\ (N <= H => ToSet(put) \subseteq ToSet(kept))
        /\ \A r \in ToSet(put) \ ToSet(kept) : \A x \in ToSet(kept) : r.at <= x.at
    BY <1>0, <1>2, <1>3 DEF ThreadInv
  <1>5. PICK w : w = InsertedRow(kept, row)
    OBVIOUS
  <1>6. \A r \in DmRow : r.at \in Nat
    BY DEF DmRow
  <1> DEFINE Later == {x \in ToSet(kept) : TimeOf(x) > TimeOf(row)}
  <1>7. w = Inserted(kept, row, Later)
    BY <1>5 DEF InsertedRow
  <1>8. /\ \A y \in ToSet(kept) \ Later : <<y, row>> \in RowOrder
        /\ \A y \in ToSet(kept) \cap Later : <<row, y>> \in RowOrder
        /\ \A y \in ToSet(kept) \ Later, z \in ToSet(kept) \cap Later : <<y, z>> \in RowOrder
    BY <1>1, <1>6 DEF RowOrder, TimeOf
  <1> HIDE DEF Later
  <1>9. /\ w \in Seq(DmRow) /\ Len(w) = n + 1
        /\ ToSet(w) = ToSet(kept) \cup {row}
        /\ Ordered(w, RowOrder)
        /\ \E i \in 1 .. n + 1 : w[i] = row /\ \A j \in 1 .. n + 1 : j # i => w[j] \in ToSet(kept)
    <2>1. IsInserted(w, kept, row, DmRow, RowOrder)
      <3>1. row \in DmRow
        OBVIOUS
      <3> QED BY ONLY <1>1, <1>7, <1>8, <3>1, InsertedFacts
    <2> QED BY <1>2, <2>1 DEF IsInserted
  <1>10. PICK v : v = Newest(w, H)
    OBVIOUS
  <1>11. /\ v \in Seq(DmRow) /\ (n + 1 > H => IsRest(v, w, n + 1 - H)) /\ (n + 1 <= H => v = w)
         /\ ToSet(v) \subseteq ToSet(w) /\ Ordered(v, RowOrder)
    BY <1>9, <1>10, NewestFacts
  <1>12. PICK q : q = Append(put, row)
    OBVIOUS
  <1>13. q \in Seq(DmRow) /\ Len(q) = N + 1 /\ ToSet(q) = ToSet(put) \cup {row}
    <2>1. q \in Seq(DmRow) /\ ToSet(q) = ToSet(put) \cup {row}
      BY <1>1, <1>12, AppendSet
    <2> QED BY <1>1, <1>3, <1>12, <2>1
  <1>14. ToSet(v) \subseteq ToSet(q)
    BY <1>1, <1>9, <1>11, <1>13
  <1>15. CASE N + 1 <= H
    <2>1. n = N /\ n + 1 <= H /\ ~(N + 1 > H) /\ N <= H
      BY <1>4, <1>15
    <2>2. v = w /\ Len(v) = N + 1
      BY <1>9, <1>11, <2>1
    <2>3. ToSet(q) \subseteq ToSet(v)
      BY <1>4, <1>9, <1>13, <2>1, <2>2
    <2> QED BY <1>0, <1>5, <1>10, <1>11, <1>12, <1>13, <1>14, <2>1, <2>2, <2>3 DEF ThreadInv
  <1>16. CASE N + 1 > H
    <2>1. n = H
      BY <1>4, <1>16
    <2>2. IsRest(v, w, 1)
      BY <1>11, <2>1
    <2>3. Len(v) = n /\ \A j \in 1 .. n : v[j] = w[1 + j]
      BY <1>9, <2>2 DEF IsRest
    <2>4. PICK i \in 1 .. n + 1 : w[i] = row /\ \A j \in 1 .. n + 1 : j # i => w[j] \in ToSet(kept)
      BY <1>9
    <2>5. \A j \in 1 .. n : /\ 1 + j \in 1 .. n + 1 /\ 1 + j # 1
                            /\ w[1].at <= w[1 + j].at
      <3>1. ASSUME NEW j \in 1 .. n
            PROVE  1 + j \in 1 .. n + 1 /\ 1 < 1 + j /\ 1 \in 1 .. n + 1
        OBVIOUS
      <3>2. \A j \in 1 .. n : <<w[1], w[1 + j]>> \in RowOrder
        BY <1>9, <3>1 DEF Ordered
      <3>3. \A y, z : <<y, z>> \in RowOrder => y.at <= z.at
        BY DEF RowOrder
      <3>4. \A j \in 1 .. n : w[1].at <= w[1 + j].at
        BY <3>2, <3>3
      <3>5. \A j \in 1 .. n : 1 + j \in 1 .. n + 1 /\ 1 + j # 1
        OBVIOUS
      <3> QED BY <3>4, <3>5
    <2>6. \A x \in ToSet(v) : \E j \in 1 .. n : x = w[1 + j]
      BY <1>11, <2>3, InSeq
    <2>7. \A y \in ToSet(w) : y = w[1] \/ y \in ToSet(v)
      <3>1. ASSUME NEW k \in 1 .. n + 1, k # 1
            PROVE  w[k] \in ToSet(v)
        <4>1. k - 1 \in 1 .. n /\ 1 + (k - 1) = k
          BY <3>1
        <4>2. v[k - 1] = w[k]
          BY <2>3, <4>1
        <4> QED BY <1>11, <2>3, <4>1, <4>2, InSeq
      <3>2. \A y \in ToSet(w) : \E k \in 1 .. n + 1 : w[k] = y
        BY <1>9, InSeq
      <3> QED BY <3>1, <3>2
    <2>8. ASSUME NEW r \in ToSet(q) \ ToSet(v), NEW x \in ToSet(v)
          PROVE  r.at <= x.at
      <3>1. PICK j \in 1 .. n : x = w[1 + j]
        BY <2>6
      <3>2. w[1].at <= x.at
        BY <2>5, <3>1
      <3>3. CASE r = w[1]
        BY <3>2, <3>3
      <3>4. CASE r # w[1]
        <4>1. r \notin ToSet(w) /\ r \in ToSet(put) \ ToSet(kept) /\ r \in DmRow /\ r # row
          BY <1>1, <1>9, <1>13, <2>7, <3>4
        <4>2. CASE 1 + j # i
          <5>1. x \in ToSet(kept)
            BY <2>4, <2>5, <3>1, <4>2
          <5> QED BY <1>4, <4>1, <5>1
        <4>3. CASE 1 + j = i
          <5>1. 1 # i /\ 1 \in 1 .. n + 1
            BY <4>3
          <5>2. w[1] \in ToSet(kept)
            BY <2>4, <5>1
          <5>3. r.at <= w[1].at
            BY <1>4, <4>1, <5>2
          <5>4. x \in DmRow /\ w[1] \in DmRow
            BY <1>1, <1>11, <5>2, InSeq
          <5> QED BY <1>6, <3>2, <4>1, <5>3, <5>4
        <4> QED BY <4>2, <4>3
      <3> QED BY <3>3, <3>4
    <2>9. Len(v) = H /\ N + 1 > H /\ ~(N + 1 <= H)
      BY <1>16, <2>1, <2>3
    <2> QED BY <1>0, <1>5, <1>10, <1>11, <1>12, <1>13, <1>14, <2>8, <2>9 DEF ThreadInv
  <1>17. N + 1 <= H \/ N + 1 > H
    OBVIOUS
  <1> QED BY <1>15, <1>16, <1>17

LEMMA ThreadLess ==
  ASSUME NEW kept, NEW put, NEW K, ThreadInv(kept, put), NEW w, w \in {Only(kept, K), << >>}
  PROVE  ThreadInv(w, w)
  <1>0. HistoryMax \in Nat
    BY Limits
  <1>1. kept \in Seq(DmRow) /\ Ordered(kept, RowOrder) /\ Len(kept) <= HistoryMax
    BY <1>0 DEF ThreadInv
  <1>2. w \in Seq(DmRow) /\ Ordered(w, RowOrder) /\ Len(w) <= HistoryMax
    <2>1. CASE w = << >>
      BY <1>0, <2>1 DEF Ordered
    <2>2. CASE w = Only(kept, K)
      <3>1. w \in Seq(DmRow) /\ Ordered(w, RowOrder)
        BY <1>1, <2>2, OnlyFacts
      <3>2. PICK b : b = Only(kept, ToSet(kept) \ K)
        OBVIOUS
      <3>3. b \in Seq(DmRow)
        BY <1>1, <3>2, OnlyFacts
      <3>4. Len(w) + Len(b) = Len(kept)
        BY <1>1, <2>2, <3>2, OnlyLengths
      <3> QED BY <1>0, <1>1, <3>1, <3>3, <3>4
    <2> QED BY <2>1, <2>2
  <1>3. ~(Len(w) > HistoryMax)
    BY <1>0, <1>2
  <1> QED BY <1>2, <1>3 DEF ThreadInv

LEMMA QueuePut ==
  ASSUME NEW held, NEW queued, NEW t \in Nat, QueueInv(held, queued),
         NEW e, e = [at |-> t, id |-> Len(queued) + 1]
  PROVE  QueueInv(Newest(Append(Only(held, {x \in ToSet(held) : Younger(e.at, x.at, EnvelopeTtl)}), e),
                         EnvelopeMax),
                  Append(queued, e))
  <1>0. PICK E \in Nat \ {0} : E = EnvelopeMax
    BY Limits
  <1>1. /\ held \in Seq(EnvelopeRow) /\ queued \in Seq(EnvelopeRow) /\ Ordered(held, IdOrder)
        /\ ToSet(held) \subseteq ToSet(queued) /\ ToSet(queued) \subseteq EnvelopeRow
    BY InSeq DEF QueueInv
  <1>2. PICK N \in Nat : N = Len(queued)
    BY <1>1
  <1>3. e \in EnvelopeRow /\ e.id = N + 1
    BY <1>2 DEF EnvelopeRow
  <1>4. \A x \in ToSet(queued) : x.id \in Nat /\ x.id <= N
    <2>1. ASSUME NEW x \in ToSet(queued)
          PROVE  x.id \in Nat /\ x.id <= N
      <3>1. PICK k \in 1 .. N : queued[k] = x
        BY <1>1, <1>2, InSeq
      <3>2. x.id = k
        BY <1>2, <3>1 DEF QueueInv
      <3> QED BY <3>2
    <2> QED BY <2>1
  <1>5. \A x, y : <<x, y>> \in IdOrder <=> x \in EnvelopeRow /\ y \in EnvelopeRow /\ x.id < y.id
    BY DEF IdOrder
  <1> DEFINE K == {x \in ToSet(held) : Younger(e.at, x.at, EnvelopeTtl)}
  <1>6. PICK y : y = Only(held, K)
    OBVIOUS
  <1>7. y \in Seq(EnvelopeRow) /\ ToSet(y) = ToSet(held) \cap K /\ Ordered(y, IdOrder)
    BY <1>1, <1>6, OnlyFacts
  <1>8. \A x \in ToSet(held) : x \in K <=> Younger(e.at, x.at, EnvelopeTtl)
    OBVIOUS
  <1> HIDE DEF K
  <1>9. PICK z : z = Append(y, e)
    OBVIOUS
  <1>10. z \in Seq(EnvelopeRow) /\ ToSet(z) = ToSet(y) \cup {e} /\ Ordered(z, IdOrder)
    <2>1. \A x \in ToSet(y) : <<x, e>> \in IdOrder
      <3>1. ASSUME NEW x \in ToSet(y)
            PROVE  x \in EnvelopeRow /\ x.id \in Nat /\ x.id <= N
        BY <1>1, <1>4, <1>7
      <3> QED BY <1>3, <1>5, <3>1
    <2>2. Ordered(z, IdOrder)
      BY <1>3, <1>7, <1>9, <2>1, AppendOrdered
    <2> QED BY <1>3, <1>7, <1>9, <2>2, AppendSet
  <1>11. PICK M \in Nat : M = Len(z)
    BY <1>10
  <1>12. M > 0 /\ z[M] = e
    <2>1. PICK m \in Nat : m = Len(y)
      BY <1>7
    <2>2. Len(z) = m + 1 /\ z[m + 1] = e
      BY <1>3, <1>7, <1>9, <2>1
    <2> QED BY <1>11, <2>2
  <1>13. PICK v : v = Newest(z, E)
    OBVIOUS
  <1>14. /\ v \in Seq(EnvelopeRow) /\ Ordered(v, IdOrder) /\ Len(v) <= E /\ ToSet(v) \subseteq ToSet(z)
         /\ M > E => IsRest(v, z, M - E)
         /\ M <= E => v = z
    BY <1>10, <1>11, <1>13, NewestFacts
  <1>15. \E d \in 0 .. M - 1 : Len(v) = M - d /\ \A j \in 1 .. M - d : v[j] = z[d + j]
    <2>1. CASE M > E
      <3>1. M - E \in 0 .. M - 1
        BY <2>1
      <3> QED BY <1>11, <1>14, <2>1, <3>1 DEF IsRest
    <2>2. CASE M <= E
      <3>1. v = z /\ 0 \in 0 .. M - 1 /\ M - 0 = M
        BY <1>12, <1>14, <2>2
      <3>2. Len(v) = M - 0 /\ \A j \in 1 .. M - 0 : v[j] = z[0 + j]
        BY <1>11, <3>1
      <3> QED BY <3>1, <3>2
    <2> QED BY <2>1, <2>2
  <1>16. PICK d \in 0 .. M - 1 : Len(v) = M - d /\ \A j \in 1 .. M - d : v[j] = z[d + j]
    BY <1>15
  <1>17. \A k \in d + 1 .. M : z[k] \in ToSet(v)
    <2>1. ASSUME NEW k \in d + 1 .. M
          PROVE  z[k] \in ToSet(v)
      <3>1. k - d \in 1 .. M - d /\ d + (k - d) = k
        OBVIOUS
      <3>2. v[k - d] = z[k]
        BY <1>16, <3>1
      <3> QED BY <1>14, <1>16, <3>1, <3>2, InSeq
    <2> QED BY <2>1
  <1>18. v[1] = z[d + 1] /\ v[1] \in ToSet(v) /\ v # << >>
    <2>1. 1 \in 1 .. M - d /\ d + 1 \in d + 1 .. M
      BY <1>12
    <2>2. v[1] = z[d + 1]
      BY <1>16, <2>1
    <2>3. Len(v) # 0
      BY <1>16, <2>1
    <2> QED BY <1>17, <2>1, <2>2, <2>3
  <1>19. PICK q : q = Append(queued, e)
    OBVIOUS
  <1>20. /\ q \in Seq(EnvelopeRow) /\ Len(q) = N + 1 /\ ToSet(q) = ToSet(queued) \cup {e}
         /\ \A k \in 1 .. Len(q) : q[k].id = k
    <2>1. q \in Seq(EnvelopeRow) /\ ToSet(q) = ToSet(queued) \cup {e}
      BY <1>1, <1>3, <1>19, AppendSet
    <2>2. Len(q) = N + 1 /\ q[N + 1] = e /\ \A k \in 1 .. N : q[k] = queued[k]
      BY <1>1, <1>2, <1>3, <1>19
    <2>3. \A k \in 1 .. N : queued[k].id = k
      BY <1>2 DEF QueueInv
    <2>4. \A k \in 1 .. N + 1 : k \in 1 .. N \/ k = N + 1
      OBVIOUS
    <2> QED BY <1>3, <2>1, <2>2, <2>3, <2>4
  <1>21. ASSUME NEW x \in ToSet(q) \ ToSet(v), x.id > v[1].id
         PROVE  Expired(x, q)
    <2>1. x # e
      <3>1. M \in d + 1 .. M
        BY <1>12
      <3> QED BY <1>12, <1>17, <3>1
    <2>2. x \in ToSet(queued) /\ x.id \in Nat /\ x.id <= N /\ x \in EnvelopeRow
      BY <1>1, <1>4, <1>20, <2>1
    <2>3. v[1] \in ToSet(z) /\ v[1] # e
      BY <1>3, <1>14, <1>18, <1>21, <2>2
    <2>4. v[1] \in ToSet(held) /\ v[1].id \in Nat
      BY <1>1, <1>4, <1>7, <1>10, <2>3
    <2>5. x \notin ToSet(z)
      <3>1. SUFFICES ASSUME x \in ToSet(z) PROVE FALSE
        OBVIOUS
      <3>2. PICK k \in 1 .. M : z[k] = x
        BY <1>10, <1>11, <3>1, InSeq
      <3>3. k < d + 1 /\ d + 1 \in 1 .. M
        BY <1>17, <3>2
      <3>4. <<z[k], z[d + 1]>> \in IdOrder
        BY <1>10, <1>11, <3>3 DEF Ordered
      <3>5. x.id < v[1].id
        BY <1>5, <1>18, <3>2, <3>4
      <3> QED BY <1>21, <2>2, <2>4, <3>5
    <2>6. CASE x \in ToSet(held)
      <3>1. ~Younger(e.at, x.at, EnvelopeTtl)
        BY <1>7, <1>8, <1>10, <2>5, <2>6
      <3>2. e \in ToSet(q) /\ e.id > x.id
        BY <1>3, <1>20, <2>2
      <3> QED BY <3>1, <3>2 DEF Expired
    <2>7. CASE x \notin ToSet(held)
      <3>1. PICK n \in Nat : n = Len(held)
        BY <1>1
      <3>2. PICK k \in 1 .. n : held[k] = v[1]
        BY <1>1, <2>4, <3>1, InSeq
      <3>3. held # << >> /\ 1 \in 1 .. n /\ held[1] \in ToSet(held)
        <4>1. 1 \in 1 .. n
          BY <3>2
        <4>2. held # << >>
          BY <3>1, <4>1
        <4>3. held[1] \in ToSet(held)
          BY <1>1, <3>1, <4>1, InSeq
        <4> QED BY <4>1, <4>2, <4>3
      <3>4. held[1].id \in Nat
        BY <1>1, <1>4, <3>3
      <3>5. held[1].id <= v[1].id
        <4>1. CASE k = 1
          BY <2>4, <3>2, <4>1
        <4>2. CASE k # 1
          <5>1. 1 < k
            BY <4>2
          <5>2. <<held[1], held[k]>> \in IdOrder
            BY <1>1, <3>1, <3>3, <5>1 DEF Ordered
          <5> QED BY <1>5, <2>4, <3>2, <3>4, <5>2
        <4> QED BY <4>1, <4>2
      <3>6. x.id > held[1].id
        BY <1>21, <2>2, <2>4, <3>4, <3>5
      <3>7. Expired(x, queued)
        BY <2>2, <2>7, <3>3, <3>6 DEF QueueInv
      <3> QED BY <1>20, <3>7 DEF Expired
    <2> QED BY <2>6, <2>7
  <1>22. ToSet(v) \subseteq ToSet(q)
    BY <1>1, <1>7, <1>10, <1>14, <1>20
  <1>23. QueueInv(v, q)
    BY <1>0, <1>14, <1>18, <1>20, <1>21, <1>22 DEF QueueInv
  <1>24. v = Newest(Append(Only(held, K), e), EnvelopeMax)
    BY <1>0, <1>6, <1>9, <1>13, Zenon
  <1> QED BY <1>19, <1>23, <1>24 DEF K

LEMMA QueueEmpty ==
  /\ \A held, queued : QueueInv(held, queued) => QueueInv(<< >>, queued)
  /\ QueueInv(<< >>, << >>)
  <1>1. EnvelopeMax \in Nat
    BY Limits
  <1>2. << >> \in Seq(EnvelopeRow) /\ Len(<< >>) = 0 /\ ToSet(<< >>) = {} /\ Ordered(<< >>, IdOrder)
    BY EmptySet DEF Ordered
  <1> QED BY <1>1, <1>2 DEF QueueInv

LEMMA ThreadEmpty == ThreadInv(<< >>, << >>)
  <1>1. HistoryMax \in Nat
    BY Limits
  <1>2. << >> \in Seq(DmRow) /\ Len(<< >>) = 0 /\ ToSet(<< >>) = {} /\ Ordered(<< >>, RowOrder)
    BY EmptySet DEF Ordered
  <1> QED BY <1>1, <1>2 DEF ThreadInv

\* The two ways to compare ages say the same.
LEMMA SameAge ==
  ASSUME NEW t \in Nat, NEW s \in Nat, NEW window \in Nat \ {0}
  PROVE  Within(t, s, window) <=> Younger(t, s, window)
  BY DEF Within, Younger

-----------------------------------------------------------------------------
(***************************************************************************)
(* The history of the channel.                                             *)
(***************************************************************************)
\* No message is so much newer than another that putting it drops that one.
NoneTooOld == HistoryMs = 0 \/ \A m, x \in Msg : Younger(Stamp[m], Stamp[x], HistoryMs)

Alike(s, t) == s.chan = t.chan /\ s.digests = ToSet(s.chan) /\ t.digests = ToSet(t.chan)

Bounded(s) == s \in Contents /\ Len(s.chan) <= HistoryMax
SameRest(s, t) == s.peers = t.peers /\ s.dms = t.dms /\ s.envs = t.envs

LEMMA InsertedMsg ==
  ASSUME NEW q \in Seq(Msg), NEW m \in Msg
  PROVE  /\ Inserted(q, m, LaterMsgs(m)) \in Seq(Msg)
         /\ ToSet(Inserted(q, m, LaterMsgs(m))) = ToSet(q) \cup {m}
  <1>1. PICK R : R = Msg \X Msg
    OBVIOUS
  <1>2. ToSet(q) \subseteq Msg
    BY InSeq
  <1>3. PICK L : L = LaterMsgs(m)
    OBVIOUS
  <1>4. PICK w : w = Inserted(q, m, L)
    OBVIOUS
  <1>5. Ordered(q, R)
    BY <1>1 DEF Ordered
  <1>6. /\ \A y \in ToSet(q) \ L : <<y, m>> \in R
        /\ \A y \in ToSet(q) \cap L : <<m, y>> \in R
        /\ \A y \in ToSet(q) \ L, z \in ToSet(q) \cap L : <<y, z>> \in R
    BY <1>1, <1>2
  <1>7. q \in Seq(Msg) /\ m \in Msg
    OBVIOUS
  <1>8. IsInserted(w, q, m, Msg, R)
    BY ONLY <1>4, <1>5, <1>6, <1>7, InsertedFacts
  <1> QED BY <1>3, <1>4, <1>8 DEF IsInserted

\* What a put leaves of all messages, when those in K are young enough.
Pruned(all, young, kept, K) ==
    /\ young = IF HistoryMs = 0 THEN all ELSE Only(all, K)
    /\ kept = Newest(young, HistoryMax)

LEMMA PrunedFacts ==
  ASSUME NEW all \in Seq(Msg), NEW K, NEW young, NEW kept, Pruned(all, young, kept, K)
  PROVE  /\ young \in Seq(Msg) /\ kept \in Seq(Msg) /\ Len(kept) <= HistoryMax
         /\ ToSet(kept) \subseteq ToSet(young) /\ ToSet(young) \subseteq ToSet(all)
         /\ HistoryMs = 0 \/ Msg \subseteq K => young = all
         /\ young = all /\ Len(all) <= HistoryMax => kept = all
  <1>0. HistoryMax \in Nat \ {0}
    BY Limits
  <1>1. PICK R : R = Msg \X Msg
    OBVIOUS
  <1>2. Ordered(all, R) /\ ToSet(all) \subseteq Msg
    BY <1>1, InSeq DEF Ordered
  <1>3. /\ Only(all, K) \in Seq(Msg) /\ ToSet(Only(all, K)) = ToSet(all) \cap K
        /\ ToSet(all) \subseteq K => Only(all, K) = all
    BY <1>2, OnlyFacts, OnlyAll
  <1>4. young \in Seq(Msg) /\ ToSet(young) \subseteq ToSet(all)
    BY <1>3 DEF Pruned
  <1>5. /\ kept \in Seq(Msg) /\ Len(kept) <= HistoryMax /\ ToSet(kept) \subseteq ToSet(young)
        /\ Len(young) <= HistoryMax => kept = young
    BY <1>0, <1>4, NewestFacts DEF Pruned
  <1>6. HistoryMs = 0 \/ Msg \subseteq K => young = all
    BY <1>2, <1>3 DEF Pruned
  <1> QED BY <1>4, <1>5, <1>6

YoungMsgs(m) == {x \in Msg : Younger(Stamp[m], Stamp[x], HistoryMs)}

LEMMA SameYoung ==
  ASSUME HistoryMs # 0, NEW m \in Msg
  PROVE  {x \in Msg : Within(Stamp[m], Stamp[x], HistoryMs)} = YoungMsgs(m)
  <1>1. HistoryMs \in Nat \ {0}
    BY Limits
  <1>2. \A x \in Msg : Stamp[x] \in Nat
    BY StampAssumption
  <1>3. \A x \in Msg : Within(Stamp[m], Stamp[x], HistoryMs) <=> Younger(Stamp[m], Stamp[x], HistoryMs)
    BY <1>1, <1>2, SameAge
  <1> QED BY <1>3 DEF YoungMsgs

\* A store after a put, by its parts.
MemPuts(w, s, m, young, kept) ==
    /\ Pruned(Inserted(s.chan, m, LaterMsgs(m)), young, kept, YoungMsgs(m))
    /\ w = [s EXCEPT !.chan = kept, !.digests = (@ \cup {m}) \ (ToSet(young) \ ToSet(kept))]

SqlPuts(v, t, m, all, young, kept) ==
    /\ all = IF m \in ToSet(t.chan) THEN t.chan ELSE Inserted(t.chan, m, LaterMsgs(m))
    /\ Pruned(all, young, kept, YoungMsgs(m))
    /\ v = [t EXCEPT !.chan = kept, !.digests = ToSet(kept)]

LEMMA MemPut ==
  ASSUME NEW s, s \in Contents, NEW m \in Msg, m \notin s.digests, NEW w, w = mem_put_channel_message(s, m)
  PROVE  \E young, kept : MemPuts(w, s, m, young, kept)
  <1>1. PICK all : all = Inserted(s.chan, m, LaterMsgs(m))
    OBVIOUS
  <1>2. PICK young : young = IF HistoryMs = 0 THEN all ELSE Only(all, YoungMsgs(m))
    OBVIOUS
  <1>3. PICK kept : kept = Newest(young, HistoryMax)
    OBVIOUS
  <1>4. Pruned(all, young, kept, YoungMsgs(m))
    BY <1>2, <1>3 DEF Pruned
  <1>5. young = IF HistoryMs = 0 THEN all
                ELSE Only(all, {x \in Msg : Within(Stamp[m], Stamp[x], HistoryMs)})
    <2>1. CASE HistoryMs = 0
      BY <1>2, <2>1
    <2>2. CASE HistoryMs # 0
      BY <1>2, <2>2, SameYoung
    <2> QED BY <2>1, <2>2
  <1>6. w = [s EXCEPT !.chan = kept, !.digests = (@ \cup {m}) \ (ToSet(young) \ ToSet(kept))]
    BY <1>1, <1>3, <1>5, Zenon DEF mem_put_channel_message
  <1> QED BY <1>1, <1>4, <1>6 DEF MemPuts

LEMMA SqlPut ==
  ASSUME NEW s, s \in Contents, NEW m \in Msg, NEW w, w = sql_put_channel_message(s, m)
  PROVE  \E all, young, kept : SqlPuts(w, s, m, all, young, kept)
  <1>1. PICK all : all = IF m \in ToSet(s.chan) THEN s.chan ELSE Inserted(s.chan, m, LaterMsgs(m))
    OBVIOUS
  <1>2. PICK young : young = IF HistoryMs = 0 THEN all ELSE Only(all, YoungMsgs(m))
    OBVIOUS
  <1>3. PICK kept : kept = Newest(young, HistoryMax)
    OBVIOUS
  <1>4. Pruned(all, young, kept, YoungMsgs(m))
    BY <1>2, <1>3 DEF Pruned
  <1>5. w = [s EXCEPT !.chan = kept, !.digests = ToSet(kept)]
    BY <1>1, <1>2, <1>3, Zenon DEF sql_put_channel_message, YoungMsgs
  <1> QED BY <1>1, <1>4, <1>5 DEF SqlPuts

LEMMA HistorySet ==
  ASSUME NEW s, s \in Contents, NEW q \in Seq(Msg), NEW D, D \subseteq Msg, Len(q) <= HistoryMax,
         NEW w, w = [s EXCEPT !.chan = q, !.digests = D]
  PROVE  Bounded(w) /\ w.chan = q /\ w.digests = D /\ SameRest(w, s)
  BY DEF Contents, Bounded, SameRest

LEMMA PutChannel ==
  ASSUME NEW s, NEW t, Bounded(s), Bounded(t), NEW m \in Msg,
         NEW w, w = mem_put_channel_message(s, m), NEW v, v = sql_put_channel_message(t, m)
  PROVE  /\ Bounded(w) /\ Bounded(v) /\ SameRest(w, s) /\ SameRest(v, t)
         /\ NoneTooOld /\ Alike(s, t) => Alike(w, v)
  <1>0. /\ s \in Contents /\ t \in Contents /\ s.chan \in Seq(Msg) /\ t.chan \in Seq(Msg)
        /\ s.digests \subseteq Msg /\ t.digests \subseteq Msg
        /\ Len(s.chan) <= HistoryMax /\ Len(t.chan) <= HistoryMax
    BY DEF Bounded, Contents
  <1>a. PICK all, young, kept : SqlPuts(v, t, m, all, young, kept)
    BY <1>0, SqlPut
  <1>1. /\ all = IF m \in ToSet(t.chan) THEN t.chan ELSE Inserted(t.chan, m, LaterMsgs(m))
        /\ Pruned(all, young, kept, YoungMsgs(m))
        /\ v = [t EXCEPT !.chan = kept, !.digests = ToSet(kept)]
    BY <1>a DEF SqlPuts
  <1>2. all \in Seq(Msg)
    BY <1>0, <1>1, InsertedMsg
  <1>3. /\ kept \in Seq(Msg) /\ Len(kept) <= HistoryMax
        /\ HistoryMs = 0 \/ Msg \subseteq YoungMsgs(m) => young = all
        /\ young = all /\ Len(all) <= HistoryMax => kept = all
        /\ ToSet(kept) \subseteq ToSet(young)
    BY <1>1, <1>2, PrunedFacts
  <1>4. ToSet(kept) \subseteq Msg
    BY <1>3, InSeq
  <1>5. Bounded(v) /\ v.chan = kept /\ v.digests = ToSet(kept) /\ SameRest(v, t)
    BY <1>0, <1>1, <1>3, <1>4, HistorySet
  <1>6. NoneTooOld => HistoryMs = 0 \/ Msg \subseteq YoungMsgs(m)
    BY DEF NoneTooOld, YoungMsgs
  <1>7. CASE m \in s.digests
    <2>1. w = s
      BY <1>7, Zenon DEF mem_put_channel_message
    <2>2. ASSUME NoneTooOld, Alike(s, t)
          PROVE  Alike(w, v)
      <3>1. s.chan = t.chan /\ s.digests = ToSet(s.chan)
        BY <2>2 DEF Alike
      <3>2. all = t.chan
        BY <1>1, <1>7, <3>1
      <3>3. kept = t.chan
        BY <1>0, <1>3, <1>6, <2>2, <3>2
      <3> QED BY <1>5, <2>1, <3>1, <3>3 DEF Alike
    <2>3. SameRest(w, s)
      BY <2>1 DEF SameRest
    <2> QED BY <1>5, <2>1, <2>2, <2>3
  <1>8. CASE m \notin s.digests
    <2>a. PICK x, y : MemPuts(w, s, m, x, y)
      BY <1>0, <1>8, MemPut
    <2>1. /\ Pruned(Inserted(s.chan, m, LaterMsgs(m)), x, y, YoungMsgs(m))
          /\ w = [s EXCEPT !.chan = y, !.digests = (@ \cup {m}) \ (ToSet(x) \ ToSet(y))]
      BY <2>a DEF MemPuts
    <2>2. PICK a : a = Inserted(s.chan, m, LaterMsgs(m))
      OBVIOUS
    <2>3. a \in Seq(Msg) /\ ToSet(a) = ToSet(s.chan) \cup {m} /\ Pruned(a, x, y, YoungMsgs(m))
      BY <1>0, <2>1, <2>2, InsertedMsg
    <2>4. /\ y \in Seq(Msg) /\ Len(y) <= HistoryMax
          /\ HistoryMs = 0 \/ Msg \subseteq YoungMsgs(m) => x = a
          /\ ToSet(y) \subseteq ToSet(x)
      BY <2>3, PrunedFacts
    <2>5. PICK D : D = (s.digests \cup {m}) \ (ToSet(x) \ ToSet(y))
      OBVIOUS
    <2>6. D \subseteq Msg
      BY <1>0, <2>5
    <2>7. w = [s EXCEPT !.chan = y, !.digests = D]
      BY <2>1, <2>5
    <2>8. Bounded(w) /\ w.chan = y /\ w.digests = D /\ SameRest(w, s)
      BY <1>0, <2>4, <2>6, <2>7, HistorySet
    <2>9. ASSUME NoneTooOld, Alike(s, t)
          PROVE  Alike(w, v)
      <3>1. s.chan = t.chan /\ s.digests = ToSet(s.chan)
        BY <2>9 DEF Alike
      <3>2. all = a
        BY <1>1, <1>8, <2>2, <3>1
      <3>3. young = all /\ x = a
        BY <1>3, <1>6, <2>4, <2>9
      <3>4. kept = y
        BY <1>1, <2>3, <3>2, <3>3 DEF Pruned
      <3>5. D = ToSet(y)
        BY <2>3, <2>4, <2>5, <3>1, <3>3
      <3> QED BY <1>5, <2>8, <3>4, <3>5 DEF Alike
    <2> QED BY <1>5, <2>8, <2>9
  <1> QED BY <1>7, <1>8

-----------------------------------------------------------------------------
(***************************************************************************)
(* The invariant, and the theorems.                                        *)
(***************************************************************************)
LogT == [dms : [Peer -> Seq(DmRow)], envs : [Peer -> Seq(EnvelopeRow)]]

StoresInv ==
    /\ Bounded(mem) /\ Bounded(sql) /\ SameRest(mem, sql)
    /\ log \in LogT /\ now \in 0 .. MaxTime
    /\ \A p \in Peer : ThreadInv(sql.dms[p], log.dms[p]) /\ QueueInv(sql.envs[p], log.envs[p])
    /\ NoneTooOld => Alike(mem, sql)

\* w is a store of these parts.
Parts(w, chan, digests, peers, dms, envs) ==
    /\ Bounded(w) /\ w.chan = chan /\ w.digests = digests
    /\ w.peers = peers /\ w.dms = dms /\ w.envs = envs

LEMMA PeersSet ==
  ASSUME NEW s, Bounded(s), NEW P \in [Peer -> Trust], NEW w, w = [s EXCEPT !.peers = P]
  PROVE  Parts(w, s.chan, s.digests, P, s.dms, s.envs)
  BY DEF Bounded, Contents, Parts

LEMMA DmsSet ==
  ASSUME NEW s, Bounded(s), NEW P \in [Peer -> Seq(DmRow)], NEW w, w = [s EXCEPT !.dms = P]
  PROVE  Parts(w, s.chan, s.digests, s.peers, P, s.envs)
  BY DEF Bounded, Contents, Parts

LEMMA EnvsSet ==
  ASSUME NEW s, Bounded(s), NEW P \in [Peer -> Seq(EnvelopeRow)], NEW w, w = [s EXCEPT !.envs = P]
  PROVE  Parts(w, s.chan, s.digests, s.peers, s.dms, P)
  BY DEF Bounded, Contents, Parts

LEMMA LogDms ==
  ASSUME log \in LogT, NEW P \in [Peer -> Seq(DmRow)]
  PROVE  /\ [log EXCEPT !.dms = P] \in LogT
         /\ [log EXCEPT !.dms = P].dms = P /\ [log EXCEPT !.dms = P].envs = log.envs
  BY DEF LogT

LEMMA LogEnvs ==
  ASSUME log \in LogT, NEW P \in [Peer -> Seq(EnvelopeRow)]
  PROVE  /\ [log EXCEPT !.envs = P] \in LogT
         /\ [log EXCEPT !.envs = P].envs = P /\ [log EXCEPT !.envs = P].dms = log.dms
  BY DEF LogT

\* Both stores change alike in the trust of the peers.
LEMMA PeersStep ==
  ASSUME StoresInv, NEW p \in Peer, NEW r \in Trust,
         mem' = [mem EXCEPT !.peers[p] = r], sql' = [sql EXCEPT !.peers[p] = r], UNCHANGED <<now, log>>
  PROVE  StoresInv'
  <1>1. PICK P : P = [mem.peers EXCEPT ![p] = r]
    OBVIOUS
  <1>2. Bounded(mem) /\ Bounded(sql) /\ mem.peers = sql.peers /\ mem.peers \in [Peer -> Trust]
    BY DEF StoresInv, SameRest, Bounded, Contents
  <1>3. P \in [Peer -> Trust]
    BY <1>1, <1>2
  <1>4. mem' = [mem EXCEPT !.peers = P] /\ sql' = [sql EXCEPT !.peers = P]
    BY <1>1, <1>2
  <1>5. Parts(mem', mem.chan, mem.digests, P, mem.dms, mem.envs)
    BY <1>2, <1>3, <1>4, PeersSet
  <1>6. Parts(sql', sql.chan, sql.digests, P, sql.dms, sql.envs)
    BY <1>2, <1>3, <1>4, PeersSet
  <1> QED BY <1>5, <1>6 DEF StoresInv, SameRest, Alike, Parts

\* Both stores change alike in the thread of a peer.
LEMMA ThreadStep ==
  ASSUME StoresInv, NEW p \in Peer, NEW kept, NEW put, ThreadInv(kept, put),
         mem' = [mem EXCEPT !.dms[p] = kept], sql' = [sql EXCEPT !.dms[p] = kept],
         log' = [log EXCEPT !.dms[p] = put], now' = now
  PROVE  StoresInv'
  <1>1. PICK P : P = [sql.dms EXCEPT ![p] = kept]
    OBVIOUS
  <1>2. PICK Q : Q = [log.dms EXCEPT ![p] = put]
    OBVIOUS
  <1>3. /\ Bounded(mem) /\ Bounded(sql) /\ mem.dms = sql.dms /\ sql.dms \in [Peer -> Seq(DmRow)]
        /\ log \in LogT /\ log.dms \in [Peer -> Seq(DmRow)]
    BY DEF StoresInv, SameRest, Bounded, Contents, LogT
  <1>4. kept \in Seq(DmRow) /\ put \in Seq(DmRow)
    BY DEF ThreadInv
  <1>5. /\ P \in [Peer -> Seq(DmRow)] /\ Q \in [Peer -> Seq(DmRow)]
        /\ P[p] = kept /\ Q[p] = put
        /\ \A o \in Peer : o # p => P[o] = sql.dms[o] /\ Q[o] = log.dms[o]
    BY <1>1, <1>2, <1>3, <1>4
  <1>6. mem' = [mem EXCEPT !.dms = P] /\ sql' = [sql EXCEPT !.dms = P] /\ log' = [log EXCEPT !.dms = Q]
    BY <1>1, <1>2, <1>3
  <1>7. Parts(mem', mem.chan, mem.digests, mem.peers, P, mem.envs)
    BY <1>3, <1>5, <1>6, DmsSet
  <1>8. Parts(sql', sql.chan, sql.digests, sql.peers, P, sql.envs)
    BY <1>3, <1>5, <1>6, DmsSet
  <1>9. log' \in LogT /\ log'.dms = Q /\ log'.envs = log.envs
    BY <1>3, <1>5, <1>6, LogDms
  <1>10. \A o \in Peer : ThreadInv(P[o], Q[o])
    BY <1>5 DEF StoresInv
  <1>11. (\A o \in Peer : ThreadInv(sql.dms[o], log.dms[o]) /\ QueueInv(sql.envs[o], log.envs[o]))'
    BY <1>8, <1>9, <1>10 DEF StoresInv, Parts
  <1>12. Bounded(mem)' /\ Bounded(sql)' /\ SameRest(mem, sql)' /\ (log \in LogT)'
    <2>1. SameRest(mem, sql)
      BY DEF StoresInv
    <2>2. SameRest(mem', sql')
      BY <1>7, <1>8, <2>1 DEF SameRest, Parts
    <2> QED BY <1>7, <1>8, <1>9, <2>2 DEF Parts
  <1>13. NoneTooOld => Alike(mem', sql')
    <2>1. NoneTooOld => Alike(mem, sql)
      BY DEF StoresInv
    <2> QED BY <1>7, <1>8, <2>1 DEF Alike, Parts
  <1>14. (now \in 0 .. MaxTime)'
    BY DEF StoresInv
  <1> QED BY <1>11, <1>12, <1>13, <1>14 DEF StoresInv

\* Both stores change alike in the envelopes for a peer.
LEMMA QueueStep ==
  ASSUME StoresInv, NEW p \in Peer, NEW held, NEW queued, QueueInv(held, queued),
         mem' = [mem EXCEPT !.envs[p] = held], sql' = [sql EXCEPT !.envs[p] = held],
         log' = [log EXCEPT !.envs[p] = queued], now' = now
  PROVE  StoresInv'
  <1>1. PICK P : P = [sql.envs EXCEPT ![p] = held]
    OBVIOUS
  <1>2. PICK Q : Q = [log.envs EXCEPT ![p] = queued]
    OBVIOUS
  <1>3. /\ Bounded(mem) /\ Bounded(sql) /\ mem.envs = sql.envs /\ sql.envs \in [Peer -> Seq(EnvelopeRow)]
        /\ log \in LogT /\ log.envs \in [Peer -> Seq(EnvelopeRow)]
    BY DEF StoresInv, SameRest, Bounded, Contents, LogT
  <1>4. held \in Seq(EnvelopeRow) /\ queued \in Seq(EnvelopeRow)
    BY DEF QueueInv
  <1>5. /\ P \in [Peer -> Seq(EnvelopeRow)] /\ Q \in [Peer -> Seq(EnvelopeRow)]
        /\ P[p] = held /\ Q[p] = queued
        /\ \A o \in Peer : o # p => P[o] = sql.envs[o] /\ Q[o] = log.envs[o]
    BY <1>1, <1>2, <1>3, <1>4
  <1>6. mem' = [mem EXCEPT !.envs = P] /\ sql' = [sql EXCEPT !.envs = P] /\ log' = [log EXCEPT !.envs = Q]
    BY <1>1, <1>2, <1>3
  <1>7. Parts(mem', mem.chan, mem.digests, mem.peers, mem.dms, P)
    BY <1>3, <1>5, <1>6, EnvsSet
  <1>8. Parts(sql', sql.chan, sql.digests, sql.peers, sql.dms, P)
    BY <1>3, <1>5, <1>6, EnvsSet
  <1>9. log' \in LogT /\ log'.envs = Q /\ log'.dms = log.dms
    BY <1>3, <1>5, <1>6, LogEnvs
  <1>10. \A o \in Peer : QueueInv(P[o], Q[o])
    BY <1>5 DEF StoresInv
  <1>11. (\A o \in Peer : ThreadInv(sql.dms[o], log.dms[o]) /\ QueueInv(sql.envs[o], log.envs[o]))'
    BY <1>8, <1>9, <1>10 DEF StoresInv, Parts
  <1>12. Bounded(mem)' /\ Bounded(sql)' /\ SameRest(mem, sql)' /\ (log \in LogT)'
    <2>1. SameRest(mem, sql)
      BY DEF StoresInv
    <2>2. SameRest(mem', sql')
      BY <1>7, <1>8, <2>1 DEF SameRest, Parts
    <2> QED BY <1>7, <1>8, <1>9, <2>2 DEF Parts
  <1>13. NoneTooOld => Alike(mem', sql')
    <2>1. NoneTooOld => Alike(mem, sql)
      BY DEF StoresInv
    <2> QED BY <1>7, <1>8, <2>1 DEF Alike, Parts
  <1>14. (now \in 0 .. MaxTime)'
    BY DEF StoresInv
  <1> QED BY <1>11, <1>12, <1>13, <1>14 DEF StoresInv

LEMMA EmptyInv ==
  ASSUME NEW s, s = Empty, NEW l, l = Nothing
  PROVE  /\ Bounded(s) /\ SameRest(s, s) /\ l \in LogT /\ Alike(s, s)
         /\ \A p \in Peer : ThreadInv(s.dms[p], l.dms[p]) /\ QueueInv(s.envs[p], l.envs[p])
  <1>1. HistoryMax \in Nat
    BY Limits
  <1>2. << >> \in Seq(Msg) /\ Len(<< >>) = 0 /\ ToSet(<< >>) = {} /\ << >> \in Seq(DmRow) /\ << >> \in Seq(EnvelopeRow)
    BY EmptySet
  <1>3. Bounded(s)
    BY <1>1, <1>2 DEF Empty, Bounded, Contents, Trust
  <1>4. Alike(s, s) /\ SameRest(s, s)
    BY <1>2 DEF Empty, Alike, SameRest
  <1>5. l \in LogT
    BY <1>2 DEF Nothing, LogT
  <1>6. \A p \in Peer : s.dms[p] = << >> /\ l.dms[p] = << >> /\ s.envs[p] = << >> /\ l.envs[p] = << >>
    BY DEF Empty, Nothing
  <1> QED BY <1>3, <1>4, <1>5, <1>6, ThreadEmpty, QueueEmpty

LEMMA PutDmStep ==
  ASSUME StoresInv, NEW p \in Peer, NEW b \in Body, PutDm(p, b)
  PROVE  StoresInv'
  <1>1. PICK row : row = [at |-> now, body |-> b]
    OBVIOUS
  <1>2. row \in DmRow
    <2>1. MaxTime \in Nat
      BY Limits
    <2>2. now \in Nat
      BY <2>1 DEF StoresInv
    <2> QED BY <1>1, <2>2 DEF DmRow
  <1>3. PICK kept : kept = Newest(InsertedRow(sql.dms[p], row), HistoryMax)
    OBVIOUS
  <1>4. PICK put : put = Append(log.dms[p], row)
    OBVIOUS
  <1>5. ThreadInv(kept, put)
    <2>1. ThreadInv(sql.dms[p], log.dms[p])
      BY DEF StoresInv
    <2> QED BY <1>2, <1>3, <1>4, <2>1, ThreadPut
  <1>6. mem.dms = sql.dms
    BY DEF StoresInv, SameRest
  <1>7. /\ mem' = [mem EXCEPT !.dms[p] = kept] /\ sql' = [sql EXCEPT !.dms[p] = kept]
        /\ log' = [log EXCEPT !.dms[p] = put] /\ now' = now
    BY <1>1, <1>3, <1>4, <1>6 DEF PutDm, mem_put_dm, sql_put_dm
  <1> QED BY <1>5, <1>7, ThreadStep

LEMMA DeleteDmsStep ==
  ASSUME StoresInv, NEW p \in Peer, NEW only \in BOOLEAN, DeleteDms(p, only)
  PROVE  StoresInv'
  <1>1. PICK K : K = {row \in ToSet(sql.dms[p]) : row.body # "control"}
    OBVIOUS
  <1>2. PICK kept : kept = IF only THEN Only(sql.dms[p], K) ELSE << >>
    OBVIOUS
  <1>3. ThreadInv(kept, kept)
    <2>1. ThreadInv(sql.dms[p], log.dms[p])
      BY DEF StoresInv
    <2>2. kept \in {Only(sql.dms[p], K), << >>}
      BY <1>2
    <2> QED BY <2>1, <2>2, ThreadLess
  <1>4. mem.dms = sql.dms /\ sql \in Contents
    BY DEF StoresInv, SameRest, Bounded
  <1>5. mem' = [mem EXCEPT !.dms[p] = kept] /\ sql' = [sql EXCEPT !.dms[p] = kept] /\ now' = now
    BY <1>1, <1>2, <1>4 DEF DeleteDms, delete_dms
  <1>6. log' = [log EXCEPT !.dms[p] = sql'.dms[p]]
    BY DEF DeleteDms
  <1>7. sql'.dms[p] = kept
    BY <1>4, <1>5 DEF Contents
  <1> QED BY <1>3, <1>5, <1>6, <1>7, ThreadStep

LEMMA QueueEnvelopeStep ==
  ASSUME StoresInv, NEW p \in Peer, QueueEnvelope(p)
  PROVE  StoresInv'
  <1>1. PICK e : e = [at |-> now, id |-> Len(log.envs[p]) + 1]
    OBVIOUS
  <1>2. now \in Nat /\ MaxTime \in Nat
    BY Limits DEF StoresInv
  <1>3. QueueInv(sql.envs[p], log.envs[p])
    BY DEF StoresInv
  <1>4. PICK K : K = {x \in ToSet(sql.envs[p]) : Younger(e.at, x.at, EnvelopeTtl)}
    OBVIOUS
  <1>5. K = {x \in ToSet(sql.envs[p]) : Within(e.at, x.at, EnvelopeTtl)}
    <2>1. sql.envs[p] \in Seq(EnvelopeRow)
      BY <1>3 DEF QueueInv
    <2>2. ASSUME NEW x \in ToSet(sql.envs[p])
          PROVE  Within(e.at, x.at, EnvelopeTtl) <=> Younger(e.at, x.at, EnvelopeTtl)
      <3>1. x.at \in Nat
        <4>1. ToSet(sql.envs[p]) \subseteq EnvelopeRow
          BY <2>1, InSeq
        <4>2. x \in EnvelopeRow
          BY <4>1
        <4> QED BY <4>2 DEF EnvelopeRow
      <3>2. e.at \in Nat
        BY <1>1, <1>2
      <3> QED BY <3>1, <3>2, SameAge, Limits
    <2> QED BY <1>4, <2>2
  <1>6. PICK held : held = Newest(Append(Only(sql.envs[p], K), e), EnvelopeMax)
    OBVIOUS
  <1>7. PICK queued : queued = Append(log.envs[p], e)
    OBVIOUS
  <1>8. QueueInv(held, queued)
    BY <1>1, <1>2, <1>3, <1>4, <1>6, <1>7, QueuePut
  <1>9. mem.envs = sql.envs
    BY DEF StoresInv, SameRest
  <1>10. QueueEnvelope(p) <=>
            /\ Spend("queue")
            /\ mem' = mem_queue_envelope(mem, p, e) /\ sql' = sql_queue_envelope(sql, p, e)
            /\ log' = [log EXCEPT !.envs[p] = Append(@, e)]
            /\ UNCHANGED now
    BY <1>1 DEF QueueEnvelope
  <1>11. sql' = [sql EXCEPT !.envs[p] = held]
    BY <1>4, <1>6, <1>10, Zenon DEF sql_queue_envelope
  <1>12. mem' = [mem EXCEPT !.envs[p] = held]
    <2>1. mem' = [mem EXCEPT !.envs[p] =
              Newest(Append(Only(mem.envs[p], {x \in ToSet(mem.envs[p]) : Within(e.at, x.at, EnvelopeTtl)}), e),
                     EnvelopeMax)]
      BY <1>10, Zenon DEF mem_queue_envelope
    <2> QED BY <1>5, <1>6, <1>9, <2>1, Zenon
  <1>13. log' = [log EXCEPT !.envs[p] = queued] /\ now' = now
    BY <1>7, <1>10
  <1> QED BY <1>8, <1>11, <1>12, <1>13, QueueStep

LEMMA TakeStep ==
  ASSUME StoresInv, NEW p \in Peer, TakeEnvelopes(p)
  PROVE  StoresInv'
  <1>1. PICK queued : queued = log.envs[p]
    OBVIOUS
  <1>2. QueueInv(sql.envs[p], log.envs[p])
    BY DEF StoresInv
  <1>3. QueueInv(<< >>, queued)
    BY <1>1, <1>2, QueueEmpty
  <1>4. mem' = [mem EXCEPT !.envs[p] = << >>] /\ sql' = [sql EXCEPT !.envs[p] = << >>] /\ now' = now /\ log' = log
    BY DEF TakeEnvelopes, take_envelopes
  <1>5. log = [log EXCEPT !.envs[p] = queued]
    BY <1>1 DEF StoresInv, LogT
  <1>6. log' = [log EXCEPT !.envs[p] = queued]
    BY <1>4, <1>5
  <1> QED BY <1>3, <1>4, <1>6, QueueStep

LEMMA StoresInit == Init => StoresInv
  <1> SUFFICES ASSUME Init PROVE StoresInv
    OBVIOUS
  <1>1. mem = Empty /\ sql = Empty /\ log = Nothing /\ now = 0
    BY DEF Init
  <1>2. now \in 0 .. MaxTime
    BY <1>1, Limits
  <1> QED BY <1>1, <1>2, EmptyInv DEF StoresInv

LEMMA StoresStep == StoresInv /\ [Next]_vars => StoresInv'
  <1> SUFFICES ASSUME StoresInv, [Next]_vars PROVE StoresInv'
    OBVIOUS
  <1>1. ASSUME NEW m \in Msg, PutChannelMessage(m)
        PROVE  StoresInv'
    <2>1. /\ mem' = mem_put_channel_message(mem, m) /\ sql' = sql_put_channel_message(sql, m)
          /\ now' = now /\ log' = log
      BY <1>1 DEF PutChannelMessage
    <2>2. Bounded(mem) /\ Bounded(sql) /\ SameRest(mem, sql) /\ (NoneTooOld => Alike(mem, sql))
      BY DEF StoresInv
    <2>3. /\ Bounded(mem') /\ Bounded(sql') /\ SameRest(mem', mem) /\ SameRest(sql', sql)
          /\ NoneTooOld /\ Alike(mem, sql) => Alike(mem', sql')
      BY <2>1, <2>2, PutChannel
    <2>4. SameRest(mem', sql') /\ sql'.dms = sql.dms /\ sql'.envs = sql.envs
      BY <2>2, <2>3 DEF SameRest
    <2> QED BY <2>1, <2>2, <2>3, <2>4 DEF StoresInv
  <1>2. ASSUME NEW p \in Peer, NEW r \in Trust, UpsertPeer(p, r)
        PROVE  StoresInv'
    <2>1. mem' = [mem EXCEPT !.peers[p] = r] /\ sql' = [sql EXCEPT !.peers[p] = r] /\ UNCHANGED <<now, log>>
      BY <1>2 DEF UpsertPeer, upsert_peer
    <2> QED BY <2>1, PeersStep
  <1>3. ASSUME NEW p \in Peer, DeletePeer(p)
        PROVE  StoresInv'
    <2>1. /\ mem' = [mem EXCEPT !.peers[p] = "none"] /\ sql' = [sql EXCEPT !.peers[p] = "none"]
          /\ UNCHANGED <<now, log>>
      BY <1>3 DEF DeletePeer, delete_peer
    <2>2. "none" \in Trust
      BY DEF Trust
    <2> QED BY <2>1, <2>2, PeersStep
  <1>4. ASSUME PanicWipe
        PROVE  StoresInv'
    <2>1. mem' = Empty /\ sql' = Empty /\ log' = Nothing /\ now' = now
      BY <1>4 DEF PanicWipe
    <2> QED BY <2>1, EmptyInv DEF StoresInv
  <1>5. ASSUME NEW t \in 0 .. MaxTime, SetClock(t)
        PROVE  StoresInv'
    BY <1>5 DEF SetClock, StoresInv
  <1>6. ASSUME UNCHANGED vars
        PROVE  StoresInv'
    BY <1>6 DEF vars, StoresInv
  <1> QED BY <1>1, <1>2, <1>3, <1>4, <1>5, <1>6, PutDmStep, DeleteDmsStep, QueueEnvelopeStep, TakeStep DEF Next

LEMMA StoresKept == Spec => []StoresInv
  BY StoresInit, StoresStep, PTL DEF Spec

\* Both stores hold rows of their tables, and never more than their limits.
THEOREM TypeCorrect == Spec => []TypeOK
  <1>1. StoresInv => TypeOK
    <2> SUFFICES ASSUME StoresInv PROVE TypeOK
      OBVIOUS
    <2>0. HistoryMax \in Nat /\ EnvelopeMax \in Nat
      BY Limits
    <2>1. mem \in Contents /\ sql \in Contents /\ Len(mem.chan) <= HistoryMax /\ Len(sql.chan) <= HistoryMax
      BY DEF StoresInv, Bounded
    <2>2. mem.dms = sql.dms /\ mem.envs = sql.envs
      BY DEF StoresInv, SameRest
    <2>3. ASSUME NEW p \in Peer
          PROVE  Len(sql.dms[p]) <= HistoryMax /\ Len(sql.envs[p]) <= EnvelopeMax
      <3>1. ThreadInv(sql.dms[p], log.dms[p]) /\ QueueInv(sql.envs[p], log.envs[p])
        BY DEF StoresInv
      <3>2. /\ log.dms[p] \in Seq(DmRow)
            /\ Len(sql.dms[p]) = IF Len(log.dms[p]) > HistoryMax THEN HistoryMax ELSE Len(log.dms[p])
        BY <3>1 DEF ThreadInv
      <3>3. Len(sql.dms[p]) <= HistoryMax
        BY <2>0, <3>2
      <3> QED BY <3>1, <3>3 DEF QueueInv
    <2>4. now \in 0 .. MaxTime
      BY DEF StoresInv
    <2> QED BY <2>1, <2>2, <2>3, <2>4 DEF TypeOK
  <1> QED BY <1>1, StoresKept, PTL

\* What is left of a thread are its newest rows, as many as the limit takes,
\* though users set the clock back between them.
THEOREM NewestTheorem == Spec => []NewestRowsKept
  <1>1. StoresInv => NewestRowsKept
    <2> SUFFICES ASSUME StoresInv PROVE NewestRowsKept
      OBVIOUS
    <2>1. ASSUME NEW p \in Peer, NEW kept, kept = sql.dms[p], NEW put, put = log.dms[p]
          PROVE  /\ ToSet(kept) \subseteq ToSet(put)
                 /\ Len(kept) = (IF Len(put) > HistoryMax THEN HistoryMax ELSE Len(put))
                 /\ \A row \in ToSet(put) \ ToSet(kept) :
                       \A k \in DOMAIN kept : row.at <= kept[k].at
      <3>1. ThreadInv(kept, put)
        BY <2>1 DEF StoresInv
      <3>2. kept \in Seq(DmRow)
        BY <3>1 DEF ThreadInv
      <3>3. \A k \in DOMAIN kept : kept[k] \in ToSet(kept)
        BY <3>2, InSeq
      <3> QED BY <3>1, <3>3 DEF ThreadInv
    <2> QED BY <2>1 DEF NewestRowsKept
  <1> QED BY <1>1, StoresKept, PTL

\* An envelope is lost only to age or to the bound, which takes the oldest first.
THEOREM HeldTheorem == Spec => []EnvelopesHeld
  <1>1. StoresInv => EnvelopesHeld
    <2> SUFFICES ASSUME StoresInv PROVE EnvelopesHeld
      OBVIOUS
    <2>1. ASSUME NEW p \in Peer, NEW held, held = sql.envs[p], NEW queued, queued = log.envs[p]
          PROVE  /\ \A i, j \in DOMAIN held : i < j => held[i].id < held[j].id
                 /\ held # << >> =>
                      \A e \in ToSet(queued) \ ToSet(held) :
                          e.id > held[1].id =>
                              \E f \in ToSet(queued) : /\ f.id > e.id
                                                       /\ ~Younger(f.at, e.at, EnvelopeTtl)
      <3>1. QueueInv(held, queued)
        BY <2>1 DEF StoresInv
      <3>2. held \in Seq(EnvelopeRow) /\ Ordered(held, IdOrder)
        BY <3>1 DEF QueueInv
      <3>3. \A i, j \in DOMAIN held : i < j => <<held[i], held[j]>> \in IdOrder
        BY <3>2 DEF Ordered
      <3>4. \A x, y : <<x, y>> \in IdOrder => x.id < y.id
        BY DEF IdOrder
      <3> QED BY <3>1, <3>3, <3>4 DEF QueueInv, Expired
    <2> QED BY <2>1 DEF EnvelopesHeld
  <1> QED BY <1>1, StoresKept, PTL

\* The two stores answer every query alike, as long as no message is so much newer
\* than another that the history drops one by age: MemoryStore keeps the digest of
\* a message that goes by age, SqliteStore does not.
THEOREM AgreeTheorem == NoneTooOld => (Spec => []StoresAgree)
  <1>1. NoneTooOld /\ StoresInv => StoresAgree
    BY DEF StoresInv, Alike, SameRest, StoresAgree, has_message
  <1>2. ASSUME NoneTooOld
        PROVE  Spec => []StoresAgree
    <2>1. StoresInv => StoresAgree
      BY <1>1, <1>2
    <2> QED BY <2>1, StoresKept, PTL
  <1> QED BY <1>2

\* Peers, threads and envelopes are the same in both, whatever the messages are.
THEOREM RestTheorem == Spec => [](mem.peers = sql.peers /\ mem.dms = sql.dms /\ mem.envs = sql.envs)
  <1>1. StoresInv => mem.peers = sql.peers /\ mem.dms = sql.dms /\ mem.envs = sql.envs
    BY DEF StoresInv, SameRest
  <1> QED BY <1>1, StoresKept, PTL

=============================================================================

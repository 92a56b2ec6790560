-------------------------- MODULE ControllerProofs --------------------------
(***************************************************************************)
(* Proofs about AppController, for any peers and any constants.            *)
(***************************************************************************)
EXTENDS AppController, FiniteSetTheorems, WellFoundedInduction, TLAPS

LEMMA LeastNat ==
  ASSUME NEW T, T \subseteq Nat, T # {}
  PROVE  \E x \in T : \A y \in T : x <= y
  <1>1. PICK x \in T : \A y \in T : ~(<<y, x>> \in OpToRel(<, Nat))
    BY NatLessThanWellFounded, WFMin
  <1>2. \A y \in T : ~(y < x)
    BY <1>1 DEF OpToRel
  <1> QED BY <1>2

\* Induction along 0 .. N for a set of numbers.
LEMMA UpTo ==
  ASSUME NEW N \in Nat, NEW S, 0 \in S,
         \A k \in 1 .. N : k - 1 \in S => k \in S
  PROVE  \A k \in 0 .. N : k \in S
  <1> SUFFICES ASSUME {k \in 0 .. N : k \notin S} # {} PROVE FALSE
    OBVIOUS
  <1> DEFINE T == {k \in 0 .. N : k \notin S}
  <1>1. T \subseteq Nat /\ T # {}
    OBVIOUS
  <1> HIDE DEF T
  <1>2. PICK m \in T : \A y \in T : m <= y
    BY <1>1, LeastNat
  <1>3. m \in 1 .. N /\ m - 1 \in 0 .. N /\ m \notin S
    BY <1>2 DEF T
  <1>4. m - 1 \in S
    BY <1>2, <1>3 DEF T
  <1> QED BY <1>3, <1>4

-----------------------------------------------------------------------------
(***************************************************************************)
(* The recursive functions of the model.                                   *)
(***************************************************************************)
LEMMA ShownAllSteps ==
  ASSUME NEW u, NEW evs, NEW r, NEW N \in Nat, N = Len(evs)
  PROVE  \E f : /\ f[0] = u
                /\ \A k \in 1 .. N : f[k] = Shown(f[k - 1], evs[k], r)
                /\ f[N] = ShownAll(u, evs, r)
  <1> DEFINE IsF(g, n) == g = [k \in 0 .. n |-> IF k = 0 THEN u ELSE Shown(g[k - 1], evs[k], r)]
             S == {n \in Nat : \E g : IsF(g, n)}
  <1>1. 0 \in S
    <2> DEFINE g == [k \in 0 .. 0 |-> u]
    <2>1. g = [k \in 0 .. 0 |-> IF k = 0 THEN u ELSE Shown(g[k - 1], evs[k], r)]
      OBVIOUS
    <2>2. IsF(g, 0)
      BY <2>1
    <2> QED BY <2>2
  <1>2. ASSUME NEW n \in 1 .. N, n - 1 \in S
        PROVE  n \in S
    <2>1. PICK g : IsF(g, n - 1)
      BY <1>2
    <2> DEFINE h == [k \in 0 .. n |-> IF k = n THEN Shown(g[n - 1], evs[n], r) ELSE g[k]]
    <2>2. \A k \in 0 .. n - 1 : g[k] = IF k = 0 THEN u ELSE Shown(g[k - 1], evs[k], r)
      BY <2>1
    <2>3. ASSUME NEW k \in 0 .. n
          PROVE  h[k] = IF k = 0 THEN u ELSE Shown(h[k - 1], evs[k], r)
      <3>1. CASE k = n
        <4>1. n - 1 \in 0 .. n /\ n - 1 # n /\ n # 0
          OBVIOUS
        <4>2. h[n - 1] = g[n - 1]
          BY <4>1
        <4> QED BY <3>1, <4>1, <4>2
      <3>2. CASE k # n
        <4>1. k \in 0 .. n - 1 /\ h[k] = g[k]
          BY <3>2
        <4>2. CASE k = 0
          BY <2>2, <4>1, <4>2
        <4>3. CASE k # 0
          <5>1. k - 1 \in 0 .. n /\ k - 1 # n
            BY <4>1, <4>3
          <5>2. h[k - 1] = g[k - 1]
            BY <5>1
          <5> QED BY <2>2, <4>1, <4>3, <5>2
        <4> QED BY <4>2, <4>3
      <3> QED BY <3>1, <3>2
    <2>4. h = [k \in 0 .. n |-> h[k]]
      OBVIOUS
    <2> HIDE DEF h
    <2>5. IsF(h, n)
      BY <2>3, <2>4
    <2> QED BY <2>5
  <1>3. N \in S
    <2> HIDE DEF S
    <2>1. \A k \in 1 .. N : k - 1 \in S => k \in S
      BY <1>2
    <2>2. \A k \in 0 .. N : k \in S
      BY <1>1, <2>1, UpTo
    <2> QED BY <2>2
  <1>4. PICK g : g = [k \in 0 .. N |-> IF k = 0 THEN u ELSE Shown(g[k - 1], evs[k], r)]
    BY <1>3
  <1> DEFINE f == CHOOSE z : z = [k \in 0 .. N |-> IF k = 0 THEN u ELSE Shown(z[k - 1], evs[k], r)]
  <1>5. f = [k \in 0 .. N |-> IF k = 0 THEN u ELSE Shown(f[k - 1], evs[k], r)]
    BY <1>4
  <1>6. f[N] = ShownAll(u, evs, r)
    BY DEF ShownAll
  <1> HIDE DEF f
  <1>7. f[0] = u /\ \A k \in 1 .. N : f[k] = Shown(f[k - 1], evs[k], r)
    BY <1>5
  <1> QED BY <1>6, <1>7

OneMore(t, x, K) == IF x \in K THEN Append(t, x) ELSE t

LEMMA OnlySteps ==
  ASSUME NEW s, NEW K, NEW N \in Nat, N = Len(s)
  PROVE  \E f : /\ f[0] = << >>
                /\ \A k \in 1 .. N : f[k] = OneMore(f[k - 1], s[k], K)
                /\ f[N] = Only(s, K)
  <1> DEFINE IsF(g, n) == g = [k \in 0 .. n |-> IF k = 0 THEN << >> ELSE OneMore(g[k - 1], s[k], K)]
             S == {n \in Nat : \E g : IsF(g, n)}
  <1>1. 0 \in S
    <2> DEFINE g == [k \in 0 .. 0 |-> << >>]
    <2>1. g = [k \in 0 .. 0 |-> IF k = 0 THEN << >> ELSE OneMore(g[k - 1], s[k], K)]
      OBVIOUS
    <2>2. IsF(g, 0)
      BY <2>1
    <2> QED BY <2>2
  <1>2. ASSUME NEW n \in 1 .. N, n - 1 \in S
        PROVE  n \in S
    <2>1. PICK g : IsF(g, n - 1)
      BY <1>2
    <2> DEFINE h == [k \in 0 .. n |-> IF k = n THEN OneMore(g[n - 1], s[n], K) ELSE g[k]]
    <2>2. \A k \in 0 .. n - 1 : g[k] = IF k = 0 THEN << >> ELSE OneMore(g[k - 1], s[k], K)
      BY <2>1
    <2>3. ASSUME NEW k \in 0 .. n
          PROVE  h[k] = IF k = 0 THEN << >> ELSE OneMore(h[k - 1], s[k], K)
      <3>1. CASE k = n
        <4>1. n - 1 \in 0 .. n /\ n - 1 # n /\ n # 0
          OBVIOUS
        <4>2. h[n - 1] = g[n - 1]
          BY <4>1
        <4> QED BY <3>1, <4>1, <4>2
      <3>2. CASE k # n
        <4>1. k \in 0 .. n - 1 /\ h[k] = g[k]
          BY <3>2
        <4>2. CASE k = 0
          BY <2>2, <4>1, <4>2
        <4>3. CASE k # 0
          <5>1. k - 1 \in 0 .. n /\ k - 1 # n
            BY <4>1, <4>3
          <5>2. h[k - 1] = g[k - 1]
            BY <5>1
          <5> QED BY <2>2, <4>1, <4>3, <5>2
        <4> QED BY <4>2, <4>3
      <3> QED BY <3>1, <3>2
    <2>4. h = [k \in 0 .. n |-> h[k]]
      OBVIOUS
    <2> HIDE DEF h
    <2>5. IsF(h, n)
      BY <2>3, <2>4
    <2> QED BY <2>5
  <1>3. N \in S
    <2> HIDE DEF S
    <2>1. \A k \in 1 .. N : k - 1 \in S => k \in S
      BY <1>2
    <2>2. \A k \in 0 .. N : k \in S
      BY <1>1, <2>1, UpTo
    <2> QED BY <2>2
  <1>4. PICK g : g = [k \in 0 .. N |-> IF k = 0 THEN << >> ELSE OneMore(g[k - 1], s[k], K)]
    BY <1>3
  <1> DEFINE f == CHOOSE z : z = [k \in 0 .. N |-> IF k = 0 THEN << >> ELSE OneMore(z[k - 1], s[k], K)]
  <1>5. f = [k \in 0 .. N |-> IF k = 0 THEN << >> ELSE OneMore(f[k - 1], s[k], K)]
    BY <1>4
  <1>6. f[N] = Only(s, K)
    BY DEF Only, OneMore
  <1> HIDE DEF f
  <1>7. f[0] = << >> /\ \A k \in 1 .. N : f[k] = OneMore(f[k - 1], s[k], K)
    BY <1>5
  <1> QED BY <1>6, <1>7

-----------------------------------------------------------------------------
(***************************************************************************)
(* Sequences as sets of elements.                                          *)
(***************************************************************************)
LEMMA InSeq ==
  ASSUME NEW X, NEW s \in Seq(X)
  PROVE  /\ ToSet(s) \subseteq X
         /\ \A x : x \in ToSet(s) <=> \E k \in 1 .. Len(s) : s[k] = x
  BY DEF ToSet

LEMMA AppendSet ==
  ASSUME NEW X, NEW s \in Seq(X), NEW x \in X
  PROVE  Append(s, x) \in Seq(X) /\ ToSet(Append(s, x)) = ToSet(s) \cup {x}
  <1> PICK N \in Nat : N = Len(s)
    OBVIOUS
  <1>0. PICK t : t = Append(s, x)
    OBVIOUS
  <1>1. t \in Seq(X) /\ Len(t) = N + 1 /\ t[N + 1] = x /\ \A k \in 1 .. N : t[k] = s[k]
    BY <1>0
  <1>2. \A k \in 1 .. N + 1 : k = N + 1 \/ k \in 1 .. N
    OBVIOUS
  <1>3. \A y : y \in ToSet(s) <=> \E k \in 1 .. N : s[k] = y
    BY InSeq
  <1>4. \A y : y \in ToSet(t) <=> \E k \in 1 .. N + 1 : t[k] = y
    BY <1>1, InSeq
  <1>5. \A y : y \in ToSet(t) <=> y = x \/ y \in ToSet(s)
    BY <1>1, <1>2, <1>3, <1>4
  <1> QED BY <1>0, <1>1, <1>5

LEMMA JoinSet ==
  ASSUME NEW X, NEW s \in Seq(X), NEW t \in Seq(X)
  PROVE  s \o t \in Seq(X) /\ ToSet(s \o t) = ToSet(s) \cup ToSet(t)
  <1> PICK N \in Nat : N = Len(s)
    OBVIOUS
  <1> PICK M \in Nat : M = Len(t)
    OBVIOUS
  <1>0. PICK q : q = s \o t
    OBVIOUS
  <1>1. /\ q \in Seq(X) /\ Len(q) = N + M /\ \A k \in 1 .. N : q[k] = s[k]
        /\ \A k \in 1 .. M : q[N + k] = t[k]
    BY <1>0
  <1>2. \A k \in 1 .. N + M : k \in 1 .. N \/ (k - N \in 1 .. M /\ k = N + (k - N))
    OBVIOUS
  <1>3. /\ \A k \in 1 .. N : k \in 1 .. N + M
        /\ \A k \in 1 .. M : N + k \in 1 .. N + M
    OBVIOUS
  <1>4. /\ \A y : y \in ToSet(s) <=> \E k \in 1 .. N : s[k] = y
        /\ \A y : y \in ToSet(t) <=> \E k \in 1 .. M : t[k] = y
        /\ \A y : y \in ToSet(q) <=> \E k \in 1 .. N + M : q[k] = y
    <2>1. \A y : y \in ToSet(s) <=> \E k \in 1 .. N : s[k] = y
      BY InSeq
    <2>2. \A y : y \in ToSet(t) <=> \E k \in 1 .. M : t[k] = y
      BY InSeq
    <2>3. \A y : y \in ToSet(q) <=> \E k \in 1 .. N + M : q[k] = y
      <3>1. q \in Seq(X) /\ Len(q) = N + M
        BY <1>1
      <3>2. \A y : y \in ToSet(q) <=> \E k \in 1 .. Len(q) : q[k] = y
        BY <3>1, InSeq, Zenon
      <3> QED BY <3>1, <3>2
    <2> QED BY <2>1, <2>2, <2>3
  <1>5. ASSUME NEW y \in ToSet(q)
        PROVE  y \in ToSet(s) \/ y \in ToSet(t)
    <2>1. PICK k \in 1 .. N + M : q[k] = y
      BY <1>4
    <2>2. CASE k \in 1 .. N
      BY <1>1, <1>4, <2>1, <2>2
    <2>3. CASE k - N \in 1 .. M /\ k = N + (k - N)
      <3>1. PICK j \in 1 .. M : k = N + j
        BY <2>3
      <3>2. t[j] = y
        BY <1>1, <2>1, <3>1
      <3> QED BY <1>4, <3>2
    <2> QED BY <1>2, <2>2, <2>3
  <1>6. \A y \in ToSet(s) : y \in ToSet(q)
    BY <1>1, <1>3, <1>4
  <1>7. \A y \in ToSet(t) : y \in ToSet(q)
    BY <1>1, <1>3, <1>4
  <1>8. ToSet(q) = ToSet(s) \cup ToSet(t)
    BY <1>5, <1>6, <1>7
  <1> QED BY <1>0, <1>1, <1>8

LEMMA EmptySet ==
  ASSUME NEW X
  PROVE  << >> \in Seq(X) /\ ToSet(<< >>) = {}
  BY DEF ToSet

LEMMA OneSet ==
  ASSUME NEW X, NEW x \in X
  PROVE  <<x>> \in Seq(X) /\ ToSet(<<x>>) = {x}
  BY DEF ToSet

LEMMA NewestSet ==
  ASSUME NEW X, NEW s \in Seq(X)
  PROVE  Newest(s) \in Seq(X) /\ ToSet(Newest(s)) \subseteq ToSet(s)
  <1> PICK N \in Nat : N = Len(s)
    OBVIOUS
  <1> PICK t : t = Newest(s)
    OBVIOUS
  <1>0. Limit \in Nat /\ Limit > 0
    BY ParameterAssumption
  <1>1. CASE N <= Limit
    BY <1>0, <1>1 DEF Newest
  <1>2. CASE N > Limit
    <2>0. N - Limit \in Nat
      BY <1>0, <1>2
    <2> PICK d \in Nat : d = N - Limit
      BY <2>0
    <2>1. t = SubSeq(s, d + 1, N)
      BY <1>0, <1>2 DEF Newest
    <2>2. /\ t \in Seq(X) /\ Len(t) = N - d
          /\ \A k \in 1 .. N - d : t[k] = s[k + d] /\ k + d \in 1 .. N
      BY <1>0, <1>2, <2>1
    <2>3. ASSUME NEW y \in ToSet(t)
          PROVE  y \in ToSet(s)
      <3>1. PICK k \in 1 .. N - d : t[k] = y
        BY <2>2, InSeq
      <3>2. s[k + d] = y /\ k + d \in 1 .. N
        BY <2>2, <3>1
      <3> QED BY <3>2, InSeq
    <2> QED BY <2>2, <2>3
  <1> QED BY <1>0, <1>1, <1>2

LEMMA OnlySet ==
  ASSUME NEW X, NEW s \in Seq(X), NEW K
  PROVE  Only(s, K) \in Seq(X) /\ ToSet(Only(s, K)) \subseteq ToSet(s) \cap K
  <1> PICK N \in Nat : N = Len(s)
    OBVIOUS
  <1>1. PICK f : /\ f[0] = << >> /\ f[N] = Only(s, K)
                 /\ \A k \in 1 .. N : f[k] = OneMore(f[k - 1], s[k], K)
    BY OnlySteps
  <1> DEFINE S == {k \in 0 .. N : f[k] \in Seq(X) /\ ToSet(f[k]) \subseteq ToSet(s) \cap K}
  <1>2. 0 \in S
    <2>1. << >> \in Seq(X) /\ ToSet(<< >>) = {}
      BY EmptySet
    <2>2. f[0] \in Seq(X) /\ ToSet(f[0]) \subseteq ToSet(s) \cap K /\ 0 \in 0 .. N
      BY <1>1, <2>1
    <2> QED BY <2>2
  <1>3. ASSUME NEW k \in 1 .. N, k - 1 \in S
        PROVE  k \in S
    <2> PICK t : t = f[k - 1]
      OBVIOUS
    <2>1. t \in Seq(X) /\ ToSet(t) \subseteq ToSet(s) \cap K
      BY <1>3
    <2>2. s[k] \in X /\ s[k] \in ToSet(s)
      BY InSeq
    <2>3. s[k] \in K => Append(t, s[k]) \in Seq(X) /\ ToSet(Append(t, s[k])) \subseteq ToSet(s) \cap K
      BY <2>1, <2>2, AppendSet
    <2>4. f[k] = t \/ (s[k] \in K /\ f[k] = Append(t, s[k]))
      BY <1>1 DEF OneMore
    <2>5. f[k] \in Seq(X) /\ ToSet(f[k]) \subseteq ToSet(s) \cap K
      <3>1. CASE f[k] = t
        BY <2>1, <3>1, Zenon
      <3>2. CASE s[k] \in K /\ f[k] = Append(t, s[k])
        BY <2>3, <3>2, Zenon
      <3> QED BY <2>4, <3>1, <3>2
    <2>6. k \in 0 .. N
      OBVIOUS
    <2> QED BY <2>5, <2>6
  <1>4. \A k \in 0 .. N : k \in S
    <2> HIDE DEF S
    <2>1. \A k \in 1 .. N : k - 1 \in S => k \in S
      BY <1>3
    <2> QED BY <1>2, <2>1, UpTo
  <1> QED BY <1>1, <1>4

-----------------------------------------------------------------------------
(***************************************************************************)
(* Types.                                                                  *)
(***************************************************************************)
Kind == {"text", "notice", "ack", "changed"}
RowT == [mine : BOOLEAN, kind : Kind, text : Nat]
Partial(V) == UNION {[D -> V] : D \in SUBSET Peer}
Rows == [Peer -> Seq(RowT)]
Feeds == [Channel -> Seq(Nat)]
StoreT == [verified : Partial(BOOLEAN), dms : Rows, held : [Peer -> Seq(Nat)], chan : Feeds]
BadgeT == [verified : BOOLEAN, confirmed : BOOLEAN, keyChanged : BOOLEAN]
UiT == [peers : Partial(BadgeT), threads : Rows, feed : Feeds]
EventT == {e \in [type : {"message", "appeared", "session", "dm", "changed"},
                  peer : Peer \cup Channel, kind : Kind, text : Nat] :
              IF e.type = "message" THEN e.peer \in Channel ELSE e.peer \in Peer}
NodeT == [where : {"db", "memory"}, mem : StoreT, events : Seq(EventT),
          known : SUBSET Peer, dh : [Peer -> 0 .. 2], ready : SUBSET Peer, owed : SUBSET Peer,
          again : SUBSET Nat]

LEMMA PartialMeans ==
  ASSUME NEW V, NEW f
  PROVE  f \in Partial(V) <=> DOMAIN f \subseteq Peer /\ f \in [DOMAIN f -> V]
  BY DEF Partial

LEMMA PartialWith ==
  ASSUME NEW V, NEW f \in Partial(V), NEW p \in Peer, NEW v \in V
  PROVE  /\ With(f, p, v) \in Partial(V)
         /\ DOMAIN With(f, p, v) = DOMAIN f \cup {p}
         /\ With(f, p, v)[p] = v
         /\ \A q \in DOMAIN f : q # p => With(f, p, v)[q] = f[q]
  <1>1. DOMAIN f \subseteq Peer /\ f \in [DOMAIN f -> V]
    BY PartialMeans
  <1>2. /\ DOMAIN With(f, p, v) = DOMAIN f \cup {p}
        /\ With(f, p, v)[p] = v
        /\ \A q \in DOMAIN f : q # p => With(f, p, v)[q] = f[q]
    BY DEF With
  <1>3. With(f, p, v) \in [DOMAIN f \cup {p} -> V]
    BY <1>1 DEF With
  <1> QED BY <1>1, <1>2, <1>3, PartialMeans

LEMMA VerifiedWith ==
  ASSUME NEW f \in Partial(BOOLEAN), NEW p \in Peer
  PROVE  /\ With(f, p, FALSE) \in Partial(BOOLEAN)
         /\ DOMAIN With(f, p, FALSE) = DOMAIN f \cup {p}
         /\ With(f, p, FALSE)[p] = FALSE
         /\ \A q \in DOMAIN f : q # p => With(f, p, FALSE)[q] = f[q]
  <1>1. DOMAIN f \subseteq Peer /\ f \in [DOMAIN f -> BOOLEAN]
    BY PartialMeans
  <1>2. /\ DOMAIN With(f, p, FALSE) = DOMAIN f \cup {p}
        /\ With(f, p, FALSE)[p] = FALSE
        /\ \A q \in DOMAIN f : q # p => With(f, p, FALSE)[q] = f[q]
    BY DEF With
  <1>3. With(f, p, FALSE) \in [DOMAIN f \cup {p} -> BOOLEAN]
    BY <1>1 DEF With
  <1> QED BY <1>1, <1>2, <1>3, PartialMeans

LEMMA PartialWithout ==
  ASSUME NEW V, NEW f \in Partial(V), NEW p
  PROVE  /\ Without(f, p) \in Partial(V)
         /\ DOMAIN Without(f, p) = DOMAIN f \ {p}
         /\ \A q \in DOMAIN f : q # p => Without(f, p)[q] = f[q]
  <1>1. DOMAIN f \subseteq Peer /\ f \in [DOMAIN f -> V]
    BY PartialMeans
  <1>2. /\ DOMAIN Without(f, p) = DOMAIN f \ {p}
        /\ \A q \in DOMAIN f : q # p => Without(f, p)[q] = f[q]
    BY DEF Without
  <1>3. Without(f, p) \in [DOMAIN f \ {p} -> V]
    BY <1>1 DEF Without
  <1> QED BY <1>1, <1>2, <1>3, PartialMeans

LEMMA PartialValue ==
  ASSUME NEW V, NEW f \in Partial(V), NEW p \in DOMAIN f
  PROVE  p \in Peer /\ f[p] \in V
  BY PartialMeans

LEMMA BadgeOr ==
  ASSUME NEW a \in BadgeT, NEW b \in BadgeT
  PROVE  [k \in DOMAIN b |-> a[k] \/ b[k]]
            = Badge(a.verified \/ b.verified, a.confirmed \/ b.confirmed, a.keyChanged \/ b.keyChanged)
  <1>1. /\ DOMAIN b = {"verified", "confirmed", "keyChanged"}
    BY DEF BadgeT
  <1>2. /\ a["verified"] = a.verified /\ a["confirmed"] = a.confirmed /\ a["keyChanged"] = a.keyChanged
        /\ b["verified"] = b.verified /\ b["confirmed"] = b.confirmed /\ b["keyChanged"] = b.keyChanged
    OBVIOUS
  <1> QED BY <1>1, <1>2 DEF Badge

-----------------------------------------------------------------------------
(***************************************************************************)
(* Which texts are where.  W is a set of texts, without the 0 of the rows  *)
(* that hold none.  What one handler makes of a store, a queue and the     *)
(* screen holds texts of theirs or the new ones X.                         *)
(***************************************************************************)
ClearRows(f, W) == \A p \in Peer : \A row \in ToSet(f[p]) : row.text \notin W
ClearHeld(f, W) == \A p \in Peer : \A x \in ToSet(f[p]) : x \notin W
ClearFeeds(f, W) == \A c \in Channel : \A x \in ToSet(f[c]) : x \notin W

Clear(r, W) == ClearRows(r.dms, W) /\ ClearHeld(r.held, W) /\ ClearFeeds(r.chan, W)
ClearUi(u, W) == ClearRows(u.threads, W) /\ ClearFeeds(u.feed, W)
ClearEvents(evs, W) == \A e \in ToSet(evs) : e.text \notin W

Others(W, X) == 0 \notin W /\ W \cap X = {}

From(r, s, X) == /\ s \in StoreT
                 /\ \A W : Others(W, X) /\ Clear(r, W) => Clear(s, W)

LEMMA FromSame ==
  ASSUME NEW r \in StoreT, NEW X
  PROVE  From(r, r, X)
  BY DEF From

LEMMA FromTrans ==
  ASSUME NEW r, NEW s, NEW t, NEW X, From(r, s, X), From(s, t, X)
  PROVE  From(r, t, X)
  BY DEF From

\* One thread is replaced.
LEMMA RowsSet ==
  ASSUME NEW f \in Rows, NEW p \in Peer, NEW s \in Seq(RowT)
  PROVE  /\ [f EXCEPT ![p] = s] \in Rows
         /\ \A W : ClearRows(f, W) /\ (\A row \in ToSet(s) : row.text \notin W)
               => ClearRows([f EXCEPT ![p] = s], W)
  <1>1. PICK g : g = [f EXCEPT ![p] = s]
    OBVIOUS
  <1>2. g \in Rows /\ g[p] = s /\ \A q \in Peer : q # p => g[q] = f[q]
    BY <1>1 DEF Rows
  <1>3. \A W : ClearRows(f, W) /\ (\A row \in ToSet(s) : row.text \notin W) => ClearRows(g, W)
    BY <1>2 DEF ClearRows
  <1> QED BY <1>1, <1>2, <1>3

LEMMA HeldSet ==
  ASSUME NEW f \in [Peer -> Seq(Nat)], NEW p \in Peer, NEW s \in Seq(Nat)
  PROVE  /\ [f EXCEPT ![p] = s] \in [Peer -> Seq(Nat)]
         /\ \A W : ClearHeld(f, W) /\ (\A x \in ToSet(s) : x \notin W)
               => ClearHeld([f EXCEPT ![p] = s], W)
  <1>1. PICK g : g = [f EXCEPT ![p] = s]
    OBVIOUS
  <1>2. g \in [Peer -> Seq(Nat)] /\ g[p] = s /\ \A q \in Peer : q # p => g[q] = f[q]
    BY <1>1
  <1>3. \A W : ClearHeld(f, W) /\ (\A x \in ToSet(s) : x \notin W) => ClearHeld(g, W)
    BY <1>2 DEF ClearHeld
  <1> QED BY <1>1, <1>2, <1>3

LEMMA FeedSet ==
  ASSUME NEW f \in Feeds, NEW c \in Channel, NEW s \in Seq(Nat)
  PROVE  /\ [f EXCEPT ![c] = s] \in Feeds
         /\ \A W : ClearFeeds(f, W) /\ (\A x \in ToSet(s) : x \notin W)
               => ClearFeeds([f EXCEPT ![c] = s], W)
  <1>1. PICK g : g = [f EXCEPT ![c] = s]
    OBVIOUS
  <1>2. g \in Feeds /\ g[c] = s /\ \A q \in Channel : q # c => g[q] = f[q]
    BY <1>1 DEF Feeds
  <1>3. \A W : ClearFeeds(f, W) /\ (\A x \in ToSet(s) : x \notin W) => ClearFeeds(g, W)
    BY <1>2 DEF ClearFeeds
  <1> QED BY <1>1, <1>2, <1>3

\* A store whose threads are replaced by f.
WithDms(r, f) == [r EXCEPT !.dms = f]
WithHeld(r, f) == [r EXCEPT !.held = f]
WithChan(r, f) == [r EXCEPT !.chan = f]
WithVerified(r, f) == [r EXCEPT !.verified = f]

LEMMA StoreFields ==
  ASSUME NEW r \in StoreT
  PROVE  /\ r.verified \in Partial(BOOLEAN) /\ r.dms \in Rows /\ r.held \in [Peer -> Seq(Nat)]
         /\ r.chan \in Feeds
  BY DEF StoreT

LEMMA StoreSet ==
  ASSUME NEW r \in StoreT
  PROVE  /\ \A f \in Rows : /\ WithDms(r, f) \in StoreT /\ WithDms(r, f).dms = f
                            /\ WithDms(r, f).held = r.held /\ WithDms(r, f).chan = r.chan
                            /\ WithDms(r, f).verified = r.verified
         /\ \A f \in [Peer -> Seq(Nat)] :
                            /\ WithHeld(r, f) \in StoreT /\ WithHeld(r, f).dms = r.dms
                            /\ WithHeld(r, f).held = f /\ WithHeld(r, f).chan = r.chan
                            /\ WithHeld(r, f).verified = r.verified
         /\ \A f \in Feeds : /\ WithChan(r, f) \in StoreT /\ WithChan(r, f).dms = r.dms
                             /\ WithChan(r, f).held = r.held /\ WithChan(r, f).chan = f
                             /\ WithChan(r, f).verified = r.verified
         /\ \A f \in Partial(BOOLEAN) :
                             /\ WithVerified(r, f) \in StoreT /\ WithVerified(r, f).dms = r.dms
                             /\ WithVerified(r, f).held = r.held /\ WithVerified(r, f).chan = r.chan
                             /\ WithVerified(r, f).verified = f
  BY DEF StoreT, WithDms, WithHeld, WithChan, WithVerified

LEMMA ThreadSet ==
  ASSUME NEW r \in StoreT, NEW p \in Peer, NEW s \in Seq(RowT), NEW X,
         \A row \in ToSet(s) : row \in ToSet(r.dms[p]) \/ row.text \in X \cup {0}
  PROVE  /\ From(r, WithDms(r, [r.dms EXCEPT ![p] = s]), X)
         /\ WithDms(r, [r.dms EXCEPT ![p] = s]).verified = r.verified
  <1>1. PICK f : f = [r.dms EXCEPT ![p] = s]
    OBVIOUS
  <1>2. r.dms \in Rows
    BY StoreFields
  <1>3. f \in Rows /\ \A W : ClearRows(r.dms, W) /\ (\A row \in ToSet(s) : row.text \notin W)
                                => ClearRows(f, W)
    BY <1>1, <1>2, RowsSet
  <1>4. PICK t : t = WithDms(r, f)
    OBVIOUS
  <1>5. /\ t \in StoreT /\ t.dms = f /\ t.held = r.held /\ t.chan = r.chan
        /\ t.verified = r.verified
    BY <1>3, <1>4, StoreSet
  <1>6. ASSUME NEW W, Others(W, X), Clear(r, W)
        PROVE  Clear(t, W)
    <2>1. ClearRows(r.dms, W) /\ ClearHeld(r.held, W) /\ ClearFeeds(r.chan, W)
      BY <1>6 DEF Clear
    <2>2. \A row \in ToSet(s) : row.text \notin W
      BY <1>6, <2>1 DEF Others, ClearRows
    <2>3. ClearRows(f, W)
      BY <1>3, <2>1, <2>2
    <2> QED BY <1>5, <2>1, <2>3 DEF Clear
  <1>7. From(r, t, X)
    BY <1>5, <1>6 DEF From
  <1> QED BY <1>1, <1>4, <1>5, <1>7

LEMMA PutDm ==
  ASSUME NEW r \in StoreT, NEW p \in Peer, NEW row \in RowT, NEW X, row.text \in X \cup {0}
  PROVE  /\ From(r, put_dm(r, p, row), X)
         /\ put_dm(r, p, row) \in StoreT
         /\ put_dm(r, p, row).verified = r.verified
         /\ put_dm(r, p, row).held = r.held /\ put_dm(r, p, row).chan = r.chan
         /\ put_dm(r, p, row).dms = [r.dms EXCEPT ![p] = Append(r.dms[p], row)]
  <1>1. r.dms[p] \in Seq(RowT) /\ r.dms \in Rows
    BY StoreFields DEF Rows
  <1>2. PICK s : s = Append(r.dms[p], row)
    OBVIOUS
  <1>3. s \in Seq(RowT) /\ ToSet(s) = ToSet(r.dms[p]) \cup {row}
    BY <1>1, <1>2, AppendSet
  <1>4. PICK f : f = [r.dms EXCEPT ![p] = s]
    OBVIOUS
  <1>5. f \in Rows
    BY <1>1, <1>3, <1>4, RowsSet
  <1>6. put_dm(r, p, row) = WithDms(r, f)
    BY <1>2, <1>4 DEF put_dm, WithDms, StoreT
  <1>7. From(r, WithDms(r, f), X) /\ WithDms(r, f).verified = r.verified
    BY <1>3, <1>4, ThreadSet
  <1>8. /\ WithDms(r, f).dms = f /\ WithDms(r, f).held = r.held /\ WithDms(r, f).chan = r.chan
        /\ WithDms(r, f) \in StoreT
    BY <1>5, StoreSet
  <1> QED BY <1>2, <1>4, <1>6, <1>7, <1>8

LEMMA PurgeFacts ==
  ASSUME NEW r \in StoreT, NEW p \in Peer
  PROVE  /\ From(r, purge(r, p), {})
         /\ purge(r, p) \in StoreT
         /\ purge(r, p).verified = r.verified
         /\ purge(r, p).held = r.held /\ purge(r, p).chan = r.chan
         /\ \A row \in ToSet(purge(r, p).dms[p]) : row \in ToSet(r.dms[p]) /\ ~Control(row)
         /\ purge(r, p).dms = [r.dms EXCEPT ![p] = Only(r.dms[p], {x \in ToSet(r.dms[p]) : ~Control(x)})]
  <1>1. r.dms[p] \in Seq(RowT) /\ r.dms \in Rows
    BY StoreFields DEF Rows
  <1>2. PICK s : s = Only(r.dms[p], {x \in ToSet(r.dms[p]) : ~Control(x)})
    OBVIOUS
  <1>3. s \in Seq(RowT) /\ \A row \in ToSet(s) : row \in ToSet(r.dms[p]) /\ ~Control(row)
    BY <1>1, <1>2, OnlySet
  <1>4. PICK f : f = [r.dms EXCEPT ![p] = s]
    OBVIOUS
  <1>5. f \in Rows /\ f[p] = s
    BY <1>1, <1>3, <1>4, RowsSet DEF Rows
  <1>6. purge(r, p) = WithDms(r, f)
    BY <1>2, <1>4 DEF purge, WithDms, StoreT
  <1>7. From(r, WithDms(r, f), {}) /\ WithDms(r, f).verified = r.verified
    BY <1>3, <1>4, ThreadSet
  <1>8. /\ WithDms(r, f).dms = f /\ WithDms(r, f).held = r.held /\ WithDms(r, f).chan = r.chan
        /\ WithDms(r, f) \in StoreT
    BY <1>5, StoreSet
  <1> QED BY <1>2, <1>3, <1>4, <1>5, <1>6, <1>7, <1>8

LEMMA VerifiedSet ==
  ASSUME NEW r \in StoreT, NEW f \in Partial(BOOLEAN), NEW X
  PROVE  From(r, WithVerified(r, f), X)
  BY StoreSet DEF From, Clear

LEMMA PeerOrNew ==
  ASSUME NEW r \in StoreT, NEW p \in Peer, NEW X
  PROVE  /\ From(r, peer_or_new(r, p), X)
         /\ peer_or_new(r, p) \in StoreT
         /\ peer_or_new(r, p).dms = r.dms /\ peer_or_new(r, p).held = r.held
         /\ peer_or_new(r, p).chan = r.chan
         /\ DOMAIN peer_or_new(r, p).verified = DOMAIN r.verified \cup {p}
         /\ \A q \in Peer : peer_verified(peer_or_new(r, p), q) <=> peer_verified(r, q)
  <1>1. CASE p \in DOMAIN r.verified
    BY <1>1, FromSame DEF peer_or_new
  <1>2. CASE p \notin DOMAIN r.verified
    <2>1. PICK f : f = With(r.verified, p, FALSE)
      OBVIOUS
    <2>2. r.verified \in Partial(BOOLEAN) /\ FALSE \in BOOLEAN
      BY StoreFields
    <2>3. /\ f \in Partial(BOOLEAN) /\ DOMAIN f = DOMAIN r.verified \cup {p}
          /\ f[p] = FALSE /\ \A q \in DOMAIN r.verified : q # p => f[q] = r.verified[q]
      BY <2>1, <2>2, VerifiedWith
    <2>4. peer_or_new(r, p) = WithVerified(r, f)
      BY <1>2, <2>1 DEF peer_or_new, WithVerified
    <2>5. PICK t : t = WithVerified(r, f)
      OBVIOUS
    <2>6. t \in StoreT /\ t.dms = r.dms /\ t.held = r.held /\ t.chan = r.chan /\ t.verified = f
      BY <2>3, <2>5, StoreSet
    <2>7. From(r, t, X)
      BY <2>3, <2>5, VerifiedSet
    <2>8. \A q \in Peer : peer_verified(t, q) <=> peer_verified(r, q)
      BY <1>2, <2>3, <2>6 DEF peer_verified
    <2> QED BY <2>3, <2>4, <2>5, <2>6, <2>7, <2>8
  <1> QED BY <1>1, <1>2

Posted(r, c, x) == [r EXCEPT !.chan[c] = Append(@, x)]

IsPosted(r, c, x, w) ==
    /\ From(r, w, {x}) /\ w \in StoreT
    /\ w.verified = r.verified /\ w.dms = r.dms /\ w.held = r.held
    /\ w.chan = [r.chan EXCEPT ![c] = Append(r.chan[c], x)]

LEMMA ChanAppend ==
  ASSUME NEW r \in StoreT, NEW c \in Channel, NEW x \in Nat, NEW w, w = Posted(r, c, x)
  PROVE  IsPosted(r, c, x, w)
  <1>1. r.chan[c] \in Seq(Nat) /\ r.chan \in Feeds
    BY StoreFields DEF Feeds
  <1>2. PICK s : s = Append(r.chan[c], x)
    OBVIOUS
  <1>3. s \in Seq(Nat) /\ ToSet(s) = ToSet(r.chan[c]) \cup {x}
    BY <1>1, <1>2, AppendSet
  <1>4. PICK f : f = [r.chan EXCEPT ![c] = s]
    OBVIOUS
  <1>5. /\ f \in Feeds
        /\ \A W : ClearFeeds(r.chan, W) /\ (\A y \in ToSet(s) : y \notin W) => ClearFeeds(f, W)
    BY <1>1, <1>3, <1>4, FeedSet
  <1>6. w = WithChan(r, f)
    BY <1>2, <1>4 DEF WithChan, StoreT, Posted
  <1>7. PICK t : t = WithChan(r, f)
    OBVIOUS
  <1>8. /\ t \in StoreT /\ t.dms = r.dms /\ t.held = r.held /\ t.chan = f
        /\ t.verified = r.verified
    BY <1>5, <1>7, StoreSet
  <1>9. ASSUME NEW W, Others(W, {x}), Clear(r, W)
        PROVE  Clear(t, W)
    <2>1. ClearRows(r.dms, W) /\ ClearHeld(r.held, W) /\ ClearFeeds(r.chan, W)
      BY <1>9 DEF Clear
    <2>2. \A y \in ToSet(s) : y \notin W
      BY <1>3, <1>9, <2>1 DEF Others, ClearFeeds
    <2> QED BY <1>5, <1>8, <2>1, <2>2 DEF Clear
  <1>10. From(r, t, {x})
    BY <1>8, <1>9 DEF From
  <1> QED BY <1>2, <1>4, <1>6, <1>7, <1>8, <1>10 DEF IsPosted

-----------------------------------------------------------------------------
(***************************************************************************)
(* The screen.                                                             *)
(***************************************************************************)
WithPeers(u, f) == [u EXCEPT !.peers = f]
WithThreads(u, f) == [u EXCEPT !.threads = f]
WithFeed(u, f) == [u EXCEPT !.feed = f]

LEMMA UiFields ==
  ASSUME NEW u \in UiT
  PROVE  u.peers \in Partial(BadgeT) /\ u.threads \in Rows /\ u.feed \in Feeds
  BY DEF UiT

LEMMA UiSet ==
  ASSUME NEW u \in UiT
  PROVE  /\ \A f \in Partial(BadgeT) :
                            /\ WithPeers(u, f) \in UiT /\ WithPeers(u, f).peers = f
                            /\ WithPeers(u, f).threads = u.threads /\ WithPeers(u, f).feed = u.feed
         /\ \A f \in Rows : /\ WithThreads(u, f) \in UiT /\ WithThreads(u, f).peers = u.peers
                            /\ WithThreads(u, f).threads = f /\ WithThreads(u, f).feed = u.feed
         /\ \A f \in Feeds : /\ WithFeed(u, f) \in UiT /\ WithFeed(u, f).peers = u.peers
                             /\ WithFeed(u, f).threads = u.threads /\ WithFeed(u, f).feed = f
  BY DEF UiT, WithPeers, WithThreads, WithFeed

Had(u, p) == IF p \in DOMAIN u.peers THEN u.peers[p] ELSE NoBadge

LEMMA UpsertFacts ==
  ASSUME NEW u \in UiT, NEW p \in Peer, NEW b \in BadgeT
  PROVE  /\ upsertPeer(u, p, b) \in UiT
         /\ upsertPeer(u, p, b).threads = u.threads /\ upsertPeer(u, p, b).feed = u.feed
         /\ DOMAIN upsertPeer(u, p, b).peers = DOMAIN u.peers \cup {p}
         /\ \A q \in DOMAIN u.peers : q # p => upsertPeer(u, p, b).peers[q] = u.peers[q]
         /\ upsertPeer(u, p, b).peers[p].verified <=> (Had(u, p).verified \/ b.verified)
         /\ upsertPeer(u, p, b).peers[p].keyChanged <=> (Had(u, p).keyChanged \/ b.keyChanged)
  <1>1. u.peers \in Partial(BadgeT)
    BY UiFields
  <1>2. PICK a : a = Had(u, p)
    OBVIOUS
  <1>3. a \in BadgeT
    <2>1. CASE p \in DOMAIN u.peers
      BY <1>1, <1>2, <2>1, PartialValue DEF Had
    <2>2. CASE p \notin DOMAIN u.peers
      BY <1>2, <2>2 DEF Had, NoBadge, Badge, BadgeT
    <2> QED BY <2>1, <2>2
  <1>4. PICK c : c = [k \in DOMAIN b |-> a[k] \/ b[k]]
    OBVIOUS
  <1>5. c = Badge(a.verified \/ b.verified, a.confirmed \/ b.confirmed, a.keyChanged \/ b.keyChanged)
    BY <1>3, <1>4, BadgeOr
  <1>6. c \in BadgeT
    BY <1>3, <1>5 DEF Badge, BadgeT
  <1>7. PICK f : f = With(u.peers, p, c)
    OBVIOUS
  <1>8. /\ f \in Partial(BadgeT) /\ DOMAIN f = DOMAIN u.peers \cup {p} /\ f[p] = c
        /\ \A q \in DOMAIN u.peers : q # p => f[q] = u.peers[q]
    <2>1. PICK g : g = u.peers
      OBVIOUS
    <2>2. g \in Partial(BadgeT) /\ f = With(g, p, c)
      BY <1>1, <1>7, <2>1
    <2>3. With(g, p, c) \in Partial(BadgeT)
      BY <1>6, <2>2, PartialWith
    <2>4. DOMAIN f = DOMAIN g \cup {p} /\ f[p] = c /\ \A q \in DOMAIN g : q # p => f[q] = g[q]
      BY <2>2 DEF With
    <2> QED BY <2>1, <2>2, <2>3, <2>4
  <1>9. upsertPeer(u, p, b) = WithPeers(u, f)
    BY <1>2, <1>4, <1>7 DEF upsertPeer, WithPeers, Had
  <1>10. PICK v : v = WithPeers(u, f)
    OBVIOUS
  <1>11. v \in UiT /\ v.peers = f /\ v.threads = u.threads /\ v.feed = u.feed
    BY <1>8, <1>10, UiSet
  <1>12. (c.verified <=> a.verified \/ b.verified) /\ (c.keyChanged <=> a.keyChanged \/ b.keyChanged)
    BY <1>3, <1>5 DEF Badge, BadgeT
  <1> QED BY <1>2, <1>8, <1>9, <1>10, <1>11, <1>12

RowAdded(u, p, row, v) ==
    /\ v \in UiT /\ v.peers = u.peers /\ v.feed = u.feed
    /\ v.threads = [u.threads EXCEPT ![p] = Append(u.threads[p], row)]
    /\ \A W : ClearRows(u.threads, W) /\ row.text \notin W => ClearRows(v.threads, W)

LEMMA ShowRowFacts ==
  ASSUME NEW u \in UiT, NEW p \in Peer, NEW row \in RowT, NEW w, w = showRow(u, p, row)
  PROVE  RowAdded(u, p, row, w)
  <1>1. u.threads[p] \in Seq(RowT) /\ u.threads \in Rows
    BY UiFields DEF Rows
  <1>2. PICK s : s = Append(u.threads[p], row)
    OBVIOUS
  <1>3. s \in Seq(RowT) /\ ToSet(s) = ToSet(u.threads[p]) \cup {row}
    BY <1>1, <1>2, AppendSet
  <1>4. PICK f : f = [u.threads EXCEPT ![p] = s]
    OBVIOUS
  <1>5. /\ f \in Rows
        /\ \A W : ClearRows(u.threads, W) /\ (\A x \in ToSet(s) : x.text \notin W) => ClearRows(f, W)
    BY <1>1, <1>3, <1>4, RowsSet
  <1>6. showRow(u, p, row) = WithThreads(u, f)
    BY <1>2, <1>4 DEF showRow, WithThreads, UiT
  <1>7. PICK v : v = WithThreads(u, f)
    OBVIOUS
  <1>8. v \in UiT /\ v.peers = u.peers /\ v.threads = f /\ v.feed = u.feed
    BY <1>5, <1>7, UiSet
  <1>9. \A W : ClearRows(u.threads, W) /\ row.text \notin W => ClearRows(f, W)
    BY <1>3, <1>5 DEF ClearRows
  <1> QED BY <1>2, <1>4, <1>6, <1>7, <1>8, <1>9 DEF RowAdded

TextAdded(u, c, x, v) ==
    /\ v \in UiT /\ v.peers = u.peers /\ v.threads = u.threads
    /\ v.feed = [u.feed EXCEPT ![c] = Append(u.feed[c], x)]
    /\ \A W : ClearFeeds(u.feed, W) /\ x \notin W => ClearFeeds(v.feed, W)

LEMMA ShowTextFacts ==
  ASSUME NEW u \in UiT, NEW c \in Channel, NEW x \in Nat,
         NEW w, w = [u EXCEPT !.feed[c] = Append(@, x)]
  PROVE  TextAdded(u, c, x, w)
  <1>1. u.feed[c] \in Seq(Nat) /\ u.feed \in Feeds
    BY UiFields DEF Feeds
  <1>2. PICK s : s = Append(u.feed[c], x)
    OBVIOUS
  <1>3. s \in Seq(Nat) /\ ToSet(s) = ToSet(u.feed[c]) \cup {x}
    BY <1>1, <1>2, AppendSet
  <1>4. PICK f : f = [u.feed EXCEPT ![c] = s]
    OBVIOUS
  <1>5. /\ f \in Feeds
        /\ \A W : ClearFeeds(u.feed, W) /\ (\A y \in ToSet(s) : y \notin W) => ClearFeeds(f, W)
    BY <1>1, <1>3, <1>4, FeedSet
  <1>6. [u EXCEPT !.feed[c] = Append(@, x)] = WithFeed(u, f)
    BY <1>2, <1>4 DEF WithFeed, UiT
  <1>7. PICK v : v = WithFeed(u, f)
    OBVIOUS
  <1>8. v \in UiT /\ v.peers = u.peers /\ v.threads = u.threads /\ v.feed = f
    BY <1>5, <1>7, UiSet
  <1>9. \A W : ClearFeeds(u.feed, W) /\ x \notin W => ClearFeeds(f, W)
    BY <1>3, <1>5 DEF ClearFeeds
  <1> QED BY <1>2, <1>4, <1>6, <1>7, <1>8, <1>9 DEF TextAdded

BadgeGiven(u, p, b, v) ==
    /\ v \in UiT /\ v.threads = u.threads /\ v.feed = u.feed
    /\ DOMAIN v.peers = DOMAIN u.peers /\ v.peers[p] = b
    /\ \A q \in DOMAIN u.peers : q # p => v.peers[q] = u.peers[q]

LEMMA BadgeSet ==
  ASSUME NEW u \in UiT, NEW p \in DOMAIN u.peers, NEW b \in BadgeT,
         NEW w, w = WithPeers(u, [u.peers EXCEPT ![p] = b])
  PROVE  BadgeGiven(u, p, b, w)
  <1>1. DOMAIN u.peers \subseteq Peer /\ u.peers \in [DOMAIN u.peers -> BadgeT]
    BY UiFields, PartialMeans
  <1>2. PICK f : f = [u.peers EXCEPT ![p] = b]
    OBVIOUS
  <1>3. /\ DOMAIN f = DOMAIN u.peers /\ f \in [DOMAIN f -> BadgeT] /\ f[p] = b
        /\ \A q \in DOMAIN u.peers : q # p => f[q] = u.peers[q]
    BY <1>1, <1>2
  <1>4. f \in Partial(BadgeT)
    BY <1>1, <1>3, PartialMeans
  <1>5. PICK v : v = WithPeers(u, f)
    OBVIOUS
  <1>6. v \in UiT /\ v.peers = f /\ v.threads = u.threads /\ v.feed = u.feed
    BY <1>4, <1>5, UiSet
  <1> QED BY <1>2, <1>3, <1>5, <1>6 DEF BadgeGiven

LEMMA BadgeFields ==
  ASSUME NEW u \in UiT, NEW p \in DOMAIN u.peers
  PROVE  /\ p \in Peer /\ u.peers[p] \in BadgeT
         /\ u.peers[p].verified \in BOOLEAN /\ u.peers[p].confirmed \in BOOLEAN
         /\ u.peers[p].keyChanged \in BOOLEAN
  <1>1. u.peers \in Partial(BadgeT)
    BY UiFields
  <1>2. p \in Peer /\ u.peers[p] \in BadgeT
    BY <1>1, PartialValue
  <1> QED BY <1>2 DEF BadgeT

\* The places that set parts of a badge.
LEMMA BadgeParts ==
  ASSUME NEW u \in UiT, NEW p \in DOMAIN u.peers
  PROVE  /\ [u EXCEPT !.peers[p] = Badge(@.verified, FALSE, TRUE)]
               = WithPeers(u, [u.peers EXCEPT ![p] = Badge(u.peers[p].verified, FALSE, TRUE)])
         /\ [u EXCEPT !.peers[p] = Badge(FALSE, FALSE, @.keyChanged)]
               = WithPeers(u, [u.peers EXCEPT ![p] = Badge(FALSE, FALSE, u.peers[p].keyChanged)])
  <1>1. DOMAIN u.peers \subseteq Peer /\ u.peers \in [DOMAIN u.peers -> BadgeT]
    BY UiFields, PartialMeans
  <1>2. [u EXCEPT !.peers[p] = Badge(@.verified, FALSE, TRUE)]
               = WithPeers(u, [u.peers EXCEPT ![p] = Badge(u.peers[p].verified, FALSE, TRUE)])
    BY <1>1 DEF WithPeers, Badge, BadgeT, UiT
  <1>3. [u EXCEPT !.peers[p] = Badge(FALSE, FALSE, @.keyChanged)]
               = WithPeers(u, [u.peers EXCEPT ![p] = Badge(FALSE, FALSE, u.peers[p].keyChanged)])
    BY <1>1 DEF WithPeers, Badge, BadgeT, UiT
  <1> QED BY <1>2, <1>3

Rebuilt(u, p, s) == [u EXCEPT !.peers[p] = Badge(@.verified, FALSE, FALSE), !.threads[p] = s]
Calmed(u, p) == WithPeers(u, [u.peers EXCEPT ![p] = Badge(u.peers[p].verified, FALSE, FALSE)])

LEMMA RebuiltIs ==
  ASSUME NEW u \in UiT, NEW p \in DOMAIN u.peers, NEW s
  PROVE  Rebuilt(u, p, s) = WithThreads(Calmed(u, p), [u.threads EXCEPT ![p] = s])
  <1>1. DOMAIN u.peers \subseteq Peer /\ u.peers \in [DOMAIN u.peers -> BadgeT]
    BY UiFields, PartialMeans
  <1> QED BY <1>1 DEF Rebuilt, Calmed, WithPeers, WithThreads, Badge, BadgeT, UiT

-----------------------------------------------------------------------------
(***************************************************************************)
(* What one event does to the screen, and what all of them do.             *)
(***************************************************************************)
Agree(u, r) == \A p \in Peer :
    (p \in DOMAIN u.peers /\ u.peers[p].verified) <=> peer_verified(r, p)

Upserts(ev) == ev.type \in {"appeared", "session", "dm"}
Warned(u, p) == p \in DOMAIN u.peers /\ u.peers[p].keyChanged
Marker == Row(FALSE, "changed", 0)

ShownStep(u, ev, r, v) ==
    /\ v \in UiT
    /\ DOMAIN u.peers \subseteq DOMAIN v.peers
    /\ Upserts(ev) => ev.peer \in DOMAIN v.peers
    /\ \A p \in Peer : Warned(u, p) => Warned(v, p)
    /\ ev.type = "changed" /\ ev.peer \in DOMAIN u.peers => Warned(v, ev.peer)
    /\ \A p \in Peer : ToSet(u.threads[p]) \subseteq ToSet(v.threads[p])
    /\ ev.type = "dm" => Row(FALSE, ev.kind, ev.text) \in ToSet(v.threads[ev.peer])
    /\ IF ev.type = "message" THEN TextAdded(u, ev.peer, ev.text, v) ELSE v.feed = u.feed
    /\ Agree(u, r) => Agree(v, r)
    /\ \A W : 0 \notin W /\ ev.text \notin W /\ ClearUi(u, W) => ClearUi(v, W)

LEMMA RowType ==
  ASSUME NEW mine \in BOOLEAN, NEW kind \in Kind, NEW x \in Nat
  PROVE  Row(mine, kind, x) \in RowT /\ Row(mine, kind, x).text = x
         /\ Row(mine, kind, x).kind = kind /\ Row(mine, kind, x).mine = mine
  BY DEF Row, RowT

LEMMA RowOther ==
  ASSUME NEW kind \in Kind, NEW x \in Nat
  PROVE  Row(FALSE, kind, x) \in RowT /\ Row(FALSE, kind, x).text = x
         /\ Row(FALSE, kind, x).kind = kind /\ ~Row(FALSE, kind, x).mine
         /\ Row(TRUE, kind, x) \in RowT /\ Row(TRUE, kind, x).text = x
         /\ Row(TRUE, kind, x).kind = kind /\ Row(TRUE, kind, x).mine
  BY DEF Row, RowT

LEMMA EventFields ==
  ASSUME NEW ev \in EventT
  PROVE  /\ ev.type \in {"message", "appeared", "session", "dm", "changed"}
         /\ ev.kind \in Kind /\ ev.text \in Nat
         /\ ev.type = "message" => ev.peer \in Channel
         /\ ev.type # "message" => ev.peer \in Peer
  BY DEF EventT

\* A badge that repeats what the store says.
Says(b, r, p) == b \in BadgeT /\ (b.verified <=> peer_verified(r, p))

LEMMA UpsertShows ==
  ASSUME NEW u \in UiT, NEW p \in Peer, NEW b, NEW r, Says(b, r, p), NEW v, v = upsertPeer(u, p, b)
  PROVE  /\ v \in UiT /\ v.threads = u.threads /\ v.feed = u.feed
         /\ DOMAIN v.peers = DOMAIN u.peers \cup {p}
         /\ \A q \in Peer : Warned(u, q) => Warned(v, q)
         /\ Agree(u, r) => Agree(v, r)
  <1>1. /\ v \in UiT /\ v.threads = u.threads /\ v.feed = u.feed
        /\ DOMAIN v.peers = DOMAIN u.peers \cup {p}
        /\ \A q \in DOMAIN u.peers : q # p => v.peers[q] = u.peers[q]
    BY UpsertFacts DEF Says
  <1>2. /\ v.peers[p].verified <=> (Had(u, p).verified \/ b.verified)
        /\ v.peers[p].keyChanged <=> (Had(u, p).keyChanged \/ b.keyChanged)
    BY UpsertFacts DEF Says
  <1>3. /\ p \in DOMAIN u.peers => Had(u, p) = u.peers[p]
        /\ p \notin DOMAIN u.peers => ~Had(u, p).verified /\ ~Had(u, p).keyChanged
    BY DEF Had, NoBadge, Badge
  <1>4. \A q \in Peer : Warned(u, q) => Warned(v, q)
    BY <1>1, <1>2, <1>3 DEF Warned
  <1>5. ASSUME Agree(u, r), NEW q \in Peer
        PROVE  (q \in DOMAIN v.peers /\ v.peers[q].verified) <=> peer_verified(r, q)
    <2>1. CASE q # p
      BY <1>1, <1>5, <2>1 DEF Agree
    <2>2. CASE q = p
      BY <1>1, <1>2, <1>3, <1>5, <2>2 DEF Agree, Says
    <2> QED BY <2>1, <2>2
  <1> QED BY <1>1, <1>4, <1>5 DEF Agree

LEMMA ShownFacts ==
  ASSUME NEW u \in UiT, NEW ev \in EventT, NEW r \in StoreT
  PROVE  ShownStep(u, ev, r, Shown(u, ev, r))
  <1>1. /\ ev.type \in {"message", "appeared", "session", "dm", "changed"}
        /\ ev.kind \in Kind /\ ev.text \in Nat
        /\ ev.type = "message" => ev.peer \in Channel
        /\ ev.type # "message" => ev.peer \in Peer
    BY EventFields
  <1>2. PICK v : v = Shown(u, ev, r)
    OBVIOUS
  <1>3. PICK p : p = ev.peer
    OBVIOUS
  <1>4. PICK x \in Nat : x = ev.text
    BY <1>1
  <1>6. CASE ev.type = "message"
    <2>1. v = [u EXCEPT !.feed[p] = Append(@, x)] /\ p \in Channel
      BY <1>1, <1>2, <1>3, <1>4, <1>6 DEF Shown
    <2>0. TextAdded(u, p, x, v)
      BY <2>1, ShowTextFacts
    <2>2. v \in UiT /\ v.peers = u.peers /\ v.threads = u.threads
      BY <2>0 DEF TextAdded
    <2>3. \A W : ClearFeeds(u.feed, W) /\ x \notin W => ClearFeeds(v.feed, W)
      BY <2>0 DEF TextAdded
    <2> QED BY <1>2, <1>3, <1>4, <1>6, <2>0, <2>2, <2>3 DEF ShownStep, Upserts, Warned, Agree, ClearUi
  <1>7. CASE ev.type \in {"appeared", "session"}
    <2>0. PICK b : b = Badge(peer_verified(r, p), FALSE, FALSE)
      OBVIOUS
    <2>1. v = upsertPeer(u, p, b)
      BY <1>2, <1>3, <1>7, <2>0 DEF Shown
    <2>9. Says(b, r, p)
      BY <2>0 DEF Says, Badge, BadgeT, peer_verified
    <2>2. /\ v \in UiT /\ v.threads = u.threads /\ v.feed = u.feed
          /\ DOMAIN v.peers = DOMAIN u.peers \cup {p}
          /\ \A q \in Peer : Warned(u, q) => Warned(v, q)
          /\ Agree(u, r) => Agree(v, r)
      BY <1>1, <1>3, <1>7, <2>1, <2>9, UpsertShows
    <2> QED BY <1>2, <1>3, <1>7, <2>2 DEF ShownStep, ClearUi
  <1>8. CASE ev.type = "dm"
    <2>0. PICK b : b = Badge(peer_verified(r, p), ev.kind \in {"notice", "ack"}, FALSE)
      OBVIOUS
    <2>9. Says(b, r, p)
      <3>1. PICK k \in BOOLEAN : k <=> ev.kind \in {"notice", "ack"}
        OBVIOUS
      <3>2. b = [verified |-> peer_verified(r, p), confirmed |-> k, keyChanged |-> FALSE]
        BY <2>0, <3>1 DEF Badge
      <3> QED BY <3>2 DEF Says, BadgeT, peer_verified
    <2>1. PICK w : w = upsertPeer(u, p, b)
      OBVIOUS
    <2>2. /\ w \in UiT /\ w.threads = u.threads /\ w.feed = u.feed
          /\ DOMAIN w.peers = DOMAIN u.peers \cup {p}
          /\ \A q \in Peer : Warned(u, q) => Warned(w, q)
          /\ Agree(u, r) => Agree(w, r)
      BY <1>1, <1>3, <1>8, <2>1, <2>9, UpsertShows
    <2>3. PICK row : row = Row(FALSE, ev.kind, ev.text)
      OBVIOUS
    <2>4. row \in RowT /\ row.text = ev.text
      BY <1>1, <2>3, RowOther
    <2>5. v = showRow(w, p, row)
      BY <1>2, <1>3, <1>8, <2>0, <2>1, <2>3 DEF Shown
    <2>6. /\ v \in UiT /\ v.peers = w.peers /\ v.feed = w.feed
          /\ v.threads = [w.threads EXCEPT ![p] = Append(w.threads[p], row)]
          /\ \A W : ClearRows(w.threads, W) /\ row.text \notin W => ClearRows(v.threads, W)
      <3>1. p \in Peer /\ w \in UiT /\ row \in RowT
        BY <1>1, <1>3, <1>8, <2>2, <2>4
      <3>2. RowAdded(w, p, row, v)
        BY <2>5, <3>1, ShowRowFacts
      <3> QED BY <3>2 DEF RowAdded
    <2>7. (\A q \in Peer : ToSet(u.threads[q]) \subseteq ToSet(v.threads[q])) /\ row \in ToSet(v.threads[p])
      <3>1. u.threads \in Rows /\ p \in Peer
        BY <1>1, <1>3, <1>8, UiFields
      <3>2. /\ v.threads[p] = Append(u.threads[p], row) /\ u.threads[p] \in Seq(RowT)
            /\ \A q \in Peer : q # p => v.threads[q] = u.threads[q]
        BY <2>2, <2>6, <3>1 DEF Rows
      <3>3. ToSet(v.threads[p]) = ToSet(u.threads[p]) \cup {row}
        BY <2>4, <3>2, AppendSet
      <3> QED BY <3>2, <3>3
    <2> QED BY <1>2, <1>3, <1>8, <2>2, <2>3, <2>4, <2>6, <2>7 DEF ShownStep, ClearUi, Warned, Agree
  <1>9. CASE ev.type = "changed"
    <2>1. PICK row : row = Row(FALSE, "changed", 0)
      OBVIOUS
    <2>2. row \in RowT /\ row.text = 0
      BY <2>1, RowOther DEF Kind
    <2>3. PICK w : w = showRow(u, p, row)
      OBVIOUS
    <2>4. p \in Peer
      BY <1>1, <1>3, <1>9
    <2>5. /\ w \in UiT /\ w.peers = u.peers /\ w.feed = u.feed
          /\ w.threads = [u.threads EXCEPT ![p] = Append(u.threads[p], row)]
          /\ \A W : ClearRows(u.threads, W) /\ row.text \notin W => ClearRows(w.threads, W)
      <3>1. RowAdded(u, p, row, w)
        BY <2>2, <2>3, <2>4, ShowRowFacts
      <3> QED BY <3>1 DEF RowAdded
    <2>6. \A q \in Peer : ToSet(u.threads[q]) \subseteq ToSet(w.threads[q])
      <3>1. u.threads \in Rows
        BY UiFields
      <3>2. /\ w.threads[p] = Append(u.threads[p], row) /\ u.threads[p] \in Seq(RowT)
            /\ \A q \in Peer : q # p => w.threads[q] = u.threads[q]
        BY <2>4, <2>5, <3>1 DEF Rows
      <3>3. ToSet(w.threads[p]) = ToSet(u.threads[p]) \cup {row}
        BY <2>2, <3>2, AppendSet
      <3> QED BY <3>2, <3>3
    <2>7. \A W : 0 \notin W /\ ClearUi(u, W) => ClearUi(w, W)
      BY <2>2, <2>5 DEF ClearUi
    <2>8. CASE p \notin DOMAIN u.peers
      <3>1. v = w
        BY <1>2, <1>3, <1>9, <2>1, <2>3, <2>5, <2>8 DEF Shown
      <3> QED BY <1>2, <1>3, <1>9, <2>5, <2>6, <2>7, <2>8, <3>1 DEF ShownStep, Upserts, Warned, Agree
    <2>9. CASE p \in DOMAIN u.peers
      <3>1. v = [w EXCEPT !.peers[p] = Badge(@.verified, FALSE, TRUE)]
        BY <1>2, <1>3, <1>9, <2>1, <2>3, <2>5, <2>9 DEF Shown
      <3>2. PICK c : c = Badge(w.peers[p].verified, FALSE, TRUE)
        OBVIOUS
      <3>3. v = WithPeers(w, [w.peers EXCEPT ![p] = c])
        BY <2>5, <2>9, <3>1, <3>2, BadgeParts
      <3>4. w.peers[p].verified \in BOOLEAN
        BY <2>5, <2>9, BadgeFields
      <3>5. c \in BadgeT /\ c.keyChanged /\ (c.verified <=> w.peers[p].verified)
        BY <3>2, <3>4 DEF Badge, BadgeT
      <3>6. /\ v \in UiT /\ v.threads = w.threads /\ v.feed = w.feed
            /\ DOMAIN v.peers = DOMAIN w.peers /\ v.peers[p] = c
            /\ \A q \in DOMAIN w.peers : q # p => v.peers[q] = w.peers[q]
        <4>1. w \in UiT /\ p \in DOMAIN w.peers /\ c \in BadgeT
          BY <2>5, <2>9, <3>5
        <4>2. BadgeGiven(w, p, c, v)
          BY <3>3, <4>1, BadgeSet
        <4> QED BY <4>2 DEF BadgeGiven
      <3>7. \A q \in Peer : Warned(u, q) => Warned(v, q)
        BY <2>5, <3>5, <3>6 DEF Warned
      <3>8. Warned(v, p)
        BY <2>5, <2>9, <3>5, <3>6 DEF Warned
      <3>9. Agree(u, r) => Agree(v, r)
        BY <2>5, <3>5, <3>6 DEF Agree
      <3> QED BY <1>2, <1>3, <1>9, <2>5, <2>6, <2>7, <3>6, <3>7, <3>8, <3>9 DEF ShownStep, Upserts, ClearUi
    <2> QED BY <2>8, <2>9
  <1> QED BY <1>1, <1>6, <1>7, <1>8, <1>9

Grows(u, v) ==
    /\ DOMAIN u.peers \subseteq DOMAIN v.peers
    /\ \A p \in Peer : Warned(u, p) => Warned(v, p)
    /\ \A p \in Peer : ToSet(u.threads[p]) \subseteq ToSet(v.threads[p])

AllShown(u, evs, r, v) ==
    /\ v \in UiT /\ Grows(u, v)
    /\ \A k \in 1 .. Len(evs) : Upserts(evs[k]) => evs[k].peer \in DOMAIN v.peers
    /\ \A k \in 1 .. Len(evs) :
          evs[k].type = "changed"
            /\ (evs[k].peer \in DOMAIN u.peers
                   \/ \E j \in 1 .. k - 1 : Upserts(evs[j]) /\ evs[j].peer = evs[k].peer)
          => Warned(v, evs[k].peer)
    /\ \A k \in 1 .. Len(evs) : evs[k].type = "dm" =>
          Row(FALSE, evs[k].kind, evs[k].text) \in ToSet(v.threads[evs[k].peer])
    /\ Agree(u, r) => Agree(v, r)
    /\ \A W : 0 \notin W /\ ClearEvents(evs, W) /\ ClearUi(u, W) => ClearUi(v, W)

LEMMA ShownAllFacts ==
  ASSUME NEW u \in UiT, NEW evs \in Seq(EventT), NEW r \in StoreT, NEW v, v = ShownAll(u, evs, r)
  PROVE  AllShown(u, evs, r, v)
  <1>0. PICK N \in Nat : N = Len(evs)
    OBVIOUS
  <1>1. PICK f : /\ f[0] = u /\ f[N] = v
                 /\ \A k \in 1 .. N : f[k] = Shown(f[k - 1], evs[k], r)
    BY <1>0, ShownAllSteps
  <1>2. \A k \in 1 .. N : evs[k] \in EventT /\ evs[k] \in ToSet(evs)
    BY <1>0 DEF ToSet
  <1> DEFINE Good(w) == /\ w \in UiT /\ (Agree(u, r) => Agree(w, r))
                        /\ \A W : 0 \notin W /\ ClearEvents(evs, W) /\ ClearUi(u, W) => ClearUi(w, W)
             S == {k \in 0 .. N : Good(f[k])}
  <1>3. ASSUME NEW k \in 1 .. N, Good(f[k - 1])
        PROVE  ShownStep(f[k - 1], evs[k], r, f[k]) /\ Good(f[k])
    <2>1. PICK w : w = f[k - 1]
      OBVIOUS
    <2>2. w \in UiT /\ evs[k] \in EventT /\ f[k] = Shown(w, evs[k], r)
      BY <1>1, <1>2, <1>3, <2>1
    <2>3. ShownStep(w, evs[k], r, f[k])
      BY <2>2, ShownFacts
    <2>4. /\ f[k] \in UiT /\ (Agree(w, r) => Agree(f[k], r))
          /\ \A W : 0 \notin W /\ evs[k].text \notin W /\ ClearUi(w, W) => ClearUi(f[k], W)
      BY <2>3 DEF ShownStep
    <2>5. \A W : ClearEvents(evs, W) => evs[k].text \notin W
      BY <1>2 DEF ClearEvents
    <2> HIDE DEF Good
    <2>6. Good(w)
      BY <1>3, <2>1
    <2>7. Good(f[k])
      BY <2>4, <2>5, <2>6 DEF Good
    <2> QED BY <2>1, <2>3, <2>7
  <1> HIDE DEF Good
  <1>4. \A k \in 0 .. N : Good(f[k])
    <2>1. Good(f[0])
      BY <1>1 DEF Good
    <2>2. 0 \in S
      BY <2>1
    <2>3. ASSUME NEW k \in 1 .. N, k - 1 \in S
          PROVE  k \in S
      BY <1>3, <2>3
    <2> HIDE DEF S
    <2>4. \A k \in 0 .. N : k \in S
      BY <2>2, <2>3, UpTo
    <2> QED BY <2>4 DEF S
  <1>5. \A k \in 1 .. N : ShownStep(f[k - 1], evs[k], r, f[k])
    BY <1>3, <1>4
  <1>6. ASSUME NEW j \in 0 .. N
        PROVE  \A k \in 0 .. N : k >= j => Grows(f[j], f[k])
    <2> DEFINE T == {k \in 0 .. N : k >= j => Grows(f[j], f[k])}
    <2>1. 0 \in T
      BY DEF Grows
    <2>2. ASSUME NEW k \in 1 .. N, k - 1 \in T
          PROVE  k \in T
      <3>1. CASE k < j
        BY <3>1
      <3>2. CASE k = j
        BY <3>2 DEF Grows
      <3>3. CASE k > j
        <4>1. Grows(f[j], f[k - 1])
          BY <2>2, <3>3
        <4>2. Grows(f[k - 1], f[k])
          BY <1>5 DEF ShownStep, Grows
        <4>3. Grows(f[j], f[k])
          BY <4>1, <4>2 DEF Grows
        <4> QED BY <4>3
      <3> QED BY <3>1, <3>2, <3>3
    <2> HIDE DEF T
    <2>3. \A k \in 0 .. N : k \in T
      BY <2>1, <2>2, UpTo
    <2> QED BY <2>3 DEF T
  <1>7. Grows(u, v) /\ Good(v)
    BY <1>1, <1>4, <1>6
  <1>8. ASSUME NEW k \in 1 .. N
        PROVE  /\ Upserts(evs[k]) => evs[k].peer \in DOMAIN f[k].peers /\ evs[k].peer \in DOMAIN v.peers
               /\ evs[k].type = "dm" =>
                     Row(FALSE, evs[k].kind, evs[k].text) \in ToSet(v.threads[evs[k].peer])
    <2>1. ShownStep(f[k - 1], evs[k], r, f[k]) /\ Grows(f[k], v)
      BY <1>1, <1>5, <1>6
    <2>2. Upserts(evs[k]) => evs[k].peer \in DOMAIN f[k].peers /\ evs[k].peer \in DOMAIN v.peers
      BY <2>1 DEF ShownStep, Grows
    <2>3. evs[k].type = "dm" => evs[k].peer \in Peer
      BY <1>2, EventFields
    <2>4. evs[k].type = "dm" =>
                     Row(FALSE, evs[k].kind, evs[k].text) \in ToSet(v.threads[evs[k].peer])
      BY <2>1, <2>3 DEF ShownStep, Grows
    <2> QED BY <2>2, <2>4
  <1>9. ASSUME NEW k \in 1 .. N, evs[k].type = "changed",
               \/ evs[k].peer \in DOMAIN u.peers
               \/ \E j \in 1 .. k - 1 : Upserts(evs[j]) /\ evs[j].peer = evs[k].peer
        PROVE  Warned(v, evs[k].peer)
    <2>1. evs[k].peer \in DOMAIN f[k - 1].peers
      <3>1. CASE evs[k].peer \in DOMAIN u.peers
        <4>1. Grows(f[0], f[k - 1])
          BY <1>6
        <4> QED BY <1>1, <3>1, <4>1 DEF Grows
      <3>2. CASE \E j \in 1 .. k - 1 : Upserts(evs[j]) /\ evs[j].peer = evs[k].peer
        <4>1. PICK j \in 1 .. k - 1 : Upserts(evs[j]) /\ evs[j].peer = evs[k].peer
          BY <3>2
        <4>2. j \in 1 .. N /\ j \in 0 .. N /\ k - 1 \in 0 .. N /\ k - 1 >= j
          BY <4>1
        <4>3. evs[k].peer \in DOMAIN f[j].peers
          BY <1>8, <4>1, <4>2
        <4>4. Grows(f[j], f[k - 1])
          BY <1>6, <4>2
        <4> QED BY <4>3, <4>4 DEF Grows
      <3> QED BY <1>9, <3>1, <3>2
    <2>2. Warned(f[k], evs[k].peer)
      BY <1>5, <1>9, <2>1 DEF ShownStep
    <2>3. evs[k].peer \in Peer /\ Grows(f[k], v)
      BY <1>1, <1>2, <1>6, <1>9, EventFields
    <2> QED BY <2>2, <2>3 DEF Grows
  <1> QED BY <1>0, <1>7, <1>8, <1>9 DEF AllShown, Good

-----------------------------------------------------------------------------
(***************************************************************************)
(* The state, and the steps of the core and of the shell while a node      *)
(* runs: the node becomes n, its store r and the screen u.                 *)
(***************************************************************************)
VaultT == [is : {"none", "whole", "torn"}, kek : 0 .. 2, key : 0 .. 2]
DbT == [key : 0 .. 2, rows : StoreT]

\* In the later steps of a wipe no node runs, a node that works on the database
\* has one, a database that is not there has no rows, and a vault holds a key.
TypeInv ==
    /\ kek \in 0 .. 2 /\ vault \in VaultT /\ db \in DbT
    /\ vault.is = "whole" => vault.key # 0
    /\ service \in {"down", "up", "due"}
    /\ node = NoNode \/ node \in NodeT
    /\ ui \in UiT
    /\ wiping \in {"no", "node", "vault", "db", "kek", "screen"}
    /\ wanted \in BOOLEAN /\ cut \in BOOLEAN /\ wiped \subseteq Nat \ {0}
    /\ used \in [Event -> Nat]
    /\ db.key = 0 => db.rows = EmptyRows
    /\ Up /\ node.where = "db" => db.key # 0
    /\ wiping \in {"vault", "db", "kek", "screen"} => ~Up

TextEvent == {"receive", "channel", "dm", "post"}

LEMMA SpendFacts ==
  ASSUME used \in [Event -> Nat], NEW ev \in Event, Spend(ev)
  PROVE  /\ used' \in [Event -> Nat] /\ Text \in Nat /\ Text > 0
         /\ ev \in TextEvent => Text' = Text + 1
         /\ ev \notin TextEvent => Text' = Text
         /\ \A e \in Event : e # ev => used'[e] = used[e]
         /\ used'[ev] = used[ev] + 1
  BY DEF Spend, Text, TextEvent, Event

LEMMA RunningNode ==
  ASSUME TypeInv, Up
  PROVE  node \in NodeT /\ node.where \in {"db", "memory"} /\ Store \in StoreT
         /\ node.events \in Seq(EventT)
  BY DEF TypeInv, Up, NodeT, Store, DbT

LEMMA NodeIsUp ==
  ASSUME NEW n \in NodeT
  PROVE  n # NoNode
  BY DEF NodeT, NoNode

\* What a step does to node, store and screen.
Effect(n, r, u, X) ==
    /\ n \in NodeT /\ n.where = node.where /\ node.again \subseteq n.again
    /\ From(Store, r, X)
    /\ u \in UiT
    /\ Agree(ui, Store) => Agree(u, r)
    /\ \A W : Others(W, X) /\ Clear(Store, W) /\ ClearEvents(node.events, W)
          => ClearEvents(n.events, W)
    /\ \A W : Others(W, X) /\ Clear(Store, W) /\ ClearEvents(node.events, W) /\ ClearUi(ui, W)
          => ClearUi(u, W)

\* New texts are counted.
Counts(X) == /\ used' \in [Event -> Nat]
             /\ used'["wipe"] = used["wipe"] /\ used'["keystore"] = used["keystore"]
             /\ \/ X = {} /\ Text' >= Text
                \/ X = {Text} /\ Text' = Text + 1

Move(n, r, u, X) ==
    /\ Up /\ Effect(n, r, u, X) /\ Counts(X)
    /\ Commit(n, r) /\ ui' = u
    /\ UNCHANGED <<kek, vault, service, wiping, wanted, wiped, cut>>

LEMMA MoveStore ==
  ASSUME TypeInv, NEW n, NEW r, NEW u, NEW X, Move(n, r, u, X)
  PROVE  /\ Up' /\ Store' = r /\ node'.where = node.where /\ node'.events = n.events
         /\ node'.dh = n.dh /\ node'.ready = n.ready /\ node'.again = n.again
         /\ node' \in NodeT /\ db' \in DbT /\ db'.key = db.key
         /\ node.where = "db" => db'.rows = r
         /\ node.where # "db" => db' = db
  <1>1. node \in NodeT /\ node.where \in {"db", "memory"} /\ db \in DbT
    BY RunningNode DEF Move, TypeInv
  <1>2. n \in NodeT /\ n.where = node.where /\ r \in StoreT /\ Commit(n, r)
    BY DEF Move, Effect, From
  <1>3. CASE node.where = "db"
    <2>1. node' = n /\ db' = [db EXCEPT !.rows = r]
      BY <1>2, <1>3 DEF Commit
    <2>2. db' \in DbT /\ db'.key = db.key /\ db'.rows = r
      BY <1>1, <1>2, <2>1 DEF DbT
    <2> QED BY <1>2, <1>3, <2>1, <2>2, NodeIsUp DEF Up, Store
  <1>4. CASE node.where # "db"
    <2>1. node' = [n EXCEPT !.mem = r] /\ db' = db
      BY <1>2, <1>4 DEF Commit
    <2>2. node' \in NodeT /\ node'.where = node.where /\ node'.events = n.events /\ node'.mem = r
          /\ node'.dh = n.dh /\ node'.ready = n.ready /\ node'.again = n.again
      BY <1>2, <2>1 DEF NodeT
    <2> QED BY <1>1, <1>4, <2>1, <2>2, NodeIsUp DEF Up, Store
  <1> QED BY <1>3, <1>4

LEMMA TypeMove ==
  ASSUME TypeInv, NEW n, NEW r, NEW u, NEW X, Move(n, r, u, X)
  PROVE  TypeInv'
  <1>1. /\ Up' /\ Store' = r /\ node'.where = node.where /\ node' \in NodeT
        /\ db' \in DbT /\ db'.key = db.key /\ Up
        /\ (node.where # "db" => db' = db)
    BY MoveStore DEF Move
  <1>2. u \in UiT /\ ui' = u /\ used' \in [Event -> Nat]
        /\ UNCHANGED <<kek, vault, service, wiping, wanted, wiped, cut>>
    BY DEF Move, Effect, Counts
  <1>3. db'.key = 0 => db'.rows = EmptyRows
    BY <1>1 DEF TypeInv
  <1> QED BY <1>1, <1>2, <1>3 DEF TypeInv

LEMMA EmitFacts ==
  ASSUME NEW n \in NodeT, NEW evs \in Seq(EventT), NEW m, m = emit(n, evs)
  PROVE  /\ m \in NodeT /\ m.where = n.where /\ m.events = n.events \o evs
         /\ m.known = n.known /\ m.dh = n.dh /\ m.ready = n.ready /\ m.owed = n.owed
         /\ m.again = n.again /\ ToSet(m.events) = ToSet(n.events) \cup ToSet(evs)
         /\ \A W : ClearEvents(n.events, W) /\ ClearEvents(evs, W) => ClearEvents(m.events, W)
  <1>1. n.events \in Seq(EventT)
    BY DEF NodeT
  <1>2. PICK s : s = n.events \o evs
    OBVIOUS
  <1>3. s \in Seq(EventT) /\ ToSet(s) = ToSet(n.events) \cup ToSet(evs)
    BY <1>1, <1>2, JoinSet
  <1>4. m = [n EXCEPT !.events = s]
    BY <1>2 DEF emit
  <1>5. /\ m \in NodeT /\ m.where = n.where /\ m.events = s /\ m.again = n.again
        /\ m.known = n.known /\ m.dh = n.dh /\ m.ready = n.ready /\ m.owed = n.owed
    BY <1>3, <1>4 DEF NodeT
  <1>6. \A W : ClearEvents(n.events, W) /\ ClearEvents(evs, W) => ClearEvents(s, W)
    BY <1>3 DEF ClearEvents
  <1> QED BY <1>2, <1>3, <1>5, <1>6

LEMMA OneEvent ==
  ASSUME NEW type \in {"appeared", "session", "dm", "changed"}, NEW p \in Peer, NEW kind \in Kind, NEW x \in Nat
  PROVE  /\ FfiEvent(type, p, kind, x) \in EventT /\ FfiEvent(type, p, kind, x).text = x
         /\ FfiEvent(type, p, kind, x).type = type /\ FfiEvent(type, p, kind, x).peer = p
         /\ FfiEvent(type, p, kind, x).kind = kind
  BY DEF FfiEvent, EventT

LEMMA MessageEvent ==
  ASSUME NEW c \in Channel, NEW x \in Nat
  PROVE  /\ FfiEvent("message", c, "text", x) \in EventT /\ FfiEvent("message", c, "text", x).text = x
         /\ FfiEvent("message", c, "text", x).type = "message" /\ FfiEvent("message", c, "text", x).peer = c
  BY DEF FfiEvent, EventT, Kind

-----------------------------------------------------------------------------
(***************************************************************************)
(* What a step does to a contact p when it queues the events es.           *)
(***************************************************************************)
Received(row) == row.kind = "text" /\ ~row.mine
Message(e) == e.type = "message"
Brings(e, p, row) == e.type = "dm" /\ e.kind = "text" /\ e.peer = p /\ e.text = row.text

\* d is s with rows of T added, also as far as the newest ones go.
Grown(d, s, T) == /\ ToSet(d) \subseteq ToSet(s) \cup T
                  /\ ToSet(Newest(d)) \subseteq ToSet(Newest(s)) \cup T

\* A marker and a text received come with their event, and a contact comes to the
\* screen or with an event for it.
Announced(p, T, es) ==
    \A row \in T :
        /\ row = Marker => /\ p \in DOMAIN Store.verified
                           /\ \E e \in ToSet(es) : e.type = "changed" /\ e.peer = p
        /\ Received(row) => p \in node.ready /\ \E e \in ToSet(es) : Brings(e, p, row)
Adds(p, n, r, u, es) ==
    /\ \E T : Grown(r.dms[p], Store.dms[p], T) /\ Announced(p, T, es)
    /\ p \in DOMAIN Store.verified => p \in DOMAIN r.verified
    /\ p \in DOMAIN r.verified => \/ p \in DOMAIN Store.verified \/ p \in DOMAIN u.peers
                                  \/ \E e \in ToSet(es) : Upserts(e) /\ e.peer = p
    /\ p \in DOMAIN ui.peers => p \in DOMAIN u.peers
    /\ Warned(ui, p) => Warned(u, p)
    /\ ToSet(ui.threads[p]) \subseteq ToSet(u.threads[p])
    /\ n.dh[p] # 0 => node.dh[p] # 0 \/ p \in DOMAIN r.verified
    /\ node.dh[p] # 0 => n.dh[p] # 0
    /\ p \in n.ready => p \in node.ready \/ node.dh[p] # 0

\* The control rows are removed and the thread is built anew.
Purges(p, n, r, u) ==
    /\ p \in DOMAIN u.peers /\ (p \in DOMAIN Store.verified => p \in DOMAIN r.verified)
    /\ \A row \in ToSet(r.dms[p]) : row # Marker /\ (Received(row) => row \in ToSet(Store.dms[p]))
    /\ ToSet(Newest(r.dms[p])) \subseteq ToSet(u.threads[p])
    /\ n.dh = node.dh /\ n.ready \subseteq node.ready

Forgets(p, r) == p \notin DOMAIN r.verified /\ r.dms[p] = << >> /\ used'["forget"] # 0

Changes(n, r, u, es) == \A p \in Peer : Adds(p, n, r, u, es) \/ Purges(p, n, r, u) \/ Forgets(p, r)

\* A step about contacts, a message of a channel, one that is stored already, a
\* post and the poll.
Deals(n, r, u) ==
    \E es \in Seq(EventT) : /\ n.events = node.events \o es /\ Changes(n, r, u, es)
                            /\ \A e \in ToSet(es) : ~Message(e)
                            /\ r.chan = Store.chan /\ u.feed = ui.feed
Hears(c, n, r, u) ==
    \E e \in EventT : /\ n.events = node.events \o <<e>> /\ Changes(n, r, u, <<e>>)
                      /\ Message(e) /\ e.peer = c /\ e.text = Text
                      /\ r.chan = [Store.chan EXCEPT ![c] = Append(Store.chan[c], Text)]
                      /\ u.feed = ui.feed
Echoes(n, r, u) ==
    \E e \in EventT : /\ n.events = node.events \o <<e>> /\ Changes(n, r, u, <<e>>)
                      /\ Message(e) /\ e.text \in n.again
                      /\ r.chan = Store.chan /\ u.feed = ui.feed
Posts(c, n, r, u) ==
    /\ n.events = node.events /\ Changes(n, r, u, << >>)
    /\ r.chan = [Store.chan EXCEPT ![c] = Append(Store.chan[c], Text)]
    /\ u.feed = [ui.feed EXCEPT ![c] = Append(ui.feed[c], Text)]
Polled(n, r, u) ==
    /\ n.events = << >> /\ n.dh = node.dh /\ n.ready = node.ready
    /\ r = Store /\ u = ShownAll(ui, node.events, Store)

Tells(n, r, u) == \/ Deals(n, r, u) \/ Polled(n, r, u) \/ Echoes(n, r, u)
                  \/ \E c \in Channel : Hears(c, n, r, u) \/ Posts(c, n, r, u)

LEMMA NewestJoin ==
  ASSUME NEW X, NEW s \in Seq(X), NEW t \in Seq(X)
  PROVE  ToSet(Newest(s \o t)) \subseteq ToSet(Newest(s)) \cup ToSet(t)
  <1> PICK N \in Nat : N = Len(s)
    OBVIOUS
  <1> PICK M \in Nat : M = Len(t)
    OBVIOUS
  <1>0. PICK q : q = s \o t
    OBVIOUS
  <1>1. /\ q \in Seq(X) /\ Len(q) = N + M /\ \A k \in 1 .. N : q[k] = s[k]
        /\ \A k \in 1 .. M : q[N + k] = t[k]
    BY <1>0
  <1>2. Limit \in Nat /\ Limit > 0
    BY ParameterAssumption
  <1>3. ASSUME NEW y \in ToSet(Newest(q))
        PROVE  \E k \in 1 .. N + M : q[k] = y /\ k > N + M - Limit
    <2>1. CASE N + M > Limit
      <3>0. N + M - Limit \in Nat
        BY <1>2, <2>1
      <3>1. PICK d \in Nat : d = N + M - Limit
        BY <3>0
      <3>2. PICK w : w = Newest(q)
        OBVIOUS
      <3>3. w = SubSeq(q, d + 1, N + M)
        <4>1. Len(q) = N + M
          BY <1>1
        <4>2. w = SubSeq(q, (N + M) - Limit + 1, N + M)
          BY <2>1, <3>2, <4>1, Zenon DEF Newest
        <4>3. d + 1 = (N + M) - Limit + 1
          BY <1>2, <3>1
        <4> QED BY <4>2, <4>3, Zenon
      <3>4. /\ w \in Seq(X) /\ Len(w) = N + M - d
            /\ \A k \in 1 .. N + M - d : w[k] = q[k + d] /\ k + d \in 1 .. N + M
        BY <1>1, <1>2, <3>1, <3>3
      <3>5. PICK k \in 1 .. N + M - d : w[k] = y
        BY <1>3, <3>2, <3>4, InSeq
      <3>6. k + d \in 1 .. N + M /\ k + d > N + M - Limit /\ q[k + d] = y
        BY <1>2, <3>1, <3>4, <3>5
      <3> QED BY <3>6
    <2>2. CASE ~(N + M > Limit)
      <3>1. Newest(q) = q
        BY <1>1, <2>2 DEF Newest
      <3>2. PICK k \in 1 .. N + M : q[k] = y
        BY <1>1, <1>3, <3>1, InSeq
      <3>3. k > N + M - Limit
        BY <1>2, <2>2
      <3> QED BY <3>2, <3>3
    <2> QED BY <2>1, <2>2
  <1>4. ASSUME NEW k \in 1 .. N, k > N + M - Limit
        PROVE  s[k] \in ToSet(Newest(s))
    <2>1. CASE N > Limit
      <3>0. N - Limit \in Nat
        BY <1>2, <2>1
      <3>1. PICK d \in Nat : d = N - Limit
        BY <3>0
      <3>2. PICK w : w = Newest(s)
        OBVIOUS
      <3>3. w = SubSeq(s, d + 1, N)
        BY <1>2, <2>1, <3>1, <3>2 DEF Newest
      <3>4. /\ w \in Seq(X) /\ Len(w) = N - d
            /\ \A i \in 1 .. N - d : w[i] = s[i + d]
        BY <1>2, <3>1, <3>3
      <3>5. k - d \in 1 .. N - d /\ (k - d) + d = k
        BY <1>2, <1>4, <3>1
      <3>6. w[k - d] = s[k]
        BY <3>4, <3>5
      <3> QED BY <3>2, <3>4, <3>5, <3>6, InSeq
    <2>2. CASE ~(N > Limit)
      <3>1. Newest(s) = s
        BY <2>2 DEF Newest
      <3> QED BY <3>1, InSeq
    <2> QED BY <2>1, <2>2
  <1>5. ASSUME NEW y \in ToSet(Newest(q))
        PROVE  y \in ToSet(Newest(s)) \cup ToSet(t)
    <2>1. PICK k \in 1 .. N + M : q[k] = y /\ k > N + M - Limit
      BY <1>3
    <2>2. CASE k \in 1 .. N
      BY <1>1, <1>4, <2>1, <2>2
    <2>3. CASE k \notin 1 .. N
      <3>1. PICK j \in 1 .. M : k = N + j
        <4>1. k - N \in 1 .. M /\ k = N + (k - N)
          BY <2>3
        <4> QED BY <4>1
      <3>2. t[j] = y
        BY <1>1, <2>1, <3>1
      <3> QED BY <3>2, InSeq
    <2> QED BY <2>2, <2>3
  <1> QED BY <1>0, <1>5

LEMMA GrownJoin ==
  ASSUME NEW s \in Seq(RowT), NEW t \in Seq(RowT)
  PROVE  Grown(s \o t, s, ToSet(t))
  BY JoinSet, NewestJoin DEF Grown

LEMMA GrownAppend ==
  ASSUME NEW s \in Seq(RowT), NEW x \in RowT
  PROVE  Grown(Append(s, x), s, {x})
  <1>1. <<x>> \in Seq(RowT) /\ ToSet(<<x>>) = {x}
    BY OneSet
  <1>2. PICK t : t = <<x>>
    OBVIOUS
  <1>3. Append(s, x) = s \o <<x>>
    OBVIOUS
  <1>4. Grown(s \o t, s, ToSet(t))
    BY <1>1, <1>2, GrownJoin
  <1> QED BY <1>1, <1>2, <1>3, <1>4

LEMMA GrownSame ==
  ASSUME NEW s
  PROVE  Grown(s, s, {})
  BY DEF Grown

LEMMA GrownTrans ==
  ASSUME NEW a, NEW b, NEW c, NEW T, NEW V, Grown(b, a, T), Grown(c, b, V)
  PROVE  Grown(c, a, T \cup V)
  BY DEF Grown

LEMMA NotNew ==
  ASSUME NEW p, NEW es
  PROVE  Announced(p, {}, es)
  BY DEF Announced

\* A row that is not a marker and not a text received needs no event.
LEMMA PlainRow ==
  ASSUME NEW p, NEW es, NEW row, row.mine \/ row.kind = "notice" \/ row.kind = "ack"
  PROVE  Announced(p, {row}, es) /\ row # Marker /\ ~Received(row)
  <1>1. ~Marker.mine /\ Marker.kind = "changed"
    BY DEF Marker, Row
  <1> QED BY <1>1 DEF Announced, Received

\* What a step about p leaves alone of the other contacts.
StoreBeside(p, r, s) ==
    /\ s.chan = r.chan
    /\ \A q \in Peer \ {p} : s.dms[q] = r.dms[q] /\ (q \in DOMAIN s.verified <=> q \in DOMAIN r.verified)
UiBeside(p, u, v) ==
    /\ v.feed = u.feed
    /\ \A q \in Peer \ {p} : /\ v.threads[q] = u.threads[q]
                             /\ q \in DOMAIN v.peers <=> q \in DOMAIN u.peers
                             /\ Warned(v, q) <=> Warned(u, q)
NodeBeside(p, n, m) ==
    \A q \in Peer \ {p} : m.dh[q] = n.dh[q] /\ (q \in m.ready <=> q \in n.ready)

LEMMA Beside ==
  ASSUME NEW p \in Peer, NEW n, NEW r, NEW u, NEW es \in Seq(EventT),
         StoreBeside(p, Store, r), UiBeside(p, ui, u), NodeBeside(p, node, n),
         n.events = node.events \o es, \A e \in ToSet(es) : ~Message(e),
         Adds(p, n, r, u, es) \/ Purges(p, n, r, u) \/ Forgets(p, r)
  PROVE  Deals(n, r, u)
  <1>1. ASSUME NEW q \in Peer \ {p}
        PROVE  Adds(q, n, r, u, es)
    <2>1. /\ r.dms[q] = Store.dms[q] /\ (q \in DOMAIN r.verified <=> q \in DOMAIN Store.verified)
          /\ u.threads[q] = ui.threads[q]
          /\ (q \in DOMAIN u.peers <=> q \in DOMAIN ui.peers) /\ (Warned(u, q) <=> Warned(ui, q))
          /\ n.dh[q] = node.dh[q] /\ (q \in n.ready <=> q \in node.ready)
      BY <1>1 DEF StoreBeside, UiBeside, NodeBeside
    <2>2. Grown(r.dms[q], Store.dms[q], {}) /\ Announced(q, {}, es)
      BY <2>1, GrownSame, NotNew
    <2> QED BY <2>1, <2>2 DEF Adds
  <1>2. Changes(n, r, u, es)
    BY <1>1 DEF Changes
  <1>3. r.chan = Store.chan /\ u.feed = ui.feed
    BY DEF StoreBeside, UiBeside
  <1> QED BY <1>2, <1>3 DEF Deals

\* Nothing about contacts.
LEMMA NoContact ==
  ASSUME NEW n, NEW r, NEW u, NEW es, r.dms = Store.dms, r.verified = Store.verified,
         u.peers = ui.peers, u.threads = ui.threads, n.dh = node.dh, n.ready = node.ready
  PROVE  Changes(n, r, u, es)
  <1>1. ASSUME NEW q \in Peer
        PROVE  Adds(q, n, r, u, es)
    <2>1. Grown(r.dms[q], Store.dms[q], {}) /\ Announced(q, {}, es)
      BY GrownSame, NotNew
    <2> QED BY <2>1 DEF Adds, Warned
  <1> QED BY <1>1 DEF Changes

LEMMA StoreBesideTrans ==
  ASSUME NEW p, NEW r, NEW s, NEW t, StoreBeside(p, r, s), StoreBeside(p, s, t)
  PROVE  StoreBeside(p, r, t)
  BY DEF StoreBeside

LEMMA PutBeside ==
  ASSUME NEW r \in StoreT, NEW p \in Peer, NEW row \in RowT, NEW s, s = put_dm(r, p, row)
  PROVE  /\ StoreBeside(p, r, s) /\ Grown(s.dms[p], r.dms[p], {row})
         /\ ToSet(s.dms[p]) = ToSet(r.dms[p]) \cup {row}
  <1>1. /\ s.verified = r.verified /\ s.chan = r.chan
        /\ s.dms = [r.dms EXCEPT ![p] = Append(r.dms[p], row)]
    BY PutDm
  <1>2. r.dms[p] \in Seq(RowT) /\ r.dms \in Rows
    BY StoreFields DEF Rows
  <1>3. s.dms[p] = Append(r.dms[p], row) /\ \A q \in Peer \ {p} : s.dms[q] = r.dms[q]
    BY <1>1, <1>2 DEF Rows
  <1> QED BY <1>1, <1>2, <1>3, GrownAppend, AppendSet DEF StoreBeside

LEMMA NewBeside ==
  ASSUME NEW r \in StoreT, NEW p \in Peer, NEW s, s = peer_or_new(r, p)
  PROVE  /\ StoreBeside(p, r, s) /\ s.dms = r.dms
         /\ DOMAIN s.verified = DOMAIN r.verified \cup {p}
  BY PeerOrNew DEF StoreBeside

LEMMA PurgeBeside ==
  ASSUME NEW r \in StoreT, NEW p \in Peer, NEW s, s = purge(r, p)
  PROVE  /\ StoreBeside(p, r, s)
         /\ \A row \in ToSet(s.dms[p]) : row \in ToSet(r.dms[p]) /\ row # Marker
  <1>1. /\ s.verified = r.verified /\ s.chan = r.chan
        /\ s.dms = [r.dms EXCEPT ![p] = Only(r.dms[p], {x \in ToSet(r.dms[p]) : ~Control(x)})]
        /\ \A row \in ToSet(s.dms[p]) : row \in ToSet(r.dms[p]) /\ ~Control(row)
    BY PurgeFacts
  <1>2. r.dms \in Rows
    BY StoreFields
  <1>3. \A q \in Peer \ {p} : s.dms[q] = r.dms[q]
    BY <1>1, <1>2 DEF Rows
  <1>4. Control(Marker)
    BY DEF Control, Marker, Row
  <1> QED BY <1>1, <1>3, <1>4 DEF StoreBeside

LEMMA SameUi ==
  ASSUME NEW p
  PROVE  UiBeside(p, ui, ui)
  BY DEF UiBeside

LEMMA OneQueued ==
  ASSUME NEW e \in EventT
  PROVE  <<e>> \in Seq(EventT) /\ ToSet(<<e>>) = {e}
  BY OneSet

LEMMA NoneQueued ==
  ASSUME TypeInv, Up
  PROVE  << >> \in Seq(EventT) /\ ToSet(<< >>) = {} /\ node.events = node.events \o << >>
  <1>1. node.events \in Seq(EventT)
    BY RunningNode
  <1> QED BY <1>1, EmptySet

-----------------------------------------------------------------------------
(***************************************************************************)
(* The steps of the Bluetooth threads.                                     *)
(***************************************************************************)
SameTrust(r, s) == \A p \in Peer : peer_verified(r, p) <=> peer_verified(s, p)
QueueFrom(n, X) == \A W : Others(W, X) /\ Clear(Store, W) /\ ClearEvents(node.events, W)
                            => ClearEvents(n.events, W)

LEMMA CoreEffect ==
  ASSUME TypeInv, NEW n \in NodeT, n.where = node.where, node.again \subseteq n.again,
         NEW r, NEW X, From(Store, r, X),
         SameTrust(Store, r), QueueFrom(n, X)
  PROVE  Effect(n, r, ui, X)
  BY DEF TypeInv, Effect, SameTrust, QueueFrom, Agree

LEMMA SameVerified ==
  ASSUME NEW r, NEW s, r.verified = s.verified
  PROVE  SameTrust(r, s)
  BY DEF SameTrust, peer_verified

LEMMA EmitOne ==
  ASSUME NEW n \in NodeT, n.events = node.events, NEW e \in EventT, NEW X, e.text \in X \cup {0},
         NEW m, m = emit(n, <<e>>)
  PROVE  /\ m \in NodeT /\ m.where = n.where /\ m.again = n.again
         /\ m.events = n.events \o <<e>> /\ QueueFrom(m, X)
  <1>1. <<e>> \in Seq(EventT) /\ ToSet(<<e>>) = {e}
    BY OneSet
  <1>2. PICK evs : evs = <<e>>
    OBVIOUS
  <1>3. /\ m \in NodeT /\ m.where = n.where /\ m.again = n.again /\ m.events = n.events \o evs
        /\ \A W : ClearEvents(n.events, W) /\ ClearEvents(evs, W) => ClearEvents(m.events, W)
    BY <1>1, <1>2, EmitFacts
  <1>4. \A W : Others(W, X) => ClearEvents(evs, W)
    BY <1>1, <1>2 DEF Others, ClearEvents
  <1> QED BY <1>2, <1>3, <1>4 DEF QueueFrom

LEMMA ReceiveMove ==
  ASSUME TypeInv, NEW p \in Peer, NEW kind \in {"text", "notice", "ack"}, decrypt_and_emit(p, kind)
  PROVE  \E n, r, u, X : Move(n, r, u, X) /\ Tells(n, r, u)
  <1>0. /\ Core /\ Spend("receive") /\ Up /\ "receive" \in Event /\ used \in [Event -> Nat]
    BY DEF decrypt_and_emit, Core, Event, TypeInv
  <1>1. /\ node \in NodeT /\ Store \in StoreT
    BY <1>0, RunningNode
  <1>2. PICK S : S = Store
    OBVIOUS
  <1>3. PICK X : X = {Text}
    OBVIOUS
  <1>4. /\ used' \in [Event -> Nat] /\ Text \in Nat /\ Text' = Text + 1
        /\ used'["wipe"] = used["wipe"] /\ used'["keystore"] = used["keystore"]
    BY <1>0, SpendFacts DEF TextEvent, Event
  <1>5. PICK x \in Nat : x = IF kind = "text" THEN Text ELSE 0
    BY <1>4
  <1>6. x \in X \cup {0} /\ kind \in Kind
    BY <1>3, <1>5 DEF Kind
  <1>7. PICK row : row = Row(FALSE, kind, x)
    OBVIOUS
  <1>8. row \in RowT /\ row.text \in X \cup {0}
    BY <1>6, <1>7, RowOther
  <1>9. PICK got : got = put_dm(S, p, row)
    OBVIOUS
  <1>10. got \in StoreT /\ got.verified = S.verified /\ From(S, got, X)
    BY <1>1, <1>2, <1>8, <1>9, PutDm
  <1>11. PICK ack : ack = Row(TRUE, "ack", 0)
    OBVIOUS
  <1>12. ack \in RowT /\ ack.text \in X \cup {0}
    BY <1>11, RowOther DEF Kind
  <1>13. PICK both : both = put_dm(got, p, ack)
    OBVIOUS
  <1>14. both \in StoreT /\ both.verified = got.verified /\ From(got, both, X)
    BY <1>10, <1>12, <1>13, PutDm
  <1>15. PICK r : r = IF kind = "notice" THEN both ELSE got
    OBVIOUS
  <1>16. From(Store, r, X) /\ r.verified = Store.verified
    BY <1>2, <1>10, <1>14, <1>15, FromTrans
  <1>17. PICK e : e = FfiEvent("dm", p, kind, x)
    OBVIOUS
  <1>18. e \in EventT /\ e.text \in X \cup {0}
    BY <1>6, <1>17, OneEvent
  <1>19. PICK m : m = emit(node, <<e>>)
    OBVIOUS
  <1>20. m \in NodeT /\ m.where = node.where /\ m.again = node.again /\ QueueFrom(m, X)
    BY <1>1, <1>18, <1>19, EmitOne
  <1>21. Effect(m, r, ui, X)
    BY <1>16, <1>20, CoreEffect, SameVerified
  <1>22. Commit(m, r)
    BY <1>2, <1>5, <1>7, <1>9, <1>11, <1>13, <1>15, <1>17, <1>19 DEF decrypt_and_emit
  <1>23. Counts(X)
    BY <1>3, <1>4 DEF Counts
  <1>24. Move(m, r, ui, X)
    BY <1>0, <1>21, <1>22, <1>23 DEF Move, Core, seen
  <1>25. PICK T : T = IF kind = "notice" THEN {row} \cup {ack} ELSE {row}
    OBVIOUS
  <1>26. /\ StoreBeside(p, Store, r) /\ Grown(r.dms[p], Store.dms[p], T)
         /\ r.verified = Store.verified
    <2>1. StoreBeside(p, S, got) /\ Grown(got.dms[p], S.dms[p], {row})
      BY <1>1, <1>2, <1>8, <1>9, PutBeside
    <2>2. StoreBeside(p, got, both) /\ Grown(both.dms[p], got.dms[p], {ack})
      BY <1>10, <1>12, <1>13, PutBeside
    <2>3. StoreBeside(p, S, both) /\ Grown(both.dms[p], S.dms[p], {row} \cup {ack})
      BY <2>1, <2>2, StoreBesideTrans, GrownTrans
    <2> QED BY <1>2, <1>15, <1>16, <1>25, <2>1, <2>3
  <1>27. /\ m.events = node.events \o <<e>> /\ m.dh = node.dh /\ m.ready = node.ready
    BY <1>1, <1>18, <1>19, OneQueued, EmitFacts
  <1>28. /\ <<e>> \in Seq(EventT) /\ ToSet(<<e>>) = {e} /\ e.type = "dm" /\ e.peer = p /\ e.kind = kind
         /\ e.text = x
    BY <1>6, <1>17, <1>18, OneQueued, OneEvent
  <1>29. Announced(p, {row}, <<e>>)
    <2>1. row.kind = kind /\ row.text = x /\ row # Marker
      <3>1. row.kind = kind /\ row.text = x
        BY <1>6, <1>7, RowOther
      <3>2. Marker.kind = "changed"
        BY DEF Marker, Row
      <3> QED BY <3>1, <3>2
    <2>2. Received(row) => Brings(e, p, row)
      BY <1>28, <2>1 DEF Received, Brings
    <2>3. p \in node.ready
      BY DEF decrypt_and_emit
    <2> QED BY <1>28, <2>1, <2>2, <2>3 DEF Announced
  <1>30. Announced(p, T, <<e>>)
    <2>1. Announced(p, {ack}, <<e>>)
      BY <1>11, PlainRow, RowOther DEF Kind
    <2> QED BY <1>25, <1>29, <2>1 DEF Announced
  <1>31. Adds(p, m, r, ui, <<e>>)
    BY <1>26, <1>27, <1>30 DEF Adds
  <1>32. NodeBeside(p, node, m) /\ ~Message(e)
    BY <1>27, <1>28 DEF NodeBeside, Message
  <1>33. Deals(m, r, ui)
    BY <1>26, <1>27, <1>28, <1>31, <1>32, SameUi, Beside
  <1> QED BY <1>24, <1>33 DEF Tells

\* A message that is new, and one that is stored already.
NewMessage(c) ==
    /\ Core /\ Spend("channel")
    /\ Commit(emit(node, <<FfiEvent("message", c, "text", Text)>>),
              [Store EXCEPT !.chan[c] = Append(@, Text)])
OldMessage(c, x) ==
    /\ Core /\ Spend("again")
    /\ Commit(emit([node EXCEPT !.again = @ \cup {x}], <<FfiEvent("message", c, "text", x)>>), Store)

LEMMA NewMove ==
  ASSUME TypeInv, NEW c \in Channel, NewMessage(c)
  PROVE  \E n, r, u, X : Move(n, r, u, X) /\ Tells(n, r, u)
  <1>0. /\ Core /\ Spend("channel") /\ Up /\ "channel" \in Event /\ used \in [Event -> Nat]
    BY DEF NewMessage, Core, Event, TypeInv
  <1>1. /\ node \in NodeT /\ Store \in StoreT
    BY <1>0, RunningNode
  <1>2. PICK S : S = Store
    OBVIOUS
  <1>3. PICK X : X = {Text}
    OBVIOUS
  <1>4. /\ used' \in [Event -> Nat] /\ Text \in Nat /\ Text' = Text + 1
        /\ used'["wipe"] = used["wipe"] /\ used'["keystore"] = used["keystore"]
    BY <1>0, SpendFacts DEF TextEvent, Event
  <1>5. PICK x \in Nat : x = Text
    BY <1>4
  <1>6. PICK r : r = Posted(S, c, x)
    OBVIOUS
  <1>7. From(S, r, X) /\ r.verified = S.verified
    <2>1. S \in StoreT /\ X = {x}
      BY <1>1, <1>2, <1>3, <1>5
    <2>2. IsPosted(S, c, x, r)
      BY <1>6, <2>1, ChanAppend
    <2> QED BY <2>1, <2>2 DEF IsPosted
  <1>8. PICK e : e = FfiEvent("message", c, "text", x)
    OBVIOUS
  <1>9. e \in EventT /\ e.text \in X \cup {0}
    BY <1>3, <1>5, <1>8, MessageEvent
  <1>10. PICK m : m = emit(node, <<e>>)
    OBVIOUS
  <1>11. m \in NodeT /\ m.where = node.where /\ m.again = node.again /\ QueueFrom(m, X)
    BY <1>1, <1>9, <1>10, EmitOne
  <1>12. From(Store, r, X) /\ r.verified = Store.verified
    BY <1>2, <1>7
  <1>13. Effect(m, r, ui, X)
    BY <1>11, <1>12, CoreEffect, SameVerified
  <1>14. Commit(m, r)
    BY <1>2, <1>5, <1>6, <1>8, <1>10 DEF NewMessage, Posted
  <1>15. Counts(X)
    BY <1>3, <1>4 DEF Counts
  <1>16. Move(m, r, ui, X)
    BY <1>0, <1>13, <1>14, <1>15 DEF Move, Core, seen
  <1>17. /\ r.verified = Store.verified /\ r.dms = Store.dms
         /\ r.chan = [Store.chan EXCEPT ![c] = Append(Store.chan[c], Text)]
    <2>1. IsPosted(S, c, x, r)
      BY <1>1, <1>2, <1>6, ChanAppend
    <2> QED BY <1>2, <1>5, <2>1 DEF IsPosted
  <1>18. m.events = node.events \o <<e>> /\ m.dh = node.dh /\ m.ready = node.ready
    BY <1>1, <1>9, <1>10, OneQueued, EmitFacts
  <1>19. Message(e) /\ e.peer = c /\ e.text = Text
    BY <1>5, <1>8, MessageEvent DEF Message
  <1>20. Changes(m, r, ui, <<e>>)
    BY <1>17, <1>18, NoContact
  <1>21. Hears(c, m, r, ui)
    BY <1>9, <1>17, <1>18, <1>19, <1>20 DEF Hears
  <1> QED BY <1>16, <1>21 DEF Tells

LEMMA OldMove ==
  ASSUME TypeInv, NEW c \in Channel, NEW x \in ToSet(Store.chan[c]), OldMessage(c, x)
  PROVE  \E n, r, u, X : Move(n, r, u, X) /\ Tells(n, r, u)
  <1>0. /\ Core /\ Spend("again") /\ Up /\ "again" \in Event /\ used \in [Event -> Nat]
    BY DEF OldMessage, Core, Event, TypeInv
  <1>1. /\ node \in NodeT /\ Store \in StoreT
    BY <1>0, RunningNode
  <1>2. PICK S : S = Store
    OBVIOUS
  <1>3. x \in Nat
    <2>1. S \in StoreT /\ x \in ToSet(S.chan[c])
      BY <1>1, <1>2
    <2>2. PICK s \in Seq(Nat) : s = S.chan[c]
      BY <2>1, StoreFields DEF Feeds
    <2> QED BY <2>1, <2>2, InSeq
  <1>4. /\ used' \in [Event -> Nat] /\ Text \in Nat /\ Text' = Text
        /\ used'["wipe"] = used["wipe"] /\ used'["keystore"] = used["keystore"]
    BY <1>0, SpendFacts DEF TextEvent, Event
  <1>5. PICK n : n = [node EXCEPT !.again = @ \cup {x}]
    OBVIOUS
  <1>6. /\ n \in NodeT /\ n.where = node.where /\ n.events = node.events /\ n.again = node.again \cup {x}
        /\ n.dh = node.dh /\ n.ready = node.ready
    BY <1>1, <1>3, <1>5 DEF NodeT
  <1>7. PICK e : e = FfiEvent("message", c, "text", x)
    OBVIOUS
  <1>8. e \in EventT /\ e.text = x /\ Message(e)
    BY <1>3, <1>7, MessageEvent DEF Message
  <1>9. PICK m : m = emit(n, <<e>>)
    OBVIOUS
  <1>10. PICK es : es = <<e>>
    OBVIOUS
  <1>11. es \in Seq(EventT) /\ ToSet(es) = {e}
    BY <1>8, <1>10, OneQueued
  <1>12. /\ m \in NodeT /\ m.where = n.where /\ m.again = n.again /\ m.events = n.events \o es
         /\ m.dh = n.dh /\ m.ready = n.ready
         /\ \A W : ClearEvents(n.events, W) /\ ClearEvents(es, W) => ClearEvents(m.events, W)
    <2>1. n \in NodeT /\ es \in Seq(EventT) /\ m = emit(n, es)
      BY <1>6, <1>9, <1>10, <1>11
    <2> QED BY <2>1, EmitFacts, Zenon
  <1>13. QueueFrom(m, {})
    <2>1. ASSUME NEW W, Clear(Store, W)
          PROVE  ClearEvents(es, W)
      <3>1. x \notin W
        BY <2>1 DEF Clear, ClearFeeds
      <3> QED BY <1>8, <1>11, <3>1 DEF ClearEvents
    <2> QED BY <1>6, <1>12, <2>1 DEF QueueFrom
  <1>14. /\ m \in NodeT /\ m.where = node.where /\ node.again \subseteq m.again
    BY <1>6, <1>12
  <1>15. From(Store, Store, {}) /\ SameTrust(Store, Store)
    BY <1>1, FromSame, SameVerified
  <1>16. Effect(m, Store, ui, {})
    BY <1>13, <1>14, <1>15, CoreEffect
  <1>17. Commit(m, Store)
    BY <1>5, <1>7, <1>9 DEF OldMessage
  <1>18. Counts({})
    BY <1>4 DEF Counts
  <1>19. Move(m, Store, ui, {})
    BY <1>0, <1>16, <1>17, <1>18 DEF Move, Core, seen
  <1>20. Changes(m, Store, ui, <<e>>)
    BY <1>6, <1>12, NoContact
  <1>21. m.events = node.events \o <<e>> /\ e.text \in m.again
    BY <1>6, <1>8, <1>10, <1>12
  <1>22. Echoes(m, Store, ui)
    BY <1>8, <1>20, <1>21 DEF Echoes
  <1> QED BY <1>19, <1>22 DEF Tells

LEMMA ChannelMove ==
  ASSUME TypeInv, NEW c \in Channel, handle_channel(c)
  PROVE  \E n, r, u, X : Move(n, r, u, X) /\ Tells(n, r, u)
  <1>1. NewMessage(c) \/ \E x \in ToSet(Store.chan[c]) : OldMessage(c, x)
    BY DEF handle_channel, NewMessage, OldMessage
  <1> QED BY <1>1, NewMove, OldMove

LEMMA SessionMove ==
  ASSUME TypeInv, NEW p \in Peer, NEW bound \in BOOLEAN, finish_session(p, bound)
  PROVE  \E n, r, u, X : Move(n, r, u, X) /\ Tells(n, r, u)
  <1>0. /\ Core /\ Spend("session") /\ Up /\ "session" \in Event /\ used \in [Event -> Nat]
    BY DEF finish_session, Core, Event, TypeInv
  <1>1. /\ node \in NodeT /\ Store \in StoreT
    BY <1>0, RunningNode
  <1>2. PICK S : S = Store
    OBVIOUS
  <1>3. PICK X : X = {}
    OBVIOUS
  <1>4. /\ used' \in [Event -> Nat] /\ Text \in Nat /\ Text' = Text
        /\ used'["wipe"] = used["wipe"] /\ used'["keystore"] = used["keystore"]
    BY <1>0, SpendFacts DEF TextEvent, Event
  <1>5. PICK row : row = Row(TRUE, "notice", 0)
    OBVIOUS
  <1>6. row \in RowT /\ row.text \in X \cup {0}
    BY <1>5, RowOther DEF Kind
  <1>7. PICK paid : paid = put_dm(S, p, row)
    OBVIOUS
  <1>8. From(S, paid, X) /\ paid.verified = S.verified
    BY <1>1, <1>2, <1>6, <1>7, PutDm
  <1>9. PICK r : r = IF bound /\ p \in node.owed THEN paid ELSE S
    OBVIOUS
  <1>10. From(Store, r, X) /\ r.verified = Store.verified
    BY <1>1, <1>2, <1>8, <1>9, FromSame
  <1>11. PICK n : n = [node EXCEPT !.ready = IF bound THEN @ \cup {p} ELSE @ \ {p},
                                   !.owed = IF bound /\ p \in node.owed THEN @ \ {p} ELSE @]
    OBVIOUS
  <1>12. n \in NodeT /\ n.where = node.where /\ n.events = node.events /\ n.again = node.again
    BY <1>1, <1>11 DEF NodeT
  <1>13. PICK e : e = FfiEvent("session", p, "text", 0)
    OBVIOUS
  <1>14. e \in EventT /\ e.text \in X \cup {0}
    BY <1>13, OneEvent DEF Kind
  <1>15. PICK m : m = emit(n, <<e>>)
    OBVIOUS
  <1>16. m \in NodeT /\ m.where = n.where /\ m.again = n.again /\ QueueFrom(m, X)
    BY <1>12, <1>14, <1>15, EmitOne
  <1>17. m.where = node.where /\ m.again = node.again
    BY <1>12, <1>16
  <1>18. Effect(m, r, ui, X)
    BY <1>10, <1>16, <1>17, CoreEffect, SameVerified
  <1>19. Commit(m, r)
    BY <1>2, <1>5, <1>7, <1>9, <1>11, <1>13, <1>15 DEF finish_session
  <1>20. Counts(X)
    BY <1>3, <1>4 DEF Counts
  <1>21. Move(m, r, ui, X)
    BY <1>0, <1>18, <1>19, <1>20 DEF Move, Core, seen
  <1>22. Announced(p, {row}, <<e>>) /\ Announced(p, {}, <<e>>)
    BY <1>5, PlainRow, NotNew, RowOther DEF Kind
  <1>23. /\ StoreBeside(p, Store, r) /\ r.verified = Store.verified
         /\ \E T : Grown(r.dms[p], Store.dms[p], T) /\ Announced(p, T, <<e>>)
    <2>1. StoreBeside(p, S, paid) /\ Grown(paid.dms[p], S.dms[p], {row})
      BY <1>1, <1>2, <1>6, <1>7, PutBeside
    <2>2. StoreBeside(p, S, S) /\ Grown(S.dms[p], S.dms[p], {})
      BY GrownSame DEF StoreBeside
    <2>3. CASE r = paid
      BY <1>2, <1>10, <1>22, <2>1, <2>3
    <2>4. CASE r = S
      BY <1>2, <1>10, <1>22, <2>2, <2>4
    <2>5. r = paid \/ r = S
      BY <1>9
    <2> QED BY <2>3, <2>4, <2>5
  <1>24. /\ n.dh = node.dh /\ (\A q \in Peer \ {p} : q \in n.ready <=> q \in node.ready)
    BY <1>1, <1>11 DEF NodeT
  <1>25. m.events = node.events \o <<e>> /\ m.dh = node.dh /\ m.ready = n.ready
    <2>1. PICK es : es = <<e>>
      OBVIOUS
    <2>2. es \in Seq(EventT)
      BY <1>14, <2>1, OneQueued
    <2>3. m.events = n.events \o es /\ m.dh = n.dh /\ m.ready = n.ready
      BY <1>12, <1>15, <2>1, <2>2, EmitFacts
    <2> QED BY <1>12, <1>24, <2>1, <2>3
  <1>26. /\ <<e>> \in Seq(EventT) /\ ToSet(<<e>>) = {e} /\ ~Message(e)
    BY <1>13, <1>14, OneQueued, OneEvent DEF Message, Kind
  <1>27. node.dh[p] # 0
    BY DEF finish_session
  <1>28. Adds(p, m, r, ui, <<e>>)
    BY <1>23, <1>25, <1>27 DEF Adds
  <1>29. NodeBeside(p, node, m)
    BY <1>24, <1>25 DEF NodeBeside
  <1>30. Deals(m, r, ui)
    BY <1>23, <1>25, <1>26, <1>28, <1>29, SameUi, Beside
  <1> QED BY <1>21, <1>30 DEF Tells

\* What was held for a peer, sent: texts of the store, in its thread once more.
Drained(r, s, p) ==
    [s EXCEPT !.dms[p] = @ \o [k \in DOMAIN r.held[p] |-> Row(TRUE, "text", r.held[p][k])],
              !.held[p] = << >>]

IsDrained(s, p, w, X) ==
    /\ From(s, w, X) /\ w \in StoreT
    /\ w.verified = s.verified /\ w.chan = s.chan
    /\ w.held = [s.held EXCEPT ![p] = << >>]
    /\ \E t \in Seq(RowT) : /\ w.dms = [s.dms EXCEPT ![p] = s.dms[p] \o t]
                            /\ \A row \in ToSet(t) : row.mine /\ row.kind = "text"

LEMMA DrainFacts ==
  ASSUME NEW s \in StoreT, NEW r, NEW p \in Peer, r.held = s.held, NEW w, w = Drained(r, s, p), NEW X
  PROVE  IsDrained(s, p, w, X)
  <1>1. s.dms[p] \in Seq(RowT) /\ s.dms \in Rows /\ s.held \in [Peer -> Seq(Nat)] /\ s.held[p] \in Seq(Nat)
    BY StoreFields DEF Rows
  <1>2. PICK h \in Seq(Nat) : h = s.held[p]
    BY <1>1
  <1>3. PICK N \in Nat : N = Len(h) /\ DOMAIN h = 1 .. N
    OBVIOUS
  <1>4. PICK t : t = [k \in 1 .. N |-> Row(TRUE, "text", h[k])]
    OBVIOUS
  <1>5. \A k \in 1 .. N : /\ t[k] \in RowT /\ t[k].text = h[k] /\ t[k].mine /\ t[k].kind = "text"
                          /\ h[k] \in ToSet(h)
    <2>1. ASSUME NEW k \in 1 .. N
          PROVE  /\ t[k] \in RowT /\ t[k].text = h[k] /\ t[k].mine /\ t[k].kind = "text"
                 /\ h[k] \in ToSet(h)
      <3>1. PICK x \in Nat : x = h[k]
        BY <1>3
      <3>2. t[k] = Row(TRUE, "text", x) /\ "text" \in Kind
        BY <1>4, <3>1 DEF Kind
      <3>3. t[k] \in RowT /\ t[k].text = x /\ t[k].mine /\ t[k].kind = "text"
        BY <3>2 DEF Row, RowT
      <3>4. h[k] \in ToSet(h)
        BY <1>3 DEF ToSet
      <3> QED BY <3>1, <3>3, <3>4
    <2> QED BY <2>1
  <1>6. t \in Seq(RowT) /\ Len(t) = N /\ DOMAIN t = 1 .. N
    <2>1. t \in [1 .. N -> RowT]
      BY <1>4, <1>5
    <2> QED BY <2>1
  <1>7. \A row \in ToSet(t) : row.mine /\ row.kind = "text" /\ row.text \in ToSet(h)
    <2>1. ASSUME NEW row \in ToSet(t)
          PROVE  row.mine /\ row.kind = "text" /\ row.text \in ToSet(h)
      <3>1. PICK k \in 1 .. N : row = t[k]
        BY <1>6 DEF ToSet
      <3> QED BY <1>5, <3>1
    <2> QED BY <2>1
  <1>8. PICK q : q = s.dms[p] \o t
    OBVIOUS
  <1>9. q \in Seq(RowT) /\ ToSet(q) = ToSet(s.dms[p]) \cup ToSet(t)
    BY <1>1, <1>6, <1>8, JoinSet
  <1>10. PICK f : f = [s.dms EXCEPT ![p] = q]
    OBVIOUS
  <1>11. /\ f \in Rows
         /\ \A W : ClearRows(s.dms, W) /\ (\A row \in ToSet(q) : row.text \notin W) => ClearRows(f, W)
    BY <1>1, <1>9, <1>10, RowsSet
  <1>12. PICK g : g = [s.held EXCEPT ![p] = << >>]
    OBVIOUS
  <1>13. /\ << >> \in Seq(Nat) /\ ToSet(<< >>) = {}
    BY EmptySet
  <1>14. g \in [Peer -> Seq(Nat)] /\ g[p] = << >> /\ \A a \in Peer : a # p => g[a] = s.held[a]
    BY <1>1, <1>12, <1>13
  <1>15. \A W : ClearHeld(s.held, W) => ClearHeld(g, W)
    BY <1>13, <1>14 DEF ClearHeld
  <1>16. w = [s EXCEPT !.dms = f, !.held = g]
    BY <1>1, <1>2, <1>3, <1>4, <1>8, <1>10, <1>12 DEF Drained, StoreT
  <1>17. /\ w \in StoreT /\ w.dms = f /\ w.held = g /\ w.chan = s.chan /\ w.verified = s.verified
    BY <1>11, <1>14, <1>16 DEF StoreT
  <1>18. ASSUME NEW W, Others(W, X), Clear(s, W)
         PROVE  Clear(w, W)
    <2>1. ClearRows(s.dms, W) /\ ClearHeld(s.held, W) /\ ClearFeeds(s.chan, W)
      BY <1>18 DEF Clear
    <2>2. \A x \in ToSet(h) : x \notin W
      BY <1>2, <2>1 DEF ClearHeld
    <2>3. \A row \in ToSet(q) : row.text \notin W
      BY <1>7, <1>9, <2>1, <2>2 DEF ClearRows
    <2> QED BY <1>11, <1>15, <1>17, <2>1, <2>3 DEF Clear
  <1>19. From(s, w, X)
    BY <1>17, <1>18 DEF From
  <1> QED BY <1>6, <1>7, <1>8, <1>10, <1>12, <1>17, <1>19 DEF IsDrained

LEMMA AnnounceMove ==
  ASSUME TypeInv, NEW p \in Peer, NEW key \in {1, 2}, handle_announce(p, key)
  PROVE  \E n, r, u, X : Move(n, r, u, X) /\ Tells(n, r, u)
  <1>0. /\ Core /\ Spend("announce") /\ Up /\ "announce" \in Event /\ used \in [Event -> Nat]
    BY DEF handle_announce, Core, Event, TypeInv
  <1>1. /\ node \in NodeT /\ Store \in StoreT
    BY <1>0, RunningNode
  <1>2. PICK S : S = Store
    OBVIOUS
  <1>3. PICK X : X = {}
    OBVIOUS
  <1>4. /\ used' \in [Event -> Nat] /\ Text \in Nat /\ Text' = Text
        /\ used'["wipe"] = used["wipe"] /\ used'["keystore"] = used["keystore"]
    BY <1>0, SpendFacts DEF TextEvent, Event
  <1>5. PICK row : row = Row(FALSE, "changed", 0)
    OBVIOUS
  <1>6. row \in RowT /\ row.text \in X \cup {0}
    BY <1>5, RowOther DEF Kind
  <1>7. PICK warned : warned = put_dm(S, p, row)
    OBVIOUS
  <1>8. /\ From(S, warned, X) /\ warned \in StoreT /\ warned.verified = S.verified
        /\ warned.held = S.held
    BY <1>1, <1>2, <1>6, <1>7, PutDm
  <1>9. PICK ch \in BOOLEAN : ch <=> (node.dh[p] \notin {0, key} /\ p \in DOMAIN S.verified)
    OBVIOUS
  <1>10. PICK marked : marked = IF ch THEN warned ELSE S
    OBVIOUS
  <1>11. /\ From(S, marked, X) /\ marked \in StoreT /\ marked.verified = S.verified
         /\ marked.held = S.held
    BY <1>1, <1>2, <1>8, <1>10, FromSame
  <1>12. PICK rec : rec = peer_or_new(marked, p)
    OBVIOUS
  <1>13. From(marked, rec, X) /\ rec \in StoreT /\ rec.held = marked.held
    BY <1>11, <1>12, PeerOrNew
  <1>14. SameTrust(rec, marked)
    BY <1>11, <1>12, PeerOrNew DEF SameTrust
  <1>15. PICK r : r = Drained(S, rec, p)
    OBVIOUS
  <1>16. From(rec, r, X) /\ r.verified = rec.verified
    <2>1. rec \in StoreT /\ S.held = rec.held
      BY <1>11, <1>13
    <2>2. IsDrained(rec, p, r, X)
      BY <1>15, <2>1, DrainFacts
    <2> QED BY <2>2 DEF IsDrained
  <1>17. From(Store, r, X)
    <2>1. From(S, rec, X)
      BY <1>11, <1>13, FromTrans
    <2>2. From(S, r, X)
      BY <1>16, <2>1, FromTrans
    <2> QED BY <1>2, <2>2
  <1>18. SameTrust(Store, r)
    BY <1>2, <1>11, <1>14, <1>16 DEF SameTrust, peer_verified
  <1>19. PICK n : n = [node EXCEPT !.dh[p] = key, !.known = @ \cup {p}]
    OBVIOUS
  <1>20. n \in NodeT /\ n.where = node.where /\ n.events = node.events /\ n.again = node.again
    <2>1. PICK d : d = [node.dh EXCEPT ![p] = key]
      OBVIOUS
    <2>2. node.dh \in [Peer -> 0 .. 2] /\ node.known \cup {p} \in SUBSET Peer /\ key \in 0 .. 2
      BY <1>1 DEF NodeT
    <2>3. d \in [Peer -> 0 .. 2]
      BY <2>1, <2>2
    <2>4. n = [node EXCEPT !.dh = d, !.known = node.known \cup {p}]
      BY <1>1, <1>19, <2>1 DEF NodeT
    <2> QED BY <1>1, <2>2, <2>3, <2>4 DEF NodeT
  <1>21. PICK e : e = FfiEvent("appeared", p, "text", 0)
    OBVIOUS
  <1>22. PICK c : c = FfiEvent("changed", p, "changed", 0)
    OBVIOUS
  <1>23. e \in EventT /\ e.text = 0 /\ c \in EventT /\ c.text = 0
    <2>1. e \in EventT /\ e.text = 0
      BY <1>21, OneEvent DEF Kind
    <2>2. c \in EventT /\ c.text = 0
      BY <1>22, OneEvent DEF Kind
    <2> QED BY <2>1, <2>2
  <1>24. PICK evs : evs = Append(IF ch THEN <<c>> ELSE << >>, e)
    OBVIOUS
  <1>25. evs \in Seq(EventT) /\ ToSet(evs) \subseteq {c, e}
    <2>1. <<c>> \in Seq(EventT) /\ ToSet(<<c>>) = {c}
      BY <1>23, OneSet
    <2>2. << >> \in Seq(EventT) /\ ToSet(<< >>) = {}
      BY EmptySet
    <2>3. PICK told : told = IF ch THEN <<c>> ELSE << >>
      OBVIOUS
    <2>4. told \in Seq(EventT) /\ ToSet(told) \subseteq {c}
      BY <2>1, <2>2, <2>3
    <2>5. evs = Append(told, e)
      BY <1>24, <2>3
    <2>6. evs \in Seq(EventT) /\ ToSet(evs) = ToSet(told) \cup {e}
      BY <1>23, <2>4, <2>5, AppendSet
    <2> QED BY <2>4, <2>6
  <1>26. PICK m : m = emit(n, evs)
    OBVIOUS
  <1>27. /\ m \in NodeT /\ m.where = n.where /\ m.again = n.again
         /\ \A W : ClearEvents(n.events, W) /\ ClearEvents(evs, W) => ClearEvents(m.events, W)
    BY <1>20, <1>25, <1>26, EmitFacts
  <1>28. \A W : Others(W, X) => ClearEvents(evs, W)
    BY <1>23, <1>25 DEF Others, ClearEvents
  <1>29. m.where = node.where /\ m.again = node.again /\ QueueFrom(m, X)
    BY <1>20, <1>27, <1>28 DEF QueueFrom
  <1>30. Effect(m, r, ui, X)
    BY <1>17, <1>18, <1>27, <1>29, CoreEffect
  <1>31. Commit(m, r)
    BY <1>2, <1>5, <1>7, <1>9, <1>10, <1>12, <1>15, <1>19, <1>21, <1>22, <1>24, <1>26
       DEF handle_announce, Drained
  <1>32. Counts(X)
    BY <1>3, <1>4 DEF Counts
  <1>33. Move(m, r, ui, X)
    BY <1>0, <1>30, <1>31, <1>32 DEF Move, Core, seen
  <1>34. e.type = "appeared" /\ e.peer = p /\ c.type = "changed" /\ c.peer = p
    BY <1>21, <1>22, OneEvent DEF Kind
  <1>35. ToSet(evs) = IF ch THEN {c, e} ELSE {e}
    <2>1. PICK told : told = IF ch THEN <<c>> ELSE << >>
      OBVIOUS
    <2>2. told \in Seq(EventT) /\ ToSet(told) = IF ch THEN {c} ELSE {}
      BY <1>23, <2>1, OneSet, EmptySet
    <2>3. evs = Append(told, e)
      BY <1>24, <2>1
    <2>4. ToSet(evs) = ToSet(told) \cup {e}
      BY <1>23, <2>2, <2>3, AppendSet
    <2>5. (ch => ToSet(told) = {c}) /\ (~ch => ToSet(told) = {})
      BY <2>2
    <2>6. ch => ToSet(evs) = {c, e}
      BY <2>4, <2>5
    <2>7. ~ch => ToSet(evs) = {e}
      BY <2>4, <2>5
    <2> QED BY <2>6, <2>7
  <1>36. /\ m.events = node.events \o evs /\ m.dh = n.dh /\ m.ready = n.ready
    <2>1. m.events = n.events \o evs /\ m.dh = n.dh /\ m.ready = n.ready
      BY <1>20, <1>25, <1>26, EmitFacts
    <2> QED BY <1>20, <2>1
  <1>37. /\ n.ready = node.ready /\ n.dh[p] # 0 /\ \A q \in Peer \ {p} : n.dh[q] = node.dh[q]
    BY <1>1, <1>19 DEF NodeT
  <1>38. PICK T : T = IF ch THEN {row} ELSE {}
    OBVIOUS
  <1>39. StoreBeside(p, S, marked) /\ Grown(marked.dms[p], S.dms[p], T)
    <2>1. StoreBeside(p, S, warned) /\ Grown(warned.dms[p], S.dms[p], {row})
      BY <1>1, <1>2, <1>6, <1>7, PutBeside
    <2>2. StoreBeside(p, S, S) /\ Grown(S.dms[p], S.dms[p], {})
      BY GrownSame DEF StoreBeside
    <2> QED BY <1>10, <1>38, <2>1, <2>2
  <1>40. /\ StoreBeside(p, marked, rec) /\ rec.dms = marked.dms
         /\ DOMAIN rec.verified = DOMAIN marked.verified \cup {p}
    BY <1>11, <1>12, NewBeside
  <1>41. PICK t \in Seq(RowT) : /\ r.dms = [rec.dms EXCEPT ![p] = rec.dms[p] \o t] /\ r.chan = rec.chan
                                /\ \A y \in ToSet(t) : y.mine /\ y.kind = "text"
    <2>1. rec \in StoreT /\ S.held = rec.held
      BY <1>11, <1>13
    <2>2. IsDrained(rec, p, r, X)
      BY <1>15, <2>1, DrainFacts
    <2> QED BY <2>2 DEF IsDrained
  <1>42. StoreBeside(p, rec, r) /\ Grown(r.dms[p], rec.dms[p], ToSet(t))
    <2>1. rec.dms \in Rows /\ rec.dms[p] \in Seq(RowT)
      BY <1>13, StoreFields DEF Rows
    <2>2. r.dms[p] = rec.dms[p] \o t /\ \A q \in Peer \ {p} : r.dms[q] = rec.dms[q]
      BY <1>41, <2>1 DEF Rows
    <2>3. Grown(rec.dms[p] \o t, rec.dms[p], ToSet(t))
      BY <2>1, GrownJoin
    <2> QED BY <1>16, <1>41, <2>2, <2>3 DEF StoreBeside
  <1>43. StoreBeside(p, S, r) /\ Grown(r.dms[p], S.dms[p], T \cup ToSet(t))
    <2>1. StoreBeside(p, S, rec) /\ Grown(rec.dms[p], S.dms[p], T)
      BY <1>39, <1>40, StoreBesideTrans
    <2> QED BY <1>42, <2>1, StoreBesideTrans, GrownTrans
  <1>44. Announced(p, T \cup ToSet(t), evs)
    <2>1. ASSUME NEW y \in ToSet(t)
          PROVE  y # Marker /\ ~Received(y)
      BY <1>41, PlainRow
    <2>2. row = Marker /\ ~Received(row)
      BY <1>5, RowOther DEF Marker, Received, Kind
    <2>3. ch => p \in DOMAIN Store.verified /\ c \in ToSet(evs)
      BY <1>2, <1>9, <1>35
    <2> QED BY <1>34, <1>38, <2>1, <2>2, <2>3 DEF Announced
  <1>45. p \in DOMAIN r.verified /\ e \in ToSet(evs) /\ Upserts(e)
    BY <1>16, <1>34, <1>35, <1>40 DEF Upserts
  <1>46. Grown(r.dms[p], Store.dms[p], T \cup ToSet(t)) /\ m.dh[p] # 0 /\ m.ready = node.ready
    BY <1>2, <1>36, <1>37, <1>43
  <1>47. Adds(p, m, r, ui, evs)
    BY <1>34, <1>44, <1>45, <1>46 DEF Adds
  <1>48. NodeBeside(p, node, m) /\ \A y \in ToSet(evs) : ~Message(y)
    BY <1>34, <1>35, <1>36, <1>37 DEF NodeBeside, Message
  <1>49. Deals(m, r, ui)
    BY <1>2, <1>25, <1>36, <1>43, <1>47, <1>48, SameUi, Beside
  <1> QED BY <1>33, <1>49 DEF Tells

-----------------------------------------------------------------------------
(***************************************************************************)
(* The steps of the ticker and of the user.                                *)
(***************************************************************************)
LEMMA TickMove ==
  ASSUME TypeInv, Tick, Up
  PROVE  \E n, r, u, X : Move(n, r, u, X) /\ Tells(n, r, u)
  <1>1. /\ node \in NodeT /\ Store \in StoreT /\ node.events \in Seq(EventT)
        /\ node.where \in {"db", "memory"} /\ ui \in UiT /\ db \in DbT
    BY RunningNode DEF TypeInv
  <1>2. PICK n : n = [node EXCEPT !.events = << >>]
    OBVIOUS
  <1>3. << >> \in Seq(EventT) /\ ToSet(<< >>) = {}
    BY EmptySet
  <1>4. n \in NodeT /\ n.where = node.where /\ n.events = << >> /\ n.mem = node.mem
        /\ n.again = node.again
    BY <1>1, <1>2, <1>3 DEF NodeT
  <1>5. PICK S : S = Store
    OBVIOUS
  <1>6. PICK evs : evs = node.events
    OBVIOUS
  <1>7. PICK u : u = ShownAll(ui, evs, S)
    OBVIOUS
  <1>8. AllShown(ui, evs, S, u)
    BY <1>1, <1>5, <1>6, <1>7, ShownAllFacts
  <1>9. /\ u \in UiT /\ (Agree(ui, S) => Agree(u, S))
        /\ \A W : 0 \notin W /\ ClearEvents(evs, W) /\ ClearUi(ui, W) => ClearUi(u, W)
    BY <1>8 DEF AllShown
  <1>10. \A W : ClearEvents(<< >>, W)
    BY <1>3 DEF ClearEvents
  <1>11. From(S, S, {})
    BY <1>1, <1>5, FromSame
  <1>12. Effect(n, S, u, {})
    BY <1>4, <1>5, <1>6, <1>9, <1>10, <1>11 DEF Effect, Others
  <1>13. /\ ui' = u /\ node' = n
         /\ UNCHANGED <<kek, vault, db, service, wiping, wanted, wiped, cut, used>>
    BY <1>2, <1>5, <1>6, <1>7 DEF Tick, disk, seen
  <1>14. Commit(n, S)
    <2>1. CASE n.where = "db"
      <3>1. S = db.rows
        BY <1>4, <1>5, <2>1 DEF Store
      <3>2. [db EXCEPT !.rows = S] = db
        BY <1>1, <3>1 DEF DbT
      <3> QED BY <1>13, <2>1, <3>2 DEF Commit
    <2>2. CASE n.where # "db"
      <3>1. S = n.mem
        BY <1>4, <1>5, <2>2 DEF Store
      <3>2. [n EXCEPT !.mem = S] = n
        BY <1>4, <3>1 DEF NodeT
      <3> QED BY <1>13, <2>2, <3>2 DEF Commit
    <2> QED BY <2>1, <2>2
  <1>15. Counts({})
    <2>1. Text' = Text /\ Text \in Nat
      BY <1>13 DEF Text, TypeInv, Event
    <2> QED BY <1>13, <2>1 DEF Counts, TypeInv
  <1>16. Move(n, S, u, {})
    BY <1>12, <1>13, <1>14, <1>15 DEF Move
  <1>17. n.dh = node.dh /\ n.ready = node.ready
    BY <1>1, <1>2 DEF NodeT
  <1>18. Polled(n, S, u)
    BY <1>4, <1>5, <1>6, <1>7, <1>17 DEF Polled
  <1> QED BY <1>16, <1>18 DEF Tells

LEMMA PostMove ==
  ASSUME TypeInv, NEW c \in Channel, Post(c)
  PROVE  \E n, r, u, X : Move(n, r, u, X) /\ Tells(n, r, u)
  <1>0. /\ Shell /\ Spend("post") /\ Up /\ "post" \in Event /\ used \in [Event -> Nat] /\ ui \in UiT
    BY DEF Post, Shell, Event, TypeInv
  <1>1. /\ node \in NodeT /\ Store \in StoreT
    BY <1>0, RunningNode
  <1>2. PICK S : S = Store
    OBVIOUS
  <1>3. PICK X : X = {Text}
    OBVIOUS
  <1>4. /\ used' \in [Event -> Nat] /\ Text \in Nat /\ Text' = Text + 1
        /\ used'["wipe"] = used["wipe"] /\ used'["keystore"] = used["keystore"]
    BY <1>0, SpendFacts DEF TextEvent, Event
  <1>5. PICK x \in Nat : x = Text
    BY <1>4
  <1>6. PICK r : r = Posted(S, c, x)
    OBVIOUS
  <1>7. From(Store, r, X) /\ r.verified = Store.verified
    <2>1. S \in StoreT /\ X = {x}
      BY <1>1, <1>2, <1>3, <1>5
    <2>2. IsPosted(S, c, x, r)
      BY <1>6, <2>1, ChanAppend
    <2> QED BY <1>2, <2>1, <2>2 DEF IsPosted
  <1>8. PICK u : u = [ui EXCEPT !.feed[c] = Append(@, x)]
    OBVIOUS
  <1>9. TextAdded(ui, c, x, u)
    BY <1>0, <1>8, ShowTextFacts
  <1>10. /\ u \in UiT /\ u.peers = ui.peers
         /\ \A W : Others(W, X) /\ ClearUi(ui, W) => ClearUi(u, W)
    BY <1>3, <1>5, <1>9 DEF TextAdded, ClearUi, Others
  <1>11. Agree(ui, Store) => Agree(u, r)
    BY <1>7, <1>10 DEF Agree, peer_verified
  <1>12. Effect(node, r, u, X)
    BY <1>1, <1>7, <1>10, <1>11 DEF Effect
  <1>13. Commit(node, r) /\ ui' = u
    BY <1>2, <1>5, <1>6, <1>8 DEF Post, Posted
  <1>14. Counts(X)
    BY <1>3, <1>4 DEF Counts
  <1>15. Move(node, r, u, X)
    BY <1>0, <1>12, <1>13, <1>14 DEF Move, Shell, seen
  <1>16. /\ r.verified = Store.verified /\ r.dms = Store.dms
         /\ r.chan = [Store.chan EXCEPT ![c] = Append(Store.chan[c], Text)]
    <2>1. IsPosted(S, c, x, r)
      BY <1>1, <1>2, <1>6, ChanAppend
    <2> QED BY <1>2, <1>5, <2>1 DEF IsPosted
  <1>17. /\ u.peers = ui.peers /\ u.threads = ui.threads
         /\ u.feed = [ui.feed EXCEPT ![c] = Append(ui.feed[c], Text)]
    BY <1>5, <1>9 DEF TextAdded
  <1>18. Changes(node, r, u, << >>)
    BY <1>16, <1>17, NoContact
  <1>19. Posts(c, node, r, u)
    BY <1>16, <1>17, <1>18 DEF Posts
  <1> QED BY <1>15, <1>19 DEF Tells

LEMMA PeersBeside ==
  ASSUME NEW p \in Peer, NEW u, NEW v, v.threads = u.threads, v.feed = u.feed,
         \A q \in Peer \ {p} : (q \in DOMAIN v.peers <=> q \in DOMAIN u.peers)
                              /\ (q \in DOMAIN u.peers => v.peers[q] = u.peers[q])
  PROVE  UiBeside(p, u, v)
  <1>1. ASSUME NEW q \in Peer \ {p}
        PROVE  /\ v.threads[q] = u.threads[q]
               /\ q \in DOMAIN v.peers <=> q \in DOMAIN u.peers
               /\ Warned(v, q) <=> Warned(u, q)
    <2>1. q \in DOMAIN v.peers <=> q \in DOMAIN u.peers
      OBVIOUS
    <2>2. CASE q \in DOMAIN u.peers
      <3>1. v.peers[q] = u.peers[q]
        BY <2>2
      <3> QED BY <2>1, <3>1 DEF Warned
    <2>3. CASE q \notin DOMAIN u.peers
      BY <2>1, <2>3 DEF Warned
    <2> QED BY <2>1, <2>2, <2>3
  <1> QED BY <1>1, Zenon DEF UiBeside

ThreadIs(p, u, t, v) == v.threads = [u.threads EXCEPT ![p] = t]

LEMMA ThreadBeside ==
  ASSUME NEW p \in Peer, NEW u \in UiT, NEW v, v.peers = u.peers, v.feed = u.feed,
         NEW t, ThreadIs(p, u, t, v)
  PROVE  UiBeside(p, u, v) /\ v.threads[p] = t
  <1>1. u.threads \in Rows
    BY UiFields
  <1>2. v.threads[p] = t /\ \A q \in Peer \ {p} : v.threads[q] = u.threads[q]
    BY <1>1 DEF Rows, ThreadIs
  <1> QED BY <1>2 DEF UiBeside, Warned

LEMMA UiBesideTrans ==
  ASSUME NEW p, NEW u, NEW v, NEW w, UiBeside(p, u, v), UiBeside(p, v, w)
  PROVE  UiBeside(p, u, w)
  BY DEF UiBeside

\* The commands about a contact: what remains is their effect.
LEMMA ContactMove ==
  ASSUME TypeInv, NEW ev \in Event \ {"wipe", "keystore"}, NEW n, NEW r, NEW u, Contact(ev, n, r, u), NEW X,
         X = IF ev \in TextEvent THEN {Text} ELSE {},
         Effect(n, r, u, X)
  PROVE  Move(n, r, u, X)
  <1>0. Shell /\ Spend(ev) /\ Up /\ used \in [Event -> Nat] /\ Commit(n, r) /\ ui' = u
    BY DEF Contact, Shell, TypeInv
  <1>1. /\ used' \in [Event -> Nat] /\ Text \in Nat
        /\ (ev \in TextEvent => Text' = Text + 1) /\ (ev \notin TextEvent => Text' = Text)
        /\ \A e \in Event : e # ev => used'[e] = used[e]
    BY <1>0, SpendFacts
  <1>2. used'["wipe"] = used["wipe"] /\ used'["keystore"] = used["keystore"]
    BY <1>1 DEF Event
  <1>3. Counts(X)
    BY <1>1, <1>2 DEF Counts
  <1> QED BY <1>0, <1>3 DEF Move, Shell, seen

LEMMA ContactPeer ==
  ASSUME TypeInv, NEW p \in DOMAIN ui.peers
  PROVE  p \in Peer
  BY BadgeFields DEF TypeInv

HeldAlso(r, p, x, now) == [r EXCEPT !.held[p] = IF now THEN @ ELSE Append(@, x)]

IsHeldAlso(r, p, x, w) ==
    /\ From(r, w, {x}) /\ w \in StoreT
    /\ w.verified = r.verified /\ w.dms = r.dms /\ w.chan = r.chan

LEMMA HoldFacts ==
  ASSUME NEW r \in StoreT, NEW p \in Peer, NEW x \in Nat, NEW now \in BOOLEAN,
         NEW w, w = HeldAlso(r, p, x, now)
  PROVE  IsHeldAlso(r, p, x, w)
  <1>1. r.held \in [Peer -> Seq(Nat)] /\ r.held[p] \in Seq(Nat)
    BY StoreFields
  <1>2. PICK s : s = IF now THEN r.held[p] ELSE Append(r.held[p], x)
    OBVIOUS
  <1>3. s \in Seq(Nat) /\ ToSet(s) \subseteq ToSet(r.held[p]) \cup {x}
    BY <1>1, <1>2, AppendSet
  <1>4. PICK f : f = [r.held EXCEPT ![p] = s]
    OBVIOUS
  <1>5. /\ f \in [Peer -> Seq(Nat)]
        /\ \A W : ClearHeld(r.held, W) /\ (\A y \in ToSet(s) : y \notin W) => ClearHeld(f, W)
    BY <1>1, <1>3, <1>4, HeldSet
  <1>6. w = WithHeld(r, f)
    BY <1>2, <1>4 DEF WithHeld, StoreT, HeldAlso
  <1>7. /\ w \in StoreT /\ w.dms = r.dms /\ w.held = f /\ w.chan = r.chan
        /\ w.verified = r.verified
    BY <1>5, <1>6, StoreSet
  <1>8. ASSUME NEW W, Others(W, {x}), Clear(r, W)
        PROVE  Clear(w, W)
    <2>1. ClearRows(r.dms, W) /\ ClearHeld(r.held, W) /\ ClearFeeds(r.chan, W)
      BY <1>8 DEF Clear
    <2>2. \A y \in ToSet(s) : y \notin W
      BY <1>3, <1>8, <2>1 DEF Others, ClearHeld
    <2> QED BY <1>5, <1>7, <2>1, <2>2 DEF Clear
  <1>9. From(r, w, {x})
    BY <1>7, <1>8 DEF From
  <1> QED BY <1>7, <1>9 DEF IsHeldAlso

LEMMA SendMove ==
  ASSUME TypeInv, NEW p, sendDm(p)
  PROVE  \E n, r, u, X : Move(n, r, u, X) /\ Tells(n, r, u)
  <1>0. Up /\ ui \in UiT /\ p \in Peer /\ used \in [Event -> Nat]
    BY ContactPeer DEF sendDm, Contact, Shell, TypeInv
  <1>1. /\ node \in NodeT /\ Store \in StoreT
    BY <1>0, RunningNode
  <1>2. PICK S : S = Store
    OBVIOUS
  <1>3. Text \in Nat
    BY <1>0 DEF Text, Event
  <1>4. PICK x \in Nat : x = Text
    BY <1>3
  <1>5. PICK row : row = Row(TRUE, "text", x)
    OBVIOUS
  <1>6. row \in RowT /\ row.text \in {x} \cup {0} /\ row.text = x
    BY <1>5, RowOther DEF Kind
  <1>7. PICK s : s = put_dm(S, p, row)
    OBVIOUS
  <1>8. From(S, s, {x}) /\ s \in StoreT /\ s.verified = S.verified
    BY <1>0, <1>1, <1>2, <1>6, <1>7, PutDm
  <1>9. PICK now \in BOOLEAN : now <=> p \in node.ready \cup node.known
    OBVIOUS
  <1>10. PICK r : r = HeldAlso(s, p, x, now)
    OBVIOUS
  <1>11. IsHeldAlso(s, p, x, r)
    BY <1>0, <1>8, <1>10, HoldFacts
  <1>12. From(s, r, {x}) /\ r.verified = s.verified
    BY <1>11 DEF IsHeldAlso
  <1>13. From(Store, r, {x}) /\ r.verified = Store.verified
    BY <1>2, <1>8, <1>12, FromTrans
  <1>14. PICK u : u = showRow(ui, p, row)
    OBVIOUS
  <1>15. RowAdded(ui, p, row, u)
    BY <1>0, <1>6, <1>14, ShowRowFacts
  <1>16. /\ u \in UiT /\ u.peers = ui.peers
         /\ \A W : Others(W, {x}) /\ ClearUi(ui, W) => ClearUi(u, W)
    BY <1>6, <1>15 DEF RowAdded, ClearUi, Others
  <1>17. Agree(ui, Store) => Agree(u, r)
    BY <1>13, <1>16 DEF Agree, peer_verified
  <1>18. Effect(node, r, u, {x})
    BY <1>1, <1>13, <1>16, <1>17 DEF Effect
  <1>19. Contact("dm", node, r, u)
    BY <1>2, <1>4, <1>5, <1>7, <1>9, <1>10, <1>14 DEF sendDm, HeldAlso
  <1>20. "dm" \in Event \ {"wipe", "keystore"} /\ {x} = IF "dm" \in TextEvent THEN {Text} ELSE {}
    BY <1>4 DEF Event, TextEvent
  <1>21. Move(node, r, u, {x})
    BY <1>18, <1>19, <1>20, ContactMove
  <1>22. StoreBeside(p, Store, r) /\ Grown(r.dms[p], Store.dms[p], {row})
    <2>1. StoreBeside(p, S, s) /\ Grown(s.dms[p], S.dms[p], {row})
      BY <1>0, <1>1, <1>2, <1>6, <1>7, PutBeside
    <2>2. r.dms = s.dms /\ r.verified = s.verified /\ r.chan = s.chan
      BY <1>11 DEF IsHeldAlso
    <2> QED BY <1>2, <2>1, <2>2 DEF StoreBeside
  <1>23. UiBeside(p, ui, u) /\ ToSet(ui.threads[p]) \subseteq ToSet(u.threads[p])
    <2>1. u.feed = ui.feed /\ u.threads = [ui.threads EXCEPT ![p] = Append(ui.threads[p], row)]
      BY <1>15 DEF RowAdded
    <2>2. UiBeside(p, ui, u) /\ u.threads[p] = Append(ui.threads[p], row)
      <3>1. PICK t : t = Append(ui.threads[p], row)
        OBVIOUS
      <3>2. ThreadIs(p, ui, t, u)
        BY <2>1, <3>1 DEF ThreadIs
      <3>3. p \in Peer /\ ui \in UiT /\ u.peers = ui.peers /\ u.feed = ui.feed
        BY <1>0, <1>16, <2>1
      <3>4. UiBeside(p, ui, u) /\ u.threads[p] = t
        BY <3>2, <3>3, ThreadBeside
      <3> QED BY <3>1, <3>4
    <2>3. ui.threads[p] \in Seq(RowT)
      BY <1>0, UiFields DEF Rows
    <2>4. ToSet(Append(ui.threads[p], row)) = ToSet(ui.threads[p]) \cup {row}
      BY <1>6, <2>3, AppendSet
    <2> QED BY <2>2, <2>4
  <1>24. Announced(p, {row}, << >>)
    BY <1>5, PlainRow, RowOther DEF Kind
  <1>25. Adds(p, node, r, u, << >>)
    BY <1>13, <1>16, <1>22, <1>23, <1>24 DEF Adds, Warned
  <1>26. Deals(node, r, u)
    BY <1>0, <1>22, <1>23, <1>25, NoneQueued, Beside DEF NodeBeside
  <1> QED BY <1>21, <1>26 DEF Tells

ThreadSetTo(u, p, s, v) ==
    /\ v \in UiT /\ v.peers = u.peers /\ v.feed = u.feed
    /\ v.threads = [u.threads EXCEPT ![p] = s]
    /\ \A W : ClearUi(u, W) /\ (\A row \in ToSet(s) : row.text \notin W) => ClearUi(v, W)

LEMMA ShowThread ==
  ASSUME NEW u \in UiT, NEW p \in Peer, NEW s \in Seq(RowT),
         NEW v, v = WithThreads(u, [u.threads EXCEPT ![p] = s])
  PROVE  ThreadSetTo(u, p, s, v)
  <1>1. u.threads \in Rows
    BY UiFields
  <1>2. PICK f : f = [u.threads EXCEPT ![p] = s]
    OBVIOUS
  <1>3. /\ f \in Rows
        /\ \A W : ClearRows(u.threads, W) /\ (\A x \in ToSet(s) : x.text \notin W) => ClearRows(f, W)
    BY <1>1, <1>2, RowsSet
  <1>4. v \in UiT /\ v.peers = u.peers /\ v.threads = f /\ v.feed = u.feed
    BY <1>2, <1>3, UiSet
  <1> QED BY <1>2, <1>3, <1>4 DEF ThreadSetTo, ClearUi

LEMMA History ==
  ASSUME NEW r \in StoreT, NEW p \in Peer, NEW s, s = dm_history(r, p)
  PROVE  /\ s \in Seq(RowT) /\ ToSet(s) \subseteq ToSet(r.dms[p])
         /\ \A W : Clear(r, W) => \A row \in ToSet(s) : row.text \notin W
  <1>1. r.dms[p] \in Seq(RowT)
    BY StoreFields DEF Rows
  <1>2. s \in Seq(RowT) /\ ToSet(s) \subseteq ToSet(r.dms[p])
    BY <1>1, NewestSet DEF dm_history
  <1> QED BY <1>2 DEF Clear, ClearRows

LEMMA PetnameMove ==
  ASSUME TypeInv, NEW p, setPetname(p)
  PROVE  \E n, r, u, X : Move(n, r, u, X) /\ Tells(n, r, u)
  <1>0. Up /\ ui \in UiT /\ p \in Peer
    BY ContactPeer DEF setPetname, Contact, Shell, TypeInv
  <1>1. /\ node \in NodeT /\ Store \in StoreT
    BY <1>0, RunningNode
  <1>2. PICK S : S = Store
    OBVIOUS
  <1>3. PICK r : r = peer_or_new(S, p)
    OBVIOUS
  <1>4. From(S, r, {})
    BY <1>0, <1>1, <1>2, <1>3, PeerOrNew
  <1>5. SameTrust(r, S)
    BY <1>0, <1>1, <1>2, <1>3, PeerOrNew DEF SameTrust
  <1>6. PICK b : b = Badge(peer_verified(S, p), FALSE, FALSE)
    OBVIOUS
  <1>7. Says(b, S, p)
    BY <1>6 DEF Says, Badge, BadgeT, peer_verified
  <1>8. PICK u : u = upsertPeer(ui, p, b)
    OBVIOUS
  <1>9. u \in UiT /\ u.threads = ui.threads /\ u.feed = ui.feed /\ (Agree(ui, S) => Agree(u, S))
    BY <1>0, <1>7, <1>8, UpsertShows
  <1>10. Agree(ui, S) => Agree(u, r)
    BY <1>5, <1>9 DEF Agree, SameTrust
  <1>11. Effect(node, r, u, {})
    BY <1>1, <1>2, <1>4, <1>9, <1>10 DEF Effect, ClearUi
  <1>12. Contact("petname", node, r, u)
    BY <1>2, <1>3, <1>6, <1>8 DEF setPetname
  <1>13. "petname" \in Event \ {"wipe", "keystore"} /\ {} = IF "petname" \in TextEvent THEN {Text} ELSE {}
    BY DEF Event, TextEvent
  <1>14. Move(node, r, u, {})
    BY <1>11, <1>12, <1>13, ContactMove
  <1>15. /\ StoreBeside(p, Store, r) /\ r.dms = Store.dms
         /\ DOMAIN r.verified = DOMAIN Store.verified \cup {p}
    BY <1>0, <1>1, <1>2, <1>3, NewBeside
  <1>16. /\ DOMAIN u.peers = DOMAIN ui.peers \cup {p}
         /\ \A q \in Peer : Warned(ui, q) => Warned(u, q)
         /\ \A q \in DOMAIN ui.peers : q # p => u.peers[q] = ui.peers[q]
    <2>1. b \in BadgeT
      BY <1>7 DEF Says
    <2>2. \A q \in DOMAIN ui.peers : q # p => u.peers[q] = ui.peers[q]
      BY <1>0, <1>8, <2>1, UpsertFacts
    <2>3. DOMAIN u.peers = DOMAIN ui.peers \cup {p} /\ \A q \in Peer : Warned(ui, q) => Warned(u, q)
      BY <1>0, <1>7, <1>8, UpsertShows
    <2> QED BY <2>2, <2>3
  <1>17. UiBeside(p, ui, u)
    BY <1>0, <1>9, <1>16, PeersBeside
  <1>18. Grown(r.dms[p], Store.dms[p], {}) /\ Announced(p, {}, << >>)
    BY <1>15, GrownSame, NotNew
  <1>19. Adds(p, node, r, u, << >>)
    BY <1>0, <1>9, <1>15, <1>16, <1>18 DEF Adds
  <1>20. Deals(node, r, u)
    BY <1>0, <1>15, <1>17, <1>19, NoneQueued, Beside DEF NodeBeside
  <1> QED BY <1>14, <1>20 DEF Tells

LEMMA ForgetMove ==
  ASSUME TypeInv, NEW p, forget(p)
  PROVE  \E n, r, u, X : Move(n, r, u, X) /\ Tells(n, r, u)
  <1>0. Up /\ ui \in UiT /\ p \in Peer
    BY ContactPeer DEF forget, Contact, Shell, TypeInv
  <1>1. /\ node \in NodeT /\ Store \in StoreT
    BY <1>0, RunningNode
  <1>2. PICK S : S = Store
    OBVIOUS
  <1>3. PICK f : f = Without(S.verified, p)
    OBVIOUS
  <1>4. /\ f \in Partial(BOOLEAN) /\ DOMAIN f = DOMAIN S.verified \ {p}
        /\ \A q \in DOMAIN S.verified : q # p => f[q] = S.verified[q]
    <2>1. S.verified \in Partial(BOOLEAN)
      BY <1>1, <1>2, StoreFields
    <2> QED BY <1>3, <2>1, PartialWithout
  <1>5. PICK s : s = WithVerified(S, f)
    OBVIOUS
  <1>6. From(S, s, {}) /\ s \in StoreT /\ s.verified = f /\ s.dms = S.dms
    BY <1>1, <1>2, <1>4, <1>5, VerifiedSet, StoreSet
  <1>7. << >> \in Seq(RowT) /\ ToSet(<< >>) = {}
    BY EmptySet
  <1>8. PICK r : r = WithDms(s, [s.dms EXCEPT ![p] = << >>])
    OBVIOUS
  <1>9. From(s, r, {}) /\ r.verified = f
    BY <1>0, <1>6, <1>7, <1>8, ThreadSet
  <1>10. From(Store, r, {})
    BY <1>2, <1>6, <1>9, FromTrans
  <1>11. PICK g : g = Without(ui.peers, p)
    OBVIOUS
  <1>12. /\ g \in Partial(BadgeT) /\ DOMAIN g = DOMAIN ui.peers \ {p}
         /\ \A q \in DOMAIN ui.peers : q # p => g[q] = ui.peers[q]
    <2>1. ui.peers \in Partial(BadgeT)
      BY <1>0, UiFields
    <2> QED BY <1>11, <2>1, PartialWithout
  <1>13. PICK v : v = WithPeers(ui, g)
    OBVIOUS
  <1>14. v \in UiT /\ v.peers = g /\ v.threads = ui.threads /\ v.feed = ui.feed
    BY <1>0, <1>12, <1>13, UiSet
  <1>15. PICK u : u = WithThreads(v, [v.threads EXCEPT ![p] = << >>])
    OBVIOUS
  <1>16. ThreadSetTo(v, p, << >>, u)
    BY <1>0, <1>7, <1>14, <1>15, ShowThread
  <1>17. /\ u \in UiT /\ u.peers = g
         /\ \A W : ClearUi(ui, W) => ClearUi(u, W)
    BY <1>7, <1>14, <1>16 DEF ThreadSetTo, ClearUi
  <1>18. Agree(ui, Store) => Agree(u, r)
    BY <1>2, <1>4, <1>9, <1>12, <1>17 DEF Agree, peer_verified
  <1>19. PICK n : n = [node EXCEPT !.ready = @ \ {p}, !.owed = @ \ {p}, !.known = @ \ {p}]
    OBVIOUS
  <1>20. n \in NodeT /\ n.where = node.where /\ n.events = node.events /\ n.again = node.again
    BY <1>1, <1>19 DEF NodeT
  <1>21. Effect(n, r, u, {})
    BY <1>10, <1>17, <1>18, <1>20 DEF Effect
  <1>22. r = [S EXCEPT !.verified = Without(@, p), !.dms[p] = << >>]
    BY <1>1, <1>2, <1>3, <1>5, <1>8 DEF WithVerified, WithDms, StoreT
  <1>23. u = [ui EXCEPT !.peers = Without(@, p), !.threads[p] = << >>]
    BY <1>0, <1>11, <1>13, <1>15 DEF WithPeers, WithThreads, UiT
  <1>24. Contact("forget", n, r, u)
    BY <1>2, <1>19, <1>22, <1>23 DEF forget
  <1>25. "forget" \in Event \ {"wipe", "keystore"} /\ {} = IF "forget" \in TextEvent THEN {Text} ELSE {}
    BY DEF Event, TextEvent
  <1>26. Move(n, r, u, {})
    BY <1>21, <1>24, <1>25, ContactMove
  <1>27. /\ StoreBeside(p, Store, r) /\ r.dms[p] = << >> /\ p \notin DOMAIN r.verified
    <2>1. S.dms \in Rows /\ s.chan = S.chan
      BY <1>1, <1>2, <1>4, <1>5, StoreFields, StoreSet
    <2>2. PICK d : d = [s.dms EXCEPT ![p] = << >>]
      OBVIOUS
    <2>3. d \in Rows /\ d[p] = << >> /\ \A q \in Peer \ {p} : d[q] = S.dms[q]
      BY <1>0, <1>6, <1>7, <2>1, <2>2 DEF Rows
    <2>4. r.dms = d /\ r.chan = s.chan
      BY <1>6, <1>8, <2>2, <2>3, StoreSet
    <2>5. \A q \in Peer \ {p} : q \in DOMAIN r.verified <=> q \in DOMAIN S.verified
      BY <1>4, <1>9
    <2>6. p \notin DOMAIN r.verified
      BY <1>4, <1>9
    <2> QED BY <1>2, <2>1, <2>3, <2>4, <2>5, <2>6 DEF StoreBeside
  <1>28. UiBeside(p, ui, u)
    <2>1. UiBeside(p, ui, v)
      BY <1>0, <1>12, <1>14, PeersBeside
    <2>2. UiBeside(p, v, u)
      BY <1>0, <1>14, <1>16, ThreadBeside DEF ThreadSetTo, ThreadIs
    <2> QED BY <2>1, <2>2, UiBesideTrans
  <1>29. NodeBeside(p, node, n)
    BY <1>1, <1>19 DEF NodeBeside, NodeT
  <1>30. used'["forget"] # 0
    <2>1. Spend("forget") /\ "forget" \in Event /\ used \in [Event -> Nat]
      BY <1>24 DEF Contact, TypeInv, Event
    <2>2. used'["forget"] = used["forget"] + 1 /\ used["forget"] \in Nat
      BY <2>1, SpendFacts
    <2> QED BY <2>2
  <1>31. Forgets(p, r)
    BY <1>27, <1>30 DEF Forgets
  <1>32. n.events = node.events \o << >> /\ << >> \in Seq(EventT) /\ \A y \in ToSet(<< >>) : ~Message(y)
    BY <1>0, <1>20, NoneQueued
  <1>33. Deals(n, r, u)
    BY <1>0, <1>27, <1>28, <1>29, <1>31, <1>32, Beside
  <1> QED BY <1>26, <1>33 DEF Tells

LEMMA UnverifyMove ==
  ASSUME TypeInv, NEW p, unverify(p)
  PROVE  \E n, r, u, X : Move(n, r, u, X) /\ Tells(n, r, u)
  <1>0. Up /\ ui \in UiT /\ p \in Peer /\ p \in DOMAIN ui.peers
    BY ContactPeer DEF unverify, Contact, Shell, TypeInv
  <1>1. /\ node \in NodeT /\ Store \in StoreT
    BY <1>0, RunningNode
  <1>2. PICK S : S = Store
    OBVIOUS
  <1>3. PICK f : f = [q \in DOMAIN S.verified |-> S.verified[q] /\ q # p]
    OBVIOUS
  <1>4. /\ f \in Partial(BOOLEAN) /\ DOMAIN f = DOMAIN S.verified
        /\ \A q \in DOMAIN S.verified : f[q] <=> (S.verified[q] /\ q # p)
    <2>1. S.verified \in Partial(BOOLEAN)
      BY <1>1, <1>2, StoreFields
    <2>2. DOMAIN S.verified \subseteq Peer /\ S.verified \in [DOMAIN S.verified -> BOOLEAN]
      BY <2>1, PartialMeans
    <2>3. f \in [DOMAIN S.verified -> BOOLEAN] /\ DOMAIN f = DOMAIN S.verified
      BY <1>3, <2>2
    <2>4. f \in Partial(BOOLEAN)
      BY <2>2, <2>3, PartialMeans
    <2>5. \A q \in DOMAIN S.verified : f[q] <=> (S.verified[q] /\ q # p)
      BY <1>3
    <2> QED BY <2>3, <2>4, <2>5
  <1>5. PICK s : s = WithVerified(S, f)
    OBVIOUS
  <1>6. From(S, s, {}) /\ s \in StoreT /\ s.verified = f
    BY <1>1, <1>2, <1>4, <1>5, VerifiedSet, StoreSet
  <1>7. PICK r : r = purge(s, p)
    OBVIOUS
  <1>8. From(s, r, {}) /\ r.verified = f /\ r \in StoreT
    BY <1>0, <1>6, <1>7, PurgeFacts
  <1>9. From(Store, r, {})
    BY <1>2, <1>6, <1>8, FromTrans
  <1>10. PICK h : h = dm_history(r, p)
    OBVIOUS
  <1>11. h \in Seq(RowT) /\ \A W : Clear(r, W) => \A row \in ToSet(h) : row.text \notin W
    BY <1>0, <1>8, <1>10, History
  <1>12. PICK v : v = WithThreads(ui, [ui.threads EXCEPT ![p] = h])
    OBVIOUS
  <1>13. ThreadSetTo(ui, p, h, v)
    BY <1>0, <1>11, <1>12, ShowThread
  <1>14. /\ v \in UiT /\ v.peers = ui.peers
         /\ \A W : ClearUi(ui, W) /\ Clear(r, W) => ClearUi(v, W)
    BY <1>11, <1>13 DEF ThreadSetTo
  <1>15. PICK b : b = Badge(FALSE, FALSE, v.peers[p].keyChanged)
    OBVIOUS
  <1>16. v.peers[p].keyChanged \in BOOLEAN
    BY <1>0, <1>14, BadgeFields
  <1>17. b \in BadgeT /\ ~b.verified
    BY <1>15, <1>16 DEF Badge, BadgeT
  <1>18. PICK u : u = WithPeers(v, [v.peers EXCEPT ![p] = b])
    OBVIOUS
  <1>19. BadgeGiven(v, p, b, u)
    BY <1>0, <1>14, <1>17, <1>18, BadgeSet
  <1>20. /\ u \in UiT /\ DOMAIN u.peers = DOMAIN ui.peers /\ u.peers[p] = b
         /\ \A q \in DOMAIN ui.peers : q # p => u.peers[q] = ui.peers[q]
         /\ \A W : ClearUi(ui, W) /\ Clear(r, W) => ClearUi(u, W)
    BY <1>14, <1>19 DEF BadgeGiven, ClearUi
  <1>21. ASSUME Agree(ui, Store), NEW q \in Peer
         PROVE  (q \in DOMAIN u.peers /\ u.peers[q].verified) <=> peer_verified(r, q)
    <2>1. (q \in DOMAIN ui.peers /\ ui.peers[q].verified) <=> (q \in DOMAIN S.verified /\ S.verified[q])
      BY <1>2, <1>21 DEF Agree, peer_verified
    <2>2. peer_verified(r, q) <=> (q \in DOMAIN S.verified /\ S.verified[q] /\ q # p)
      BY <1>4, <1>8 DEF peer_verified
    <2>3. CASE q = p
      BY <1>17, <1>20, <2>2, <2>3
    <2>4. CASE q # p
      BY <1>20, <2>1, <2>2, <2>4
    <2> QED BY <2>3, <2>4
  <1>22. \A W : Others(W, {}) /\ Clear(Store, W) => Clear(r, W)
    BY <1>9 DEF From
  <1>23. PICK n : n = [node EXCEPT !.ready = @ \ {p}, !.owed = @ \ {p}]
    OBVIOUS
  <1>24. n \in NodeT /\ n.where = node.where /\ n.events = node.events /\ n.again = node.again
    BY <1>1, <1>23 DEF NodeT
  <1>25. Agree(ui, Store) => Agree(u, r)
    BY <1>21 DEF Agree
  <1>26. Effect(n, r, u, {})
    BY <1>9, <1>20, <1>22, <1>24, <1>25 DEF Effect
  <1>27. u = Unverified(v, p)
    BY <1>0, <1>14, <1>15, <1>18, BadgeParts DEF Unverified
  <1>28. Contact("unverify", n, r, u)
    BY <1>2, <1>3, <1>5, <1>7, <1>10, <1>12, <1>23, <1>27 DEF unverify, WithVerified, WithThreads
  <1>29. "unverify" \in Event \ {"wipe", "keystore"} /\ {} = IF "unverify" \in TextEvent THEN {Text} ELSE {}
    BY DEF Event, TextEvent
  <1>30. Move(n, r, u, {})
    BY <1>26, <1>28, <1>29, ContactMove
  <1>31. s.dms = S.dms /\ s.chan = S.chan
    BY <1>1, <1>2, <1>4, <1>5, StoreSet
  <1>32. StoreBeside(p, Store, r) /\ \A row \in ToSet(r.dms[p]) : row \in ToSet(Store.dms[p]) /\ row # Marker
    <2>1. StoreBeside(p, S, s)
      BY <1>4, <1>6, <1>31 DEF StoreBeside
    <2>2. StoreBeside(p, s, r) /\ \A row \in ToSet(r.dms[p]) : row \in ToSet(s.dms[p]) /\ row # Marker
      BY <1>0, <1>6, <1>7, PurgeBeside
    <2> QED BY <1>2, <1>31, <2>1, <2>2, StoreBesideTrans
  <1>33. UiBeside(p, ui, u) /\ u.threads[p] = h
    <2>1. UiBeside(p, ui, v) /\ v.threads[p] = h
      BY <1>0, <1>13, ThreadBeside DEF ThreadSetTo, ThreadIs
    <2>2. u.threads = v.threads /\ u.feed = v.feed /\ DOMAIN u.peers = DOMAIN v.peers
          /\ \A q \in DOMAIN v.peers : q # p => u.peers[q] = v.peers[q]
      BY <1>19 DEF BadgeGiven
    <2>3. UiBeside(p, v, u)
      BY <1>0, <2>2, PeersBeside
    <2> QED BY <2>1, <2>2, <2>3, UiBesideTrans
  <1>34. n.dh = node.dh /\ n.ready \subseteq node.ready /\ NodeBeside(p, node, n)
    BY <1>1, <1>23 DEF NodeBeside, NodeT
  <1>35. Purges(p, n, r, u)
    <2>1. p \in DOMAIN u.peers /\ (p \in DOMAIN Store.verified => p \in DOMAIN r.verified)
      BY <1>0, <1>2, <1>4, <1>8, <1>20
    <2>2. h = Newest(r.dms[p])
      BY <1>10 DEF dm_history
    <2> QED BY <1>32, <1>33, <1>34, <2>1, <2>2 DEF Purges
  <1>36. n.events = node.events \o << >> /\ << >> \in Seq(EventT) /\ \A y \in ToSet(<< >>) : ~Message(y)
    BY <1>0, <1>24, NoneQueued
  <1>37. Deals(n, r, u)
    BY <1>0, <1>32, <1>33, <1>34, <1>35, <1>36, Beside
  <1> QED BY <1>30, <1>37 DEF Tells

LEMMA TrustSet ==
  ASSUME NEW r \in StoreT, NEW p \in DOMAIN r.verified, NEW w, w = [r EXCEPT !.verified[p] = TRUE]
  PROVE  /\ From(r, w, {}) /\ w \in StoreT /\ w.dms = r.dms /\ w.held = r.held /\ w.chan = r.chan
         /\ DOMAIN w.verified = DOMAIN r.verified
         /\ \A q \in Peer : peer_verified(w, q) <=> (peer_verified(r, q) \/ q = p)
  <1>1. PICK f : f = [r.verified EXCEPT ![p] = TRUE]
    OBVIOUS
  <1>2. DOMAIN r.verified \subseteq Peer /\ r.verified \in [DOMAIN r.verified -> BOOLEAN]
    BY StoreFields, PartialMeans
  <1>3. /\ f \in [DOMAIN r.verified -> BOOLEAN] /\ DOMAIN f = DOMAIN r.verified
        /\ f[p] = TRUE /\ \A q \in DOMAIN r.verified : q # p => f[q] = r.verified[q]
    BY <1>1, <1>2
  <1>4. f \in Partial(BOOLEAN)
    BY <1>2, <1>3, PartialMeans
  <1>5. w = WithVerified(r, f)
    BY <1>1 DEF WithVerified, StoreT
  <1>6. /\ From(r, w, {}) /\ w \in StoreT /\ w.verified = f /\ w.dms = r.dms
        /\ w.held = r.held /\ w.chan = r.chan
    <2>1. PICK t : t = WithVerified(r, f)
      OBVIOUS
    <2>2. From(r, t, {})
      BY <1>4, <2>1, VerifiedSet
    <2>3. t \in StoreT /\ t.verified = f /\ t.dms = r.dms /\ t.held = r.held /\ t.chan = r.chan
      BY <1>4, <2>1, StoreSet
    <2>4. w = t
      BY <1>5, <2>1
    <2> QED BY <2>2, <2>3, <2>4
  <1>7. \A q \in Peer : peer_verified(w, q) <=> (peer_verified(r, q) \/ q = p)
    BY <1>2, <1>3, <1>6 DEF peer_verified
  <1> QED BY <1>3, <1>6, <1>7

LEMMA VerifyMove ==
  ASSUME TypeInv, NEW p \in Peer, verify(p)
  PROVE  \E n, r, u, X : Move(n, r, u, X) /\ Tells(n, r, u)
  <1>0. Up /\ ui \in UiT
    BY DEF verify, Contact, Shell, TypeInv
  <1>1. /\ node \in NodeT /\ Store \in StoreT
    BY <1>0, RunningNode
  <1>2. PICK S : S = Store
    OBVIOUS
  <1>3. PICK a : a = peer_or_new(S, p)
    OBVIOUS
  <1>4. /\ From(S, a, {}) /\ a \in StoreT /\ p \in DOMAIN a.verified
        /\ \A q \in Peer : peer_verified(a, q) <=> peer_verified(S, q)
    BY <1>1, <1>2, <1>3, PeerOrNew
  <1>5. PICK c : c = [a EXCEPT !.verified[p] = TRUE]
    OBVIOUS
  <1>6. /\ From(a, c, {}) /\ c \in StoreT
        /\ \A q \in Peer : peer_verified(c, q) <=> (peer_verified(a, q) \/ q = p)
    BY <1>4, <1>5, TrustSet
  <1>7. PICK trusted : trusted = purge(c, p)
    OBVIOUS
  <1>8. From(c, trusted, {}) /\ trusted \in StoreT /\ trusted.verified = c.verified
    BY <1>6, <1>7, PurgeFacts
  <1>9. PICK notice : notice = Row(TRUE, "notice", 0)
    OBVIOUS
  <1>10. notice \in RowT /\ notice.text = 0 /\ notice.text \in {} \cup {0}
    BY <1>9, RowOther DEF Kind
  <1>11. PICK paid : paid = put_dm(trusted, p, notice)
    OBVIOUS
  <1>12. From(trusted, paid, {}) /\ paid \in StoreT /\ paid.verified = trusted.verified
    BY <1>8, <1>10, <1>11, PutDm
  <1>13. PICK ready \in BOOLEAN : ready <=> p \in node.ready
    OBVIOUS
  <1>14. PICK r : r = IF ready THEN paid ELSE trusted
    OBVIOUS
  <1>15. From(trusted, r, {}) /\ r \in StoreT /\ r.verified = c.verified
    BY <1>8, <1>12, <1>14, FromSame
  <1>16. From(Store, r, {})
    <2>1. From(S, c, {})
      BY <1>4, <1>6, FromTrans
    <2>2. From(S, trusted, {})
      BY <1>8, <2>1, FromTrans
    <2>3. From(S, r, {})
      BY <1>15, <2>2, FromTrans
    <2> QED BY <1>2, <2>3
  <1>17. \A q \in Peer : peer_verified(r, q) <=> (peer_verified(Store, q) \/ q = p)
    BY <1>2, <1>4, <1>6, <1>15 DEF peer_verified
  <1>18. PICK b : b = Badge(TRUE, FALSE, FALSE)
    OBVIOUS
  <1>19. b \in BadgeT /\ b.verified
    BY <1>18 DEF Badge, BadgeT
  <1>20. PICK v : v = upsertPeer(ui, p, b)
    OBVIOUS
  <1>21. /\ v \in UiT /\ v.threads = ui.threads /\ v.feed = ui.feed
         /\ DOMAIN v.peers = DOMAIN ui.peers \cup {p}
         /\ \A q \in DOMAIN ui.peers : q # p => v.peers[q] = ui.peers[q]
    BY <1>0, <1>19, <1>20, UpsertFacts
  <1>22. v.peers[p].verified
    BY <1>0, <1>19, <1>20, UpsertFacts
  <1>23. PICK d : d = Badge(v.peers[p].verified, FALSE, FALSE)
    OBVIOUS
  <1>24. v.peers[p].verified \in BOOLEAN
    BY <1>21, BadgeFields
  <1>25. d \in BadgeT /\ d.verified
    BY <1>22, <1>23, <1>24 DEF Badge, BadgeT
  <1>26. PICK w : w = WithPeers(v, [v.peers EXCEPT ![p] = d])
    OBVIOUS
  <1>27. BadgeGiven(v, p, d, w)
    BY <1>21, <1>25, <1>26, BadgeSet
  <1>28. /\ w \in UiT /\ w.threads = ui.threads /\ w.feed = ui.feed
         /\ DOMAIN w.peers = DOMAIN ui.peers \cup {p} /\ w.peers[p] = d
         /\ \A q \in DOMAIN ui.peers : q # p => w.peers[q] = ui.peers[q]
    BY <1>21, <1>27 DEF BadgeGiven
  <1>29. PICK h : h = dm_history(r, p)
    OBVIOUS
  <1>30. h \in Seq(RowT) /\ \A W : Clear(r, W) => \A row \in ToSet(h) : row.text \notin W
    BY <1>15, <1>29, History
  <1>31. PICK s : s = Append(h, notice)
    OBVIOUS
  <1>32. s \in Seq(RowT) /\ ToSet(s) = ToSet(h) \cup {notice}
    BY <1>10, <1>30, <1>31, AppendSet
  <1>33. PICK u : u = WithThreads(w, [w.threads EXCEPT ![p] = s])
    OBVIOUS
  <1>34. ThreadSetTo(w, p, s, u)
    BY <1>28, <1>32, <1>33, ShowThread
  <1>35. u \in UiT /\ u.peers = w.peers
    BY <1>34 DEF ThreadSetTo
  <1>36. \A W : Others(W, {}) /\ Clear(Store, W) /\ ClearUi(ui, W) => ClearUi(u, W)
    <2>1. ASSUME NEW W, Others(W, {}), Clear(Store, W), ClearUi(ui, W)
          PROVE  ClearUi(u, W)
      <3>1. Clear(r, W)
        BY <1>16, <2>1 DEF From
      <3>2. \A row \in ToSet(s) : row.text \notin W
        BY <1>10, <1>30, <1>32, <2>1, <3>1 DEF Others
      <3>3. ClearUi(w, W)
        BY <1>28, <2>1 DEF ClearUi
      <3> QED BY <1>34, <3>2, <3>3 DEF ThreadSetTo
    <2> QED BY <2>1
  <1>37. Agree(ui, Store) => Agree(u, r)
    BY <1>17, <1>25, <1>28, <1>35 DEF Agree
  <1>38. PICK n : n = [node EXCEPT !.owed = IF p \in node.ready THEN @ \ {p} ELSE @ \cup {p}]
    OBVIOUS
  <1>39. n \in NodeT /\ n.where = node.where /\ n.events = node.events /\ n.again = node.again
    BY <1>1, <1>38 DEF NodeT
  <1>40. PICK e : e = FfiEvent("session", p, "text", 0)
    OBVIOUS
  <1>41. e \in EventT /\ e.text \in {} \cup {0}
    BY <1>40, OneEvent DEF Kind
  <1>42. PICK m : m = emit(n, <<e>>)
    OBVIOUS
  <1>43. m \in NodeT /\ m.where = n.where /\ m.again = n.again /\ QueueFrom(m, {})
    BY <1>39, <1>41, <1>42, EmitOne
  <1>44. PICK o : o = IF p \in node.ready THEN m ELSE n
    OBVIOUS
  <1>45. o \in NodeT /\ o.where = node.where /\ o.again = node.again /\ QueueFrom(o, {})
    BY <1>39, <1>43, <1>44 DEF QueueFrom
  <1>46. Effect(o, r, u, {})
    BY <1>16, <1>35, <1>36, <1>37, <1>45 DEF Effect, QueueFrom
  <1>47. [v EXCEPT !.peers[p] = Badge(@.verified, FALSE, FALSE), !.threads[p] = s] = u
    <2>1. v \in UiT /\ p \in DOMAIN v.peers /\ w.threads = v.threads
      BY <1>21, <1>28
    <2>2. Rebuilt(v, p, s) = WithThreads(Calmed(v, p), [v.threads EXCEPT ![p] = s])
      BY <2>1, RebuiltIs
    <2>3. w = Calmed(v, p)
      BY <1>23, <1>26 DEF Calmed
    <2>4. u = WithThreads(w, [v.threads EXCEPT ![p] = s])
      BY <1>33, <2>1
    <2>5. Rebuilt(v, p, s) = u
      BY <2>2, <2>3, <2>4
    <2> QED BY <2>5 DEF Rebuilt
  <1>48. r = IF p \in node.ready THEN paid ELSE trusted
    BY <1>13, <1>14
  <1>49. Contact("verify", o, r, u)
    BY <1>2, <1>3, <1>5, <1>7, <1>9, <1>11, <1>18, <1>20, <1>29, <1>31, <1>38, <1>40, <1>42, <1>44,
       <1>47, <1>48 DEF verify
  <1>50. "verify" \in Event \ {"wipe", "keystore"} /\ {} = IF "verify" \in TextEvent THEN {Text} ELSE {}
    BY DEF Event, TextEvent
  <1>51. Move(o, r, u, {})
    BY <1>46, <1>49, <1>50, ContactMove
  <1>52. StoreBeside(p, Store, c) /\ c.dms = Store.dms /\ p \in DOMAIN c.verified
    <2>1. StoreBeside(p, S, a) /\ a.dms = S.dms
      BY <1>1, <1>2, <1>3, NewBeside
    <2>2. c.dms = a.dms /\ c.chan = a.chan /\ DOMAIN c.verified = DOMAIN a.verified
      BY <1>4, <1>5, TrustSet
    <2> QED BY <1>2, <1>4, <2>1, <2>2 DEF StoreBeside
  <1>53. /\ StoreBeside(p, c, trusted)
         /\ \A row \in ToSet(trusted.dms[p]) : row \in ToSet(c.dms[p]) /\ row # Marker
    BY <1>6, <1>7, PurgeBeside
  <1>54. StoreBeside(p, trusted, paid) /\ ToSet(paid.dms[p]) = ToSet(trusted.dms[p]) \cup {notice}
    <2>1. trusted \in StoreT /\ notice \in RowT /\ paid = put_dm(trusted, p, notice)
      BY <1>8, <1>10, <1>11
    <2>2. /\ StoreBeside(p, trusted, paid) /\ Grown(paid.dms[p], trusted.dms[p], {notice})
          /\ ToSet(paid.dms[p]) = ToSet(trusted.dms[p]) \cup {notice}
      BY <2>1, PutBeside
    <2> QED BY <2>2
  <1>55. notice # Marker /\ ~Received(notice)
    <2>1. notice.mine
      BY <1>9, RowOther DEF Kind
    <2>2. ~Marker.mine
      BY DEF Marker, Row
    <2> QED BY <2>1, <2>2 DEF Received
  <1>56. /\ StoreBeside(p, Store, r)
         /\ \A row \in ToSet(r.dms[p]) : row # Marker /\ (Received(row) => row \in ToSet(Store.dms[p]))
    <2>1. StoreBeside(p, Store, trusted) /\ StoreBeside(p, Store, paid)
      BY <1>52, <1>53, <1>54, StoreBesideTrans
    <2>2. \A row \in ToSet(trusted.dms[p]) : row # Marker /\ row \in ToSet(Store.dms[p])
      BY <1>52, <1>53
    <2>3. \A row \in ToSet(paid.dms[p]) : row # Marker /\ (Received(row) => row \in ToSet(Store.dms[p]))
      BY <1>54, <1>55, <2>2
    <2>4. r = paid \/ r = trusted
      BY <1>14
    <2>5. CASE r = paid
      BY <2>1, <2>3, <2>5
    <2>6. CASE r = trusted
      BY <2>1, <2>2, <2>6
    <2> QED BY <2>4, <2>5, <2>6
  <1>57. UiBeside(p, ui, u) /\ u.threads[p] = s
    <2>1. UiBeside(p, ui, w)
      BY <1>28, PeersBeside
    <2>2. UiBeside(p, w, u) /\ u.threads[p] = s
      BY <1>28, <1>34, ThreadBeside DEF ThreadSetTo, ThreadIs
    <2> QED BY <2>1, <2>2, UiBesideTrans
  <1>58. /\ o.dh = node.dh /\ o.ready = node.ready
         /\ \E es \in Seq(EventT) : o.events = node.events \o es /\ \A y \in ToSet(es) : ~Message(y)
    <2>1. n.dh = node.dh /\ n.ready = node.ready
      BY <1>1, <1>38 DEF NodeT
    <2>2. PICK es : es = <<e>>
      OBVIOUS
    <2>3. es \in Seq(EventT) /\ \A y \in ToSet(es) : ~Message(y)
      BY <1>40, <1>41, <2>2, OneQueued, OneEvent DEF Message, Kind
    <2>4. m.events = n.events \o es /\ m.dh = n.dh /\ m.ready = n.ready
      BY <1>39, <1>42, <2>2, <2>3, EmitFacts
    <2>5. << >> \in Seq(EventT) /\ ToSet(<< >>) = {} /\ node.events = node.events \o << >>
      BY <1>0, NoneQueued
    <2>6. CASE o = m
      BY <1>39, <2>1, <2>3, <2>4, <2>6
    <2>7. CASE o = n
      BY <1>39, <2>1, <2>5, <2>7
    <2> QED BY <1>44, <2>6, <2>7
  <1>59. Purges(p, o, r, u)
    <2>1. p \in DOMAIN u.peers /\ p \in DOMAIN r.verified
      BY <1>15, <1>28, <1>35, <1>52
    <2>2. h = Newest(r.dms[p])
      BY <1>29 DEF dm_history
    <2>3. ToSet(Newest(r.dms[p])) \subseteq ToSet(u.threads[p])
      BY <1>32, <1>57, <2>2
    <2> QED BY <1>56, <1>58, <2>1, <2>3 DEF Purges
  <1>60. NodeBeside(p, node, o)
    BY <1>58 DEF NodeBeside
  <1>61. Deals(o, r, u)
    BY <1>56, <1>57, <1>58, <1>59, <1>60, Beside
  <1> QED BY <1>51, <1>61 DEF Tells

-----------------------------------------------------------------------------
(***************************************************************************)
(* The start.                                                              *)
(***************************************************************************)
LEMMA EmptyTypes ==
  /\ EmptyRows \in StoreT /\ EmptyRows.verified = << >>
  /\ \A W : Clear(EmptyRows, W)
  /\ NoUi \in UiT
  /\ \A W : ClearUi(NoUi, W)
  <1>0. ToSet(<< >>) = {}
    BY EmptySet
  <1>1. << >> \in Partial(BOOLEAN) /\ << >> \in Partial(BadgeT)
    <2>1. DOMAIN << >> = {}
      OBVIOUS
    <2>2. << >> \in [{} -> BOOLEAN] /\ << >> \in [{} -> BadgeT]
      OBVIOUS
    <2> QED BY <2>1, <2>2, PartialMeans
  <1>2. [p \in Peer |-> << >>] \in Rows /\ [p \in Peer |-> << >>] \in [Peer -> Seq(Nat)]
        /\ [c \in Channel |-> << >>] \in Feeds
    BY DEF Rows, Feeds
  <1>3. EmptyRows \in StoreT /\ EmptyRows.verified = << >>
    BY <1>1, <1>2 DEF EmptyRows, StoreT
  <1>4. \A W : Clear(EmptyRows, W)
    BY <1>0 DEF EmptyRows, Clear, ClearRows, ClearHeld, ClearFeeds
  <1>5. NoUi \in UiT
    BY <1>1, <1>2 DEF NoUi, UiT
  <1>6. \A W : ClearUi(NoUi, W)
    BY <1>0 DEF NoUi, ClearUi, ClearRows, ClearFeeds
  <1> QED BY <1>3, <1>4, <1>5, <1>6

LEMMA FreshFacts ==
  ASSUME NEW old
  PROVE  Fresh(old) \in {1, 2} /\ Fresh(old) # old
  <1>1. \E k \in {1, 2} : k # old
    OBVIOUS
  <1> QED BY <1>1 DEF Fresh

Restored(u, r, v) ==
    /\ v \in UiT /\ Agree(v, r)
    /\ DOMAIN v.peers = DOMAIN r.verified
    /\ \A p \in DOMAIN r.verified : /\ v.threads[p] = Newest(r.dms[p])
                                    /\ Marker \in ToSet(Newest(r.dms[p])) => Warned(v, p)
    /\ \A c \in Channel : v.feed[c] = Newest(r.chan[c])
    /\ \A W : Clear(r, W) /\ ClearUi(u, W) => ClearUi(v, W)

LEMMA RestoreFacts ==
  ASSUME NEW u \in UiT, NEW r \in StoreT, NEW v, v = restoreContacts(restoreHistory(u, r), r)
  PROVE  Restored(u, r, v)
  <1>1. PICK g : g = [c \in Channel |-> channel_history(r, c)]
    OBVIOUS
  <1>2. \A c \in Channel : g[c] \in Seq(Nat) /\ ToSet(g[c]) \subseteq ToSet(r.chan[c])
    <2>1. ASSUME NEW c \in Channel
          PROVE  g[c] \in Seq(Nat) /\ ToSet(g[c]) \subseteq ToSet(r.chan[c])
      <3>1. PICK t : t = r.chan[c]
        OBVIOUS
      <3>2. t \in Seq(Nat)
        BY <3>1, StoreFields DEF Feeds
      <3>3. Newest(t) \in Seq(Nat) /\ ToSet(Newest(t)) \subseteq ToSet(t)
        BY <3>2, NewestSet
      <3>4. g[c] = Newest(t)
        BY <1>1, <3>1 DEF channel_history
      <3> QED BY <3>1, <3>3, <3>4
    <2> QED BY <2>1
  <1>3. g \in Feeds
    BY <1>1, <1>2 DEF Feeds
  <1>4. PICK w : w = restoreHistory(u, r)
    OBVIOUS
  <1>5. w = WithFeed(u, g)
    BY <1>1, <1>4 DEF restoreHistory, WithFeed
  <1>6. w \in UiT /\ w.feed = g /\ w.threads = u.threads
    BY <1>3, <1>5, UiSet
  <1>7. PICK h : h = [p \in Peer |-> dm_history(r, p)]
    OBVIOUS
  <1>8. \A p \in Peer : h[p] \in Seq(RowT) /\ ToSet(h[p]) \subseteq ToSet(r.dms[p])
    BY <1>7, History
  <1>9. PICK f : f = [p \in Peer |-> IF p \in DOMAIN r.verified THEN h[p] ELSE w.threads[p]]
    OBVIOUS
  <1>10. f \in Rows
    <2>1. w.threads \in Rows
      BY <1>6, UiFields
    <2> QED BY <1>8, <1>9, <2>1 DEF Rows
  <1> DEFINE Has(p, kinds) == \E k \in DOMAIN dm_history(r, p) :
                                 ~dm_history(r, p)[k].mine /\ dm_history(r, p)[k].kind \in kinds
  <1>11. PICK b : b = [p \in DOMAIN r.verified |-> Badge(r.verified[p], Has(p, {"notice", "ack"}),
                                                         Has(p, {"changed"}))]
    OBVIOUS
  <1>12. DOMAIN r.verified \subseteq Peer /\ r.verified \in [DOMAIN r.verified -> BOOLEAN]
    BY StoreFields, PartialMeans
  <1>13. \A p \in DOMAIN r.verified : b[p] \in BadgeT /\ (b[p].verified <=> r.verified[p])
    <2>1. ASSUME NEW p \in DOMAIN r.verified
          PROVE  b[p] \in BadgeT /\ (b[p].verified <=> r.verified[p])
      <3>1. PICK x \in BOOLEAN : x <=> Has(p, {"notice", "ack"})
        OBVIOUS
      <3>2. PICK y \in BOOLEAN : y <=> Has(p, {"changed"})
        OBVIOUS
      <3>3. r.verified[p] \in BOOLEAN
        BY <1>12
      <3>4. b[p] = Badge(r.verified[p], Has(p, {"notice", "ack"}), Has(p, {"changed"}))
        BY <1>11
      <3>5. b[p] = [verified |-> r.verified[p], confirmed |-> x, keyChanged |-> y]
        BY <3>1, <3>2, <3>4 DEF Badge
      <3> QED BY <3>3, <3>5 DEF BadgeT
    <2> QED BY <2>1
  <1>14. DOMAIN b = DOMAIN r.verified
    BY <1>11
  <1>15. b \in Partial(BadgeT)
    <2>1. b \in [DOMAIN r.verified -> BadgeT]
      <3>1. b = [p \in DOMAIN r.verified |-> b[p]]
        BY <1>11
      <3> QED BY <1>13, <3>1
    <2> QED BY <1>12, <1>14, <2>1, PartialMeans
  <1>16. v = [w EXCEPT !.peers = b, !.threads = f]
    <2>1. w \in UiT
      BY <1>6
    <2>2. v = restoreContacts(w, r)
      BY <1>4
    <2>3. f = [p \in Peer |-> IF p \in DOMAIN r.verified THEN dm_history(r, p) ELSE w.threads[p]]
      BY <1>7, <1>9
    <2> QED BY <1>11, <2>1, <2>2, <2>3 DEF restoreContacts, list_peers
  <1>17. v \in UiT /\ v.peers = b /\ v.threads = f /\ v.feed = g
    BY <1>6, <1>10, <1>15, <1>16 DEF UiT
  <1>18. Agree(v, r)
    BY <1>12, <1>13, <1>14, <1>17 DEF Agree, peer_verified
  <1>19. ASSUME NEW W, Clear(r, W), ClearUi(u, W)
         PROVE  ClearUi(v, W)
    <2>1. ClearRows(r.dms, W) /\ ClearFeeds(r.chan, W) /\ ClearRows(u.threads, W)
      BY <1>19 DEF Clear, ClearUi
    <2>2. ClearFeeds(g, W)
      BY <1>2, <2>1 DEF ClearFeeds
    <2>3. ClearRows(f, W)
      BY <1>6, <1>8, <1>9, <2>1 DEF ClearRows
    <2> QED BY <1>17, <2>2, <2>3 DEF ClearUi
  <1>20. ASSUME NEW p \in DOMAIN r.verified
         PROVE  v.threads[p] = Newest(r.dms[p]) /\ (Marker \in ToSet(Newest(r.dms[p])) => Warned(v, p))
    <2>1. p \in Peer /\ h[p] = Newest(r.dms[p])
      BY <1>7, <1>12 DEF dm_history
    <2>2. v.threads[p] = Newest(r.dms[p])
      BY <1>9, <1>17, <2>1
    <2>3. ASSUME Marker \in ToSet(Newest(r.dms[p]))
          PROVE  Warned(v, p)
      <3>1. h[p] \in Seq(RowT) /\ h[p] = dm_history(r, p)
        BY <1>7, <1>8, <2>1
      <3>2. PICK k \in DOMAIN h[p] : h[p][k] = Marker
        BY <2>1, <2>3 DEF ToSet
      <3>3. ~Marker.mine /\ Marker.kind = "changed"
        BY DEF Marker, Row
      <3>4. Has(p, {"changed"})
        BY <3>1, <3>2, <3>3
      <3>5. b[p] = Badge(r.verified[p], Has(p, {"notice", "ack"}), Has(p, {"changed"}))
        BY <1>11
      <3> HIDE DEF Has
      <3>6. b[p].keyChanged
        BY <3>4, <3>5 DEF Badge
      <3> QED BY <1>14, <1>17, <3>6 DEF Warned
    <2> QED BY <2>2, <2>3
  <1>21. \A c \in Channel : v.feed[c] = Newest(r.chan[c])
    BY <1>1, <1>17 DEF channel_history
  <1> QED BY <1>14, <1>17, <1>18, <1>19, <1>20, <1>21 DEF Restored

\* A node that has met nobody yet.
Unmet(n) == n.ready = {} /\ \A p \in Peer : n.dh[p] = 0

LEMMA NewNode ==
  ASSUME NEW key
  PROVE  /\ new_persistent(key) \in NodeT /\ new_persistent(key).events = << >>
         /\ new_persistent(key).mem = EmptyRows /\ Unmet(new_persistent(key))
         /\ new_persistent(key).where = IF open_sqlite(key) THEN "db" ELSE "memory"
  <1>1. EmptyRows \in StoreT
    BY EmptyTypes
  <1>2. << >> \in Seq(EventT)
    BY EmptySet
  <1>3. (IF open_sqlite(key) THEN "db" ELSE "memory") \in {"db", "memory"}
    OBVIOUS
  <1> QED BY <1>1, <1>2, <1>3 DEF new_persistent, NodeT, Unmet

\* What a start leaves.
Started(works) ==
    /\ kek' \in {1, 2}
    /\ vault' \in VaultT /\ vault'.is = "whole" /\ vault'.key # 0 /\ vault'.kek = kek'
    /\ Loads(works) => vault' = vault /\ kek' = kek
    /\ ~Loads(works) => vault'.key # db.key
    /\ db' \in DbT /\ db'.rows = db.rows
    /\ db'.key = IF db.key = 0 THEN vault'.key ELSE db.key
    /\ node' \in NodeT /\ Up' /\ node'.events = << >> /\ Unmet(node')
    /\ node'.where = IF db.key \in {0, vault'.key} THEN "db" ELSE "memory"
    /\ Store' = IF db.key \in {0, vault'.key} THEN db.rows ELSE EmptyRows
    /\ Restored(ui, Store', ui')

LEMMA StartFacts ==
  ASSUME TypeInv, NEW works \in BOOLEAN, startBle(works)
  PROVE  Started(works)
  <1>0. /\ kek \in 0 .. 2 /\ vault \in VaultT /\ db \in DbT /\ ui \in UiT
        /\ (vault.is = "whole" => vault.key # 0) /\ (db.key = 0 => db.rows = EmptyRows)
    BY DEF TypeInv
  <1>1. PICK k : k = kekOrNew
    OBVIOUS
  <1>2. k \in {1, 2} /\ (k = vault.kek => k = kek)
    <2>1. Fresh(vault.kek) \in {1, 2} /\ Fresh(vault.kek) # vault.kek
      BY FreshFacts
    <2> QED BY <1>0, <1>1, <2>1 DEF kekOrNew
  <1>3. PICK d : d = Fresh(db.key)
    OBVIOUS
  <1>4. d \in {1, 2} /\ d # db.key
    BY <1>3, FreshFacts
  <1>5. PICK v : v = loadOrCreate(works)
    OBVIOUS
  <1>6. /\ v \in VaultT /\ v.is = "whole" /\ v.key # 0 /\ v.kek = k
        /\ (Loads(works) => v = vault /\ k = kek)
        /\ (~Loads(works) => v.key # db.key)
    <2>1. CASE Loads(works)
      <3>1. v = vault /\ vault.is = "whole" /\ vault.kek = k
        BY <1>1, <1>5, <2>1 DEF loadOrCreate, Loads
      <3> QED BY <1>0, <1>2, <2>1, <3>1
    <2>2. CASE ~Loads(works)
      <3>1. v = [is |-> "whole", kek |-> k, key |-> d]
        BY <1>1, <1>3, <1>5, <2>2 DEF loadOrCreate, create
      <3> QED BY <1>2, <1>4, <2>2, <3>1 DEF VaultT
    <2> QED BY <2>1, <2>2
  <1>7. PICK n : n = new_persistent(v.key)
    OBVIOUS
  <1>8. /\ n \in NodeT /\ n.events = << >> /\ n.mem = EmptyRows /\ Unmet(n)
        /\ n.where = IF db.key \in {0, v.key} THEN "db" ELSE "memory"
    BY <1>7, NewNode DEF open_sqlite
  <1>9. PICK r : r = IF n.where = "db" THEN db.rows ELSE EmptyRows
    OBVIOUS
  <1>10. /\ kek' = k /\ vault' = v /\ node' = n
         /\ db' = IF db.key = 0 THEN [key |-> v.key, rows |-> EmptyRows] ELSE db
         /\ ui' = restoreContacts(restoreHistory(ui, r), r)
    BY <1>1, <1>5, <1>7, <1>9 DEF startBle
  <1>11. db' \in DbT /\ db'.rows = db.rows /\ db'.key = IF db.key = 0 THEN v.key ELSE db.key
    <2>1. CASE db.key = 0
      <3>1. db' = [key |-> v.key, rows |-> EmptyRows] /\ EmptyRows \in StoreT /\ v.key \in 0 .. 2
        BY <1>6, <1>10, <2>1, EmptyTypes DEF VaultT
      <3> QED BY <1>0, <2>1, <3>1 DEF DbT
    <2>2. CASE db.key # 0
      BY <1>0, <1>10, <2>2
    <2> QED BY <2>1, <2>2
  <1>12. r \in StoreT
    BY <1>0, <1>9, EmptyTypes DEF DbT
  <1>13. Restored(ui, r, ui')
    <2>1. PICK u : u = restoreContacts(restoreHistory(ui, r), r)
      OBVIOUS
    <2>2. Restored(ui, r, u)
      BY <1>0, <1>12, <2>1, RestoreFacts
    <2> QED BY <1>10, <2>1, <2>2
  <1>14. Store' = r
    BY <1>8, <1>9, <1>10, <1>11 DEF Store
  <1>15. Up'
    BY <1>8, <1>10, NodeIsUp DEF Up
  <1>16. r = IF db.key \in {0, v.key} THEN db.rows ELSE EmptyRows
    BY <1>8, <1>9
  <1> QED BY <1>2, <1>6, <1>8, <1>10, <1>11, <1>13, <1>14, <1>15, <1>16 DEF Started

-----------------------------------------------------------------------------
(***************************************************************************)
(* The state is well formed.                                               *)
(***************************************************************************)
\* The steps while a node runs that do not change who runs.
Moving == \/ Up /\ Tick
          \/ sendAnnounce \/ sendChannel
          \/ \E c \in Channel : handle_channel(c)
          \/ \E p \in Peer : \/ \E key \in {1, 2} : handle_announce(p, key)
                             \/ \E bound \in BOOLEAN : finish_session(p, bound)
                             \/ \E kind \in {"text", "notice", "ack"} : decrypt_and_emit(p, kind)
                             \/ sendDm(p) \/ verify(p) \/ unverify(p) \/ forget(p) \/ setPetname(p)

LEMMA MovingMoves ==
  ASSUME TypeInv, Moving
  PROVE  \E n, r, u, X : Move(n, r, u, X) /\ Tells(n, r, u)
  <1>1. CASE Up /\ Tick
    BY <1>1, TickMove
  <1>2. CASE sendAnnounce \/ sendChannel
    <2>1. Post("announce") \/ Post("general")
      BY <1>2 DEF sendAnnounce, sendChannel
    <2>2. "announce" \in Channel /\ "general" \in Channel
      BY DEF Channel
    <2> QED BY <2>1, <2>2, PostMove
  <1>3. CASE \E c \in Channel : handle_channel(c)
    BY <1>3, ChannelMove
  <1>4. ASSUME NEW p \in Peer, \/ \E key \in {1, 2} : handle_announce(p, key)
                               \/ \E bound \in BOOLEAN : finish_session(p, bound)
                               \/ \E kind \in {"text", "notice", "ack"} : decrypt_and_emit(p, kind)
        PROVE  \E n, r, u, X : Move(n, r, u, X) /\ Tells(n, r, u)
    BY <1>4, AnnounceMove, SessionMove, ReceiveMove
  <1>5. ASSUME NEW p \in Peer, sendDm(p) \/ verify(p) \/ unverify(p) \/ forget(p) \/ setPetname(p)
        PROVE  \E n, r, u, X : Move(n, r, u, X) /\ Tells(n, r, u)
    <2>1. CASE sendDm(p)
      BY <2>1, SendMove
    <2>2. CASE verify(p)
      BY <2>2, VerifyMove
    <2>3. CASE unverify(p)
      BY <2>3, UnverifyMove
    <2>4. CASE forget(p)
      BY <2>4, ForgetMove
    <2>5. CASE setPetname(p)
      BY <2>5, PetnameMove
    <2> QED BY <1>5, <2>1, <2>2, <2>3, <2>4, <2>5
  <1> QED BY <1>1, <1>2, <1>3, <1>4, <1>5 DEF Moving

\* The others.
Idle == \/ setDisplayName \/ TimePasses
        \/ ~Up /\ Tick

LEMMA StepKinds ==
  ASSUME Next
  PROVE  \/ Moving \/ Idle \/ SystemRestart \/ stop \/ Kill \/ KillInCreate
         \/ \E works \in BOOLEAN : UserStart(works)
         \/ panicWipe \/ DropNode \/ DeleteVault \/ DeleteDb \/ DeleteKek \/ ClearScreen
  BY DEF Next, Moving, Idle

LEMMA IdleFacts ==
  ASSUME TypeInv, Idle
  PROVE  /\ UNCHANGED <<kek, vault, db, service, node, ui, wiping, wanted, wiped, cut>>
         /\ used' \in [Event -> Nat] /\ Text' = Text
         /\ used'["wipe"] = used["wipe"] /\ used'["keystore"] = used["keystore"]
  <1>0. used \in [Event -> Nat]
    BY DEF TypeInv
  <1>1. CASE setDisplayName \/ (~Up /\ Tick)
    BY <1>0, <1>1 DEF setDisplayName, Tick, disk, seen, Text
  <1>2. CASE TimePasses
    <2>1. Spend("time") /\ "time" \in Event /\ "time" \notin TextEvent
      BY <1>2 DEF TimePasses, Event, TextEvent
    <2>2. /\ used' \in [Event -> Nat] /\ Text' = Text
          /\ \A e \in Event : e # "time" => used'[e] = used[e]
      BY <1>0, <2>1, SpendFacts
    <2>3. used'["wipe"] = used["wipe"] /\ used'["keystore"] = used["keystore"]
      BY <2>2 DEF Event
    <2> QED BY <1>2, <2>2, <2>3 DEF TimePasses, disk, seen
  <1> QED BY <1>1, <1>2 DEF Idle

\* A start, by the user or by the system.
BringUp(works) ==
    /\ Main /\ service' = "up" /\ UNCHANGED <<wiping, wiped, cut>>
    /\ used' \in [Event -> Nat] /\ Text' = Text /\ used'["wipe"] = used["wipe"]
    /\ works => used'["keystore"] = used["keystore"]
    /\ ~works => used'["keystore"] = used["keystore"] + 1
    /\ \/ Up /\ UNCHANGED <<kek, vault, db, node, ui>>
       \/ Started(works)

LEMMA UserStarts ==
  ASSUME TypeInv, NEW works \in BOOLEAN, UserStart(works)
  PROVE  BringUp(works) /\ wanted' = TRUE
  <1>0. used \in [Event -> Nat] /\ onStart(works) /\ wanted' = TRUE
    BY DEF TypeInv, UserStart
  <1>1. PICK ev : ev = IF works THEN "start" ELSE "keystore"
    OBVIOUS
  <1>2. ev \in Event /\ ev \notin TextEvent /\ Spend(ev) /\ ev # "wipe"
    BY <1>1 DEF UserStart, Event, TextEvent
  <1>3. /\ used' \in [Event -> Nat] /\ Text' = Text
        /\ \A e \in Event : e # ev => used'[e] = used[e]
        /\ used'[ev] = used[ev] + 1
    BY <1>0, <1>2, SpendFacts
  <1>4. used'["wipe"] = used["wipe"]
    BY <1>2, <1>3 DEF Event
  <1>5. works => used'["keystore"] = used["keystore"]
    BY <1>1, <1>3 DEF Event
  <1>6. ~works => used'["keystore"] = used["keystore"] + 1
    BY <1>1, <1>3
  <1>7. CASE Up
    BY <1>0, <1>3, <1>4, <1>5, <1>6, <1>7 DEF onStart, BringUp
  <1>8. CASE ~Up
    <2>1. startBle(works)
      BY <1>0, <1>8 DEF onStart
    <2>2. Started(works)
      BY <2>1, StartFacts
    <2> QED BY <1>0, <1>3, <1>4, <1>5, <1>6, <2>2 DEF onStart, BringUp
  <1> QED BY <1>7, <1>8

LEMMA SystemRestarts ==
  ASSUME TypeInv, SystemRestart
  PROVE  BringUp(TRUE) /\ UNCHANGED wanted /\ service = "due"
  <1>0. used \in [Event -> Nat] /\ onStart(TRUE) /\ UNCHANGED <<wanted, used>> /\ service = "due"
    BY DEF TypeInv, SystemRestart
  <1>1. used' \in [Event -> Nat] /\ Text' = Text /\ used'["wipe"] = used["wipe"]
        /\ used'["keystore"] = used["keystore"]
    BY <1>0 DEF Text
  <1>2. CASE Up
    BY <1>0, <1>1, <1>2 DEF onStart, BringUp
  <1>3. CASE ~Up
    <2>1. startBle(TRUE)
      BY <1>0, <1>3 DEF onStart
    <2>2. Started(TRUE)
      BY <2>1, StartFacts
    <2> QED BY <1>0, <1>1, <2>2 DEF onStart, BringUp
  <1> QED BY <1>2, <1>3

LEMMA TypeBringUp ==
  ASSUME TypeInv, NEW works \in BOOLEAN, BringUp(works), wanted' \in BOOLEAN
  PROVE  TypeInv'
  <1>1. CASE Up /\ UNCHANGED <<kek, vault, db, node, ui>>
    BY <1>1 DEF TypeInv, BringUp, Up, Main
  <1>2. CASE Started(works)
    <2>1. /\ kek' \in 0 .. 2 /\ vault' \in VaultT /\ db' \in DbT /\ node' \in NodeT
          /\ vault'.key # 0 /\ db'.rows = db.rows
          /\ db'.key = IF db.key = 0 THEN vault'.key ELSE db.key
      BY <1>2 DEF Started
    <2>2. ui' \in UiT
      BY <1>2 DEF Started, Restored
    <2>3. db'.key # 0
      BY <2>1
    <2>4. wiping' = "no" /\ service' = "up" /\ UNCHANGED <<wiped, cut>> /\ used' \in [Event -> Nat]
      BY DEF BringUp, Main
    <2> QED BY <2>1, <2>2, <2>3, <2>4 DEF TypeInv
  <1> QED BY <1>1, <1>2 DEF BringUp

LEMMA KillFacts ==
  ASSUME TypeInv, NEW s, Die(s)
  PROVE  /\ ~Up' /\ node' = NoNode /\ ui' = NoUi /\ wiping' = "no" /\ service' = s /\ UNCHANGED wiped
         /\ used' \in [Event -> Nat] /\ Text' = Text
         /\ used'["wipe"] = used["wipe"] /\ used'["keystore"] = used["keystore"]
  <1>1. Spend("kill") /\ "kill" \in Event /\ "kill" \notin TextEvent /\ used \in [Event -> Nat]
    BY DEF Die, Event, TextEvent, TypeInv
  <1>2. /\ used' \in [Event -> Nat] /\ Text' = Text
        /\ \A e \in Event : e # "kill" => used'[e] = used[e]
    BY <1>1, SpendFacts
  <1>3. used'["wipe"] = used["wipe"] /\ used'["keystore"] = used["keystore"]
    BY <1>2 DEF Event
  <1> QED BY <1>2, <1>3 DEF Die, Up

LEMMA StopFacts ==
  ASSUME TypeInv, stop
  PROVE  /\ UNCHANGED <<kek, vault, db, ui, wiping, wiped, cut>> /\ ~Up' /\ node' = NoNode
         /\ service' = "down" /\ wanted' = FALSE /\ Main
         /\ used' \in [Event -> Nat] /\ Text' = Text
         /\ used'["wipe"] = used["wipe"] /\ used'["keystore"] = used["keystore"]
  <1>1. Spend("stop") /\ "stop" \in Event /\ "stop" \notin TextEvent /\ used \in [Event -> Nat]
    BY DEF stop, Event, TextEvent, TypeInv
  <1>2. /\ used' \in [Event -> Nat] /\ Text' = Text
        /\ \A e \in Event : e # "stop" => used'[e] = used[e]
    BY <1>1, SpendFacts
  <1>3. used'["wipe"] = used["wipe"] /\ used'["keystore"] = used["keystore"]
    BY <1>2 DEF Event
  <1> QED BY <1>2, <1>3 DEF stop, Up, disk

\* What the first step of a wipe leaves.
WipeFacts ==
    /\ Up /\ Main /\ wiping' = "node" /\ wanted' = FALSE
    /\ wiped' = wiped \cup UiTexts \cup StoreTexts(Store)
    /\ UNCHANGED <<kek, vault, service, ui, cut>>
    /\ used' \in [Event -> Nat] /\ Text' = Text
    /\ used'["wipe"] = used["wipe"] + 1 /\ used'["keystore"] = used["keystore"]
    /\ node' \in NodeT /\ Up' /\ node'.where = node.where /\ node'.events = << >> /\ Unmet(node')
    /\ Store' = EmptyRows /\ db' \in DbT /\ db'.key = db.key
    /\ node.where = "db" => db'.rows = EmptyRows
    /\ node.where # "db" => db' = db

LEMMA PanicWipes ==
  ASSUME TypeInv, panicWipe
  PROVE  WipeFacts
  <1>0. Up /\ Main /\ Spend("wipe") /\ "wipe" \in Event /\ "wipe" \notin TextEvent /\ used \in [Event -> Nat]
    BY DEF panicWipe, Event, TextEvent, TypeInv, WipeStep, Main
  <1>1. /\ used' \in [Event -> Nat] /\ Text' = Text /\ used'["wipe"] = used["wipe"] + 1
        /\ \A e \in Event : e # "wipe" => used'[e] = used[e]
    BY <1>0, SpendFacts
  <1>2. used'["keystore"] = used["keystore"]
    BY <1>1 DEF Event
  <1>3. node \in NodeT /\ node.where \in {"db", "memory"} /\ db \in DbT
    BY <1>0, RunningNode DEF TypeInv
  <1>4. PICK n : n = [new_persistent(0) EXCEPT !.where = node.where]
    OBVIOUS
  <1>5. n \in NodeT /\ n.where = node.where /\ n.events = << >> /\ Unmet(n)
    <2>1. PICK m : m = new_persistent(0)
      OBVIOUS
    <2>2. m \in NodeT /\ m.events = << >> /\ Unmet(m)
      BY <2>1, NewNode
    <2>3. n = [m EXCEPT !.where = node.where]
      BY <1>4, <2>1
    <2> QED BY <1>3, <2>2, <2>3 DEF NodeT, Unmet
  <1>6. Commit(n, EmptyRows)
    BY <1>4 DEF panicWipe, panic_wipe
  <1>7. EmptyRows \in StoreT
    BY EmptyTypes
  <1>8. CASE node.where = "db"
    <2>1. node' = n /\ db' = [db EXCEPT !.rows = EmptyRows]
      BY <1>5, <1>6, <1>8 DEF Commit
    <2>2. db' \in DbT /\ db'.key = db.key /\ db'.rows = EmptyRows
      BY <1>3, <1>7, <2>1 DEF DbT
    <2>3. Store' = EmptyRows /\ Up'
      BY <1>5, <1>8, <2>1, <2>2, NodeIsUp DEF Store, Up
    <2> QED BY <1>0, <1>1, <1>2, <1>5, <1>8, <2>1, <2>2, <2>3 DEF panicWipe, WipeFacts, WipeStep
  <1>9. CASE node.where # "db"
    <2>1. node' = [n EXCEPT !.mem = EmptyRows] /\ db' = db
      BY <1>5, <1>6, <1>9 DEF Commit
    <2>2. /\ node' \in NodeT /\ node'.where = node.where /\ node'.events = << >> /\ node'.mem = EmptyRows
          /\ Unmet(node')
      BY <1>5, <1>7, <2>1 DEF NodeT, Unmet
    <2>3. Store' = EmptyRows /\ Up'
      BY <1>9, <2>2, NodeIsUp DEF Store, Up
    <2> QED BY <1>0, <1>1, <1>2, <1>3, <1>9, <2>1, <2>2, <2>3 DEF panicWipe, WipeFacts, WipeStep
  <1> QED BY <1>8, <1>9

LEMMA StoreTextsAre ==
  ASSUME NEW r \in StoreT
  PROVE  /\ StoreTexts(r) \subseteq Nat \ {0}
         /\ \A W : 0 \notin W => (Clear(r, W) <=> W \cap StoreTexts(r) = {})
  <1>1. r.dms \in Rows /\ r.held \in [Peer -> Seq(Nat)] /\ r.chan \in Feeds
    BY StoreFields
  <1>2. \A x : x \in RowTexts(r.dms) <=> \E p \in Peer : \E row \in ToSet(r.dms[p]) : row.text = x
    BY DEF RowTexts
  <1>3. \A x : x \in Lists(r.held) <=> \E p \in Peer : x \in ToSet(r.held[p])
    BY <1>1 DEF Lists
  <1>4. \A x : x \in Lists(r.chan) <=> \E c \in Channel : x \in ToSet(r.chan[c])
    BY <1>1 DEF Lists, Feeds
  <1>5. \A p \in Peer : ToSet(r.dms[p]) \subseteq RowT /\ ToSet(r.held[p]) \subseteq Nat
    BY <1>1, InSeq DEF Rows
  <1>6. \A c \in Channel : ToSet(r.chan[c]) \subseteq Nat
    BY <1>1, InSeq DEF Feeds
  <1>7. RowTexts(r.dms) \subseteq Nat
    BY <1>2, <1>5 DEF RowT
  <1>8. StoreTexts(r) \subseteq Nat \ {0}
    BY <1>3, <1>4, <1>5, <1>6, <1>7 DEF StoreTexts
  <1>9. ASSUME NEW W, 0 \notin W
        PROVE  Clear(r, W) <=> W \cap StoreTexts(r) = {}
    <2>1. ClearRows(r.dms, W) <=> \A x \in W : x \notin RowTexts(r.dms)
      BY <1>2 DEF ClearRows
    <2>2. ClearHeld(r.held, W) <=> \A x \in W : x \notin Lists(r.held)
      BY <1>3 DEF ClearHeld
    <2>3. ClearFeeds(r.chan, W) <=> \A x \in W : x \notin Lists(r.chan)
      BY <1>4 DEF ClearFeeds
    <2> QED BY <1>9, <2>1, <2>2, <2>3 DEF Clear, StoreTexts
  <1> QED BY <1>8, <1>9

LEMMA UiTextsAre ==
  ASSUME ui \in UiT
  PROVE  /\ UiTexts \subseteq Nat \ {0}
         /\ \A W : 0 \notin W => (ClearUi(ui, W) <=> W \cap UiTexts = {})
  <1>1. ui.threads \in Rows /\ ui.feed \in Feeds
    BY UiFields
  <1>2. \A x : x \in RowTexts(ui.threads) <=> \E p \in Peer : \E row \in ToSet(ui.threads[p]) : row.text = x
    BY DEF RowTexts
  <1>4. \A x : x \in Lists(ui.feed) <=> \E c \in Channel : x \in ToSet(ui.feed[c])
    BY <1>1 DEF Lists, Feeds
  <1>5. \A p \in Peer : ToSet(ui.threads[p]) \subseteq RowT
    BY <1>1, InSeq DEF Rows
  <1>6. \A c \in Channel : ToSet(ui.feed[c]) \subseteq Nat
    BY <1>1, InSeq DEF Feeds
  <1>7. RowTexts(ui.threads) \subseteq Nat
    BY <1>2, <1>5 DEF RowT
  <1>8. UiTexts \subseteq Nat \ {0}
    BY <1>4, <1>6, <1>7 DEF UiTexts
  <1>9. ASSUME NEW W, 0 \notin W
        PROVE  ClearUi(ui, W) <=> W \cap UiTexts = {}
    <2>1. ClearRows(ui.threads, W) <=> \A x \in W : x \notin RowTexts(ui.threads)
      BY <1>2 DEF ClearRows
    <2>3. ClearFeeds(ui.feed, W) <=> \A x \in W : x \notin Lists(ui.feed)
      BY <1>4 DEF ClearFeeds
    <2> QED BY <1>9, <2>1, <2>3 DEF ClearUi, UiTexts
  <1> QED BY <1>8, <1>9

LEMMA TypeInit ==
  ASSUME Init
  PROVE  TypeInv
  <1>1. NoUi \in UiT /\ EmptyRows \in StoreT
    BY EmptyTypes
  <1>2. NoVault \in VaultT /\ NoDb \in DbT /\ NoVault.is = "none" /\ NoDb.rows = EmptyRows
    BY <1>1 DEF NoVault, VaultT, NoDb, DbT
  <1>3. used \in [Event -> Nat] /\ wiped \subseteq Nat \ {0} /\ wanted \in BOOLEAN /\ cut \in BOOLEAN
    BY DEF Init
  <1>4. kek \in 0 .. 2 /\ vault = NoVault /\ db = NoDb /\ node = NoNode /\ ui = NoUi /\ service = "down"
        /\ wiping = "no"
    BY DEF Init
  <1> QED BY <1>1, <1>2, <1>3, <1>4 DEF TypeInv, Up

LEMMA TypeStep ==
  ASSUME TypeInv, [Next]_vars
  PROVE  TypeInv'
  <1>1. CASE UNCHANGED vars
    BY <1>1 DEF TypeInv, vars, disk, seen, Up
  <1>2. CASE Moving
    BY <1>2, MovingMoves, TypeMove
  <1>3. CASE Idle
    BY <1>3, IdleFacts DEF TypeInv, Up
  <1>4. CASE SystemRestart
    <2>1. BringUp(TRUE) /\ wanted' \in BOOLEAN
      BY <1>4, SystemRestarts DEF TypeInv
    <2> QED BY <2>1, TypeBringUp
  <1>5. ASSUME NEW works \in BOOLEAN, UserStart(works)
        PROVE  TypeInv'
    <2>1. BringUp(works) /\ wanted' \in BOOLEAN
      BY <1>5, UserStarts
    <2> QED BY <2>1, TypeBringUp
  <1>6. CASE stop
    BY <1>6, StopFacts DEF TypeInv
  <1>7. CASE Kill
    <2>1. PICK s \in {"down", "due"} : Die(s)
      BY <1>7 DEF Kill
    <2>2. /\ ~Up' /\ node' = NoNode /\ ui' = NoUi /\ wiping' = "no" /\ service' = s /\ UNCHANGED wiped
          /\ used' \in [Event -> Nat]
      BY <2>1, KillFacts
    <2>3. UNCHANGED <<kek, vault, db, wanted>> /\ cut' \in BOOLEAN
      BY <1>7 DEF Kill, TypeInv
    <2> QED BY <2>2, <2>3, EmptyTypes DEF TypeInv
  <1>8. CASE KillInCreate
    <2>1. Die("due")
      BY <1>8 DEF KillInCreate
    <2>2. /\ ~Up' /\ node' = NoNode /\ ui' = NoUi /\ wiping' = "no" /\ service' = "due" /\ UNCHANGED wiped
          /\ used' \in [Event -> Nat]
      BY <2>1, KillFacts
    <2>3. kek' = kekOrNew /\ vault' = [vault EXCEPT !.is = "torn"] /\ wanted' = TRUE /\ UNCHANGED <<db, cut>>
      BY <1>8 DEF KillInCreate
    <2>4. kekOrNew \in 0 .. 2
      BY FreshFacts DEF kekOrNew, TypeInv
    <2>5. vault' \in VaultT /\ vault'.is = "torn"
      BY <2>3 DEF TypeInv, VaultT
    <2> QED BY <2>2, <2>3, <2>4, <2>5, EmptyTypes DEF TypeInv
  <1>9. CASE panicWipe
    <2>1. WipeFacts
      BY <1>9, PanicWipes
    <2>2. wiped' \subseteq Nat \ {0}
      <3>1. Store \in StoreT /\ ui \in UiT /\ wiped \subseteq Nat \ {0}
        BY <2>1, RunningNode DEF WipeFacts, TypeInv
      <3>2. StoreTexts(Store) \subseteq Nat \ {0} /\ UiTexts \subseteq Nat \ {0}
        BY <3>1, StoreTextsAre, UiTextsAre
      <3>3. wiped' = wiped \cup UiTexts \cup StoreTexts(Store)
        BY <2>1 DEF WipeFacts
      <3> QED BY <3>1, <3>2, <3>3
    <2>3. db'.key = 0 => db'.rows = EmptyRows
      BY <2>1 DEF WipeFacts, TypeInv
    <2>4. Up' /\ node'.where = "db" => db'.key # 0
      BY <2>1 DEF WipeFacts, TypeInv
    <2> QED BY <2>1, <2>2, <2>3, <2>4 DEF TypeInv, WipeFacts
  <1>10. CASE DropNode
    BY <1>10 DEF DropNode, WipeStep, disk, seen, TypeInv, Up
  <1>11. CASE DeleteVault
    <2>1. NoVault \in VaultT /\ NoVault.is = "none"
      BY DEF NoVault, VaultT
    <2> QED BY <1>11, <2>1 DEF DeleteVault, WipeStep, seen, TypeInv, Up
  <1>12. CASE DeleteDb
    <2>1. NoDb \in DbT /\ NoDb.rows = EmptyRows
      BY EmptyTypes DEF NoDb, DbT
    <2> QED BY <1>12, <2>1 DEF DeleteDb, WipeStep, seen, TypeInv, Up
  <1>13. CASE DeleteKek
    BY <1>13 DEF DeleteKek, WipeStep, seen, TypeInv, Up
  <1>14. CASE ClearScreen
    BY <1>14, EmptyTypes DEF ClearScreen, WipeStep, seen, TypeInv, Up
  <1> QED BY <1>1, <1>2, <1>3, <1>4, <1>5, <1>6, <1>7, <1>8, <1>9, <1>10, <1>11, <1>12, <1>13, <1>14, StepKinds

\* Whatever happens, the state is what the handlers expect: a running node has a
\* store, one that works on the database finds one there, and while a wipe
\* deletes the files no node runs.
THEOREM WellFormed == Spec => []TypeInv
  BY TypeInit, TypeStep, PTL DEF Spec

-----------------------------------------------------------------------------
(***************************************************************************)
(* The badge, the mesh, and the store across restarts.                     *)
(***************************************************************************)
BadgeInv == Up /\ Main => Agree(ui, Store)

LEMMA BadgeStep ==
  ASSUME TypeInv, BadgeInv, [Next]_vars
  PROVE  BadgeInv'
  <1>1. CASE UNCHANGED vars
    BY <1>1 DEF BadgeInv, vars, disk, Up, Main, Store, Agree
  <1>2. CASE Moving
    <2>1. PICK n, r, u, X : Move(n, r, u, X)
      BY <1>2, MovingMoves
    <2>2. Store' = r /\ ui' = u /\ wiping' = wiping /\ Up /\ (Agree(ui, Store) => Agree(u, r))
      BY <2>1, MoveStore DEF Move, Effect
    <2>3. Main' => Agree(u, r)
      BY <2>2 DEF BadgeInv, Main
    <2>4. Agree(u, r) => Agree(ui, Store)'
      BY <2>2 DEF Agree
    <2> QED BY <2>3, <2>4 DEF BadgeInv
  <1>3. CASE Idle
    BY <1>3, IdleFacts DEF BadgeInv, Up, Main, Store, Agree
  <1>4. ASSUME NEW works \in BOOLEAN, BringUp(works)
        PROVE  BadgeInv'
    <2>1. CASE Up /\ UNCHANGED <<kek, vault, db, node, ui>>
      BY <1>4, <2>1 DEF BringUp, BadgeInv, Up, Main, Store, Agree
    <2>2. CASE Started(works)
      <3>1. PICK r : r = Store'
        OBVIOUS
      <3>2. PICK u : u = ui'
        OBVIOUS
      <3>3. Agree(u, r)
        BY <2>2, <3>1, <3>2 DEF Started, Restored
      <3>4. Agree(ui, Store)'
        BY <3>1, <3>2, <3>3 DEF Agree
      <3> QED BY <3>4 DEF BadgeInv
    <2> QED BY <1>4, <2>1, <2>2 DEF BringUp
  <1>5. CASE SystemRestart
    BY <1>4, <1>5, SystemRestarts
  <1>6. ASSUME NEW works \in BOOLEAN, UserStart(works)
        PROVE  BadgeInv'
    BY <1>4, <1>6, UserStarts
  <1>7. CASE stop \/ Kill \/ KillInCreate
    BY <1>7 DEF stop, Kill, KillInCreate, Die, BadgeInv, Up
  <1>8. CASE panicWipe \/ DropNode \/ DeleteVault \/ DeleteDb \/ DeleteKek
    BY <1>8 DEF panicWipe, DropNode, DeleteVault, DeleteDb, DeleteKek, WipeStep, BadgeInv, Main
  <1>9. CASE ClearScreen
    BY <1>9 DEF ClearScreen, WipeStep, BadgeInv, TypeInv, Up
  <1> QED BY <1>1, <1>2, <1>3, <1>5, <1>6, <1>7, <1>8, <1>9, StepKinds

\* The peers that the screen shows as verified are those that the store has as
\* verified, through events, restarts, stops, forgotten contacts and wipes.
THEOREM BadgeIsTrue == Spec => []BadgeTrue
  <1>1. Init => BadgeInv
    BY DEF Init, BadgeInv, Up
  <1>2. Spec => []BadgeInv
    BY <1>1, BadgeStep, WellFormed, PTL DEF Spec
  <1>3. BadgeInv => BadgeTrue
    BY DEF BadgeInv, BadgeTrue, Agree
  <1> QED BY <1>2, <1>3, PTL

\* Before any wipe: the node runs exactly while its service is up, and the
\* service is up or due exactly while the mesh is wanted.
MeshInv == used["wipe"] = 0 => /\ Main
                               /\ Up <=> service = "up"
                               /\ wanted <=> service # "down"

LEMMA MeshStep ==
  ASSUME TypeInv, MeshInv, [Next]_vars
  PROVE  MeshInv'
  <1>1. CASE UNCHANGED vars
    BY <1>1 DEF MeshInv, vars, disk, seen, Up, Main
  <1>2. CASE Moving
    <2>1. PICK n, r, u, X : Move(n, r, u, X)
      BY <1>2, MovingMoves
    <2>2. Up /\ Up' /\ UNCHANGED <<service, wiping, wanted>> /\ used'["wipe"] = used["wipe"]
      BY <2>1, MoveStore DEF Move, Counts
    <2> QED BY <2>2 DEF MeshInv, Main
  <1>3. CASE Idle
    BY <1>3, IdleFacts DEF MeshInv, Up, Main
  <1>4. ASSUME NEW works \in BOOLEAN, BringUp(works), wanted' = TRUE \/ (UNCHANGED wanted /\ service = "due")
        PROVE  MeshInv'
    <2>1. Up'
      BY <1>4 DEF BringUp, Started, Up
    <2>2. Main' /\ service' = "up" /\ used'["wipe"] = used["wipe"]
      BY <1>4 DEF BringUp, Main
    <2>3. used["wipe"] = 0 => (wanted' <=> TRUE)
      BY <1>4 DEF MeshInv
    <2> QED BY <2>1, <2>2, <2>3 DEF MeshInv
  <1>5. CASE SystemRestart
    BY <1>4, <1>5, SystemRestarts
  <1>6. ASSUME NEW works \in BOOLEAN, UserStart(works)
        PROVE  MeshInv'
    BY <1>4, <1>6, UserStarts
  <1>7. CASE stop
    BY <1>7, StopFacts DEF MeshInv, Main
  <1>8. CASE Kill
    <2>1. PICK s : Die(s) /\ s = IF service = "down" THEN "down" ELSE "due"
      BY <1>8 DEF Kill
    <2>2. ~Up' /\ wiping' = "no" /\ service' = s /\ used'["wipe"] = used["wipe"]
      BY <2>1, KillFacts
    <2>3. UNCHANGED wanted
      BY <1>8 DEF Kill
    <2> QED BY <2>1, <2>2, <2>3 DEF MeshInv, Main
  <1>9. CASE KillInCreate
    <2>1. Die("due") /\ wanted' = TRUE
      BY <1>9 DEF KillInCreate
    <2>2. ~Up' /\ wiping' = "no" /\ service' = "due"
      BY <2>1, KillFacts
    <2> QED BY <2>1, <2>2 DEF MeshInv, Main
  <1>10. CASE panicWipe
    <2>1. used'["wipe"] = used["wipe"] + 1 /\ used["wipe"] \in Nat
      BY <1>10, PanicWipes DEF WipeFacts, TypeInv, Event
    <2> QED BY <2>1 DEF MeshInv
  <1>11. CASE DropNode \/ DeleteVault \/ DeleteDb \/ DeleteKek \/ ClearScreen
    <2>1. ~Main /\ used' = used
      BY <1>11 DEF DropNode, DeleteVault, DeleteDb, DeleteKek, ClearScreen, WipeStep, Main
    <2> QED BY <2>1 DEF MeshInv
  <1> QED BY <1>1, <1>2, <1>3, <1>5, <1>6, <1>7, <1>8, <1>9, <1>10, <1>11, StepKinds

\* Until the first wipe, while the user wants the mesh its node runs or its
\* service is about to be restarted, and after a stop neither is the case.
THEOREM MeshIsAsAsked == Spec => []MeshAsAsked
  <1>1. Init => MeshInv
    BY DEF Init, MeshInv, Up, Main
  <1>2. Spec => []MeshInv
    BY <1>1, MeshStep, WellFormed, PTL DEF Spec
  <1>3. MeshInv /\ TypeInv => MeshAsAsked
    BY DEF MeshInv, MeshAsAsked, TypeInv
  <1> QED BY <1>2, <1>3, WellFormed, PTL

\* Unless a wipe was cut short after the vault or the keystore failed, the vault
\* opens the database that is there.
StoreInv ==
    /\ wiping \in {"kek", "screen"} => db.key = 0
    /\ ~cut /\ used["keystore"] = 0 =>
          /\ db.key # 0 /\ wiping # "db" =>
                vault.is = "whole" /\ vault.kek = kek /\ kek # 0 /\ vault.key = db.key
          /\ Up => node.where = "db"

LEMMA StoreBringUp ==
  ASSUME TypeInv, StoreInv, NEW works \in BOOLEAN, BringUp(works)
  PROVE  StoreInv'
  <1>0. wiping = "no" /\ wiping' = "no" /\ cut' = cut /\ used["keystore"] \in Nat
    BY DEF BringUp, Main, TypeInv, Event
  <1>1. CASE ~works
    BY <1>0, <1>1 DEF BringUp, StoreInv
  <1>2. CASE works /\ Up /\ UNCHANGED <<kek, vault, db, node, ui>>
    BY <1>0, <1>2 DEF BringUp, StoreInv, Up
  <1>3. CASE works /\ Started(works)
    <2>1. used'["keystore"] = used["keystore"]
      BY <1>3 DEF BringUp
    <2> SUFFICES ASSUME ~cut, used["keystore"] = 0
                 PROVE  /\ vault'.is = "whole" /\ vault'.kek = kek' /\ kek' # 0 /\ vault'.key = db'.key
                        /\ node'.where = "db"
      BY <1>0, <2>1 DEF StoreInv
    <2>2. /\ vault'.is = "whole" /\ vault'.kek = kek' /\ kek' # 0
          /\ db'.key = IF db.key = 0 THEN vault'.key ELSE db.key
          /\ node'.where = IF db.key \in {0, vault'.key} THEN "db" ELSE "memory"
          /\ (Loads(works) => vault' = vault)
      <3>1. kek' \in {1, 2} /\ vault'.is = "whole" /\ vault'.kek = kek'
        BY <1>3 DEF Started
      <3>2. db'.key = IF db.key = 0 THEN vault'.key ELSE db.key
        BY <1>3 DEF Started
      <3>3. node'.where = IF db.key \in {0, vault'.key} THEN "db" ELSE "memory"
        BY <1>3 DEF Started
      <3>4. Loads(works) => vault' = vault
        BY <1>3 DEF Started
      <3> QED BY <3>1, <3>2, <3>3, <3>4
    <2>3. CASE db.key = 0
      BY <2>2, <2>3
    <2>4. CASE db.key # 0
      <3>1. vault.is = "whole" /\ vault.kek = kek /\ kek # 0 /\ vault.key = db.key
        BY <1>0, <2>4 DEF StoreInv
      <3>2. Loads(works)
        BY <1>3, <3>1 DEF Loads, kekOrNew
      <3> QED BY <2>2, <2>4, <3>1, <3>2
    <2> QED BY <2>3, <2>4
  <1> QED BY <1>1, <1>2, <1>3 DEF BringUp

LEMMA StoreStep ==
  ASSUME TypeInv, StoreInv, [Next]_vars
  PROVE  StoreInv'
  <1>1. CASE UNCHANGED vars
    BY <1>1 DEF StoreInv, vars, disk, seen, Up
  <1>2. CASE Moving
    <2>1. PICK n, r, u, X : Move(n, r, u, X)
      BY <1>2, MovingMoves
    <2>2. Up /\ node'.where = node.where /\ db'.key = db.key
      BY <2>1, MoveStore DEF Move
    <2>3. UNCHANGED <<kek, vault, wiping, cut>> /\ used'["keystore"] = used["keystore"]
      BY <2>1 DEF Move, Counts
    <2> QED BY <2>2, <2>3 DEF StoreInv
  <1>3. CASE Idle
    BY <1>3, IdleFacts DEF StoreInv, Up
  <1>4. CASE SystemRestart
    BY <1>4, SystemRestarts, StoreBringUp
  <1>5. ASSUME NEW works \in BOOLEAN, UserStart(works)
        PROVE  StoreInv'
    BY <1>5, UserStarts, StoreBringUp
  <1>6. CASE stop
    BY <1>6, StopFacts DEF StoreInv
  <1>7. CASE Kill
    <2>1. PICK s : Die(s)
      BY <1>7 DEF Kill
    <2>2. ~Up' /\ wiping' = "no" /\ used'["keystore"] = used["keystore"]
      BY <2>1, KillFacts
    <2>3. UNCHANGED <<kek, vault, db>> /\ (cut' <=> cut \/ wiping = "db")
      BY <1>7 DEF Kill
    <2> QED BY <2>2, <2>3 DEF StoreInv
  <1>8. CASE KillInCreate
    <2>1. Die("due") /\ wiping = "no" /\ loadOrCreate(TRUE) # vault /\ UNCHANGED <<db, cut>>
      BY <1>8 DEF KillInCreate, Main
    <2>2. ~Up' /\ wiping' = "no" /\ used'["keystore"] = used["keystore"]
      BY <2>1, KillFacts
    <2>3. ASSUME vault.is = "whole", vault.kek = kek, kek # 0
          PROVE  FALSE
      BY <2>1, <2>3 DEF loadOrCreate, Loads, kekOrNew
    <2> QED BY <2>1, <2>2, <2>3 DEF StoreInv
  <1>9. CASE panicWipe
    <2>1. WipeFacts
      BY <1>9, PanicWipes
    <2> QED BY <2>1 DEF StoreInv, WipeFacts, Main
  <1>10. CASE DropNode
    BY <1>10 DEF DropNode, WipeStep, disk, seen, StoreInv, Up
  <1>11. CASE DeleteVault
    BY <1>11 DEF DeleteVault, WipeStep, seen, StoreInv, TypeInv, Up
  <1>12. CASE DeleteDb
    <2>1. db' = NoDb /\ NoDb.key = 0 /\ ~Up'
      BY <1>12 DEF DeleteDb, NoDb, WipeStep, TypeInv, Up
    <2> QED BY <2>1 DEF StoreInv
  <1>13. CASE DeleteKek
    BY <1>13 DEF DeleteKek, WipeStep, seen, StoreInv, TypeInv, Up
  <1>14. CASE ClearScreen
    BY <1>14 DEF ClearScreen, WipeStep, seen, StoreInv, TypeInv, Up
  <1> QED BY <1>1, <1>2, <1>3, <1>4, <1>5, <1>6, <1>7, <1>8, <1>9, <1>10, <1>11, <1>12, <1>13, <1>14, StepKinds

LEMMA StoreKept == Spec => []StoreInv
  <1>1. Init => StoreInv
    BY DEF Init, StoreInv, NoDb, Up
  <1> QED BY <1>1, StoreStep, WellFormed, PTL DEF Spec

\* A node works on a MemoryStore, and forgets, only after a wipe that was cut
\* short between the vault and the database or after a failure of the keystore:
\* any other sequence of kills, also while the vault is written, keeps the
\* database that is there.
THEOREM StorePersists == Spec => []Persists
  <1>1. StoreInv => Persists
    BY DEF StoreInv, Persists
  <1> QED BY <1>1, StoreKept, PTL

-----------------------------------------------------------------------------
(***************************************************************************)
(* What a wipe has erased.                                                 *)
(***************************************************************************)
\* The texts that are still to come.
Later == {x \in Nat : x >= Text}

\* Every text that there is came earlier.
EarlierInv ==
    /\ ClearUi(ui, Later) /\ Clear(db.rows, Later)
    /\ Up => Clear(Store, Later) /\ ClearEvents(node.events, Later)
    /\ \A x \in wiped : x < Text

Openable == vault.is = "whole" /\ vault.kek = kek /\ vault.key = db.key

\* Erased texts are not shown, not in the store that is in use, not in its queue,
\* and not in a database that the vault opens.  A node that works on a MemoryStore
\* has a vault for another database than the one that is there.
ErasedInv ==
    /\ Main => ClearUi(ui, wiped)
    /\ Up => Clear(Store, wiped) /\ ClearEvents(node.events, wiped)
    /\ Openable => Clear(db.rows, wiped)
    /\ Up /\ node.where = "memory" => vault.key # db.key

LEMMA ClearLess ==
  ASSUME NEW V, NEW W, V \subseteq W
  PROVE  /\ \A r : Clear(r, W) => Clear(r, V)
         /\ \A u : ClearUi(u, W) => ClearUi(u, V)
         /\ \A q : ClearEvents(q, W) => ClearEvents(q, V)
  BY DEF Clear, ClearUi, ClearEvents, ClearRows, ClearHeld, ClearFeeds

LEMMA NoEvents ==
  ASSUME NEW W
  PROVE  ClearEvents(<< >>, W)
  BY EmptySet DEF ClearEvents

LEMMA TextNat ==
  ASSUME TypeInv
  PROVE  Text \in Nat /\ Text > 0
  BY DEF TypeInv, Text, Event

LEMMA EarlierMove ==
  ASSUME TypeInv, EarlierInv, NEW n, NEW r, NEW u, NEW X, Move(n, r, u, X)
  PROVE  EarlierInv'
  <1>1. PICK L : L = Later'
    OBVIOUS
  <1>2. Text \in Nat /\ Text > 0 /\ Text' \in Nat /\ Text' >= Text /\ (X = {} \/ (X = {Text} /\ Text' = Text + 1))
    <2>1. Text' \in Nat
      BY TypeMove DEF TypeInv, Text, Event
    <2> QED BY <2>1, TextNat DEF Move, Counts
  <1>3. L \subseteq Later /\ Others(L, X)
    <2>1. L = {x \in Nat : x >= Text'}
      BY <1>1 DEF Later
    <2> QED BY <1>2, <2>1 DEF Later, Others
  <1>4. Up /\ Clear(Store, L) /\ ClearEvents(node.events, L) /\ ClearUi(ui, L) /\ Clear(db.rows, L)
    BY <1>3, ClearLess DEF EarlierInv, Move
  <1>5. Clear(r, L) /\ ClearEvents(n.events, L) /\ ClearUi(u, L)
    BY <1>3, <1>4 DEF Move, Effect, From
  <1>6. /\ Store' = r /\ node'.events = n.events /\ ui' = u /\ wiped' = wiped
        /\ (node.where = "db" => db'.rows = r) /\ (node.where # "db" => db' = db)
    BY MoveStore DEF Move
  <1>7. Clear(db'.rows, L)
    BY <1>4, <1>5, <1>6
  <1>8. \A x \in wiped' : x < Text'
    BY <1>2, <1>6 DEF EarlierInv, TypeInv
  <1>9. EarlierInv' = ( /\ ClearUi(ui', L) /\ Clear(db'.rows, L)
                        /\ (Up' => Clear(Store', L) /\ ClearEvents(node'.events, L))
                        /\ \A x \in wiped' : x < Text' )
    BY <1>1 DEF EarlierInv, ClearUi, Clear, ClearEvents, ClearRows, ClearHeld, ClearFeeds
  <1> QED BY <1>5, <1>6, <1>7, <1>8, <1>9

LEMMA EarlierNext ==
  ASSUME NEW L, L = Later', ClearUi(ui', L), Clear(db'.rows, L),
         Up' => Clear(Store', L) /\ ClearEvents(node'.events, L), \A x \in wiped' : x < Text'
  PROVE  EarlierInv'
  <1>1. EarlierInv' = ( /\ ClearUi(ui', L) /\ Clear(db'.rows, L)
                        /\ (Up' => Clear(Store', L) /\ ClearEvents(node'.events, L))
                        /\ \A x \in wiped' : x < Text' )
    BY DEF EarlierInv, ClearUi, Clear, ClearEvents, ClearRows, ClearHeld, ClearFeeds
  <1> QED BY <1>1

LEMMA EarlierBringUp ==
  ASSUME TypeInv, EarlierInv, NEW works \in BOOLEAN, BringUp(works)
  PROVE  EarlierInv'
  <1>1. PICK L : L = Later'
    OBVIOUS
  <1>2. Text' = Text /\ wiped' = wiped
    BY DEF BringUp
  <1>3. L = Later
    BY <1>1, <1>2 DEF Later
  <1>4. ClearUi(ui, L) /\ Clear(db.rows, L) /\ (\A x \in wiped : x < Text)
        /\ (Up => Clear(Store, L) /\ ClearEvents(node.events, L))
    BY <1>3 DEF EarlierInv
  <1>5. CASE Up /\ UNCHANGED <<kek, vault, db, node, ui>>
    <2>1. Store' = Store /\ Up' /\ node' = node /\ ui' = ui /\ db' = db
      BY <1>5 DEF Store, Up
    <2> QED BY <1>1, <1>2, <1>4, <1>5, <2>1, EarlierNext
  <1>6. CASE Started(works)
    <2>1. Clear(EmptyRows, L)
      BY EmptyTypes
    <2>2. PICK r : r = Store'
      OBVIOUS
    <2>3. Clear(r, L) /\ db'.rows = db.rows /\ node'.events = << >> /\ Restored(ui, r, ui')
      BY <1>4, <1>6, <2>1, <2>2 DEF Started
    <2>4. ClearUi(ui', L)
      BY <1>4, <2>3 DEF Restored
    <2>5. ClearEvents(node'.events, L)
      BY <2>3, NoEvents
    <2> QED BY <1>1, <1>2, <1>4, <2>2, <2>3, <2>4, <2>5, EarlierNext
  <1> QED BY <1>5, <1>6 DEF BringUp

LEMMA EarlierStep ==
  ASSUME TypeInv, EarlierInv, [Next]_vars
  PROVE  EarlierInv'
  <1>1. CASE Moving
    BY <1>1, MovingMoves, EarlierMove
  <1>2. CASE SystemRestart
    BY <1>2, SystemRestarts, EarlierBringUp
  <1>3. ASSUME NEW works \in BOOLEAN, UserStart(works)
        PROVE  EarlierInv'
    BY <1>3, UserStarts, EarlierBringUp
  <1>4. PICK L : L = Later'
    OBVIOUS
  <1>5. ASSUME Text' = Text
        PROVE  L = Later /\ ClearUi(ui, L) /\ Clear(db.rows, L) /\ (\A x \in wiped : x < Text')
               /\ (Up => Clear(Store, L) /\ ClearEvents(node.events, L))
    <2>1. L = Later
      BY <1>4, <1>5 DEF Later
    <2> QED BY <1>5, <2>1 DEF EarlierInv
  <1>6. ClearUi(NoUi, L) /\ Clear(EmptyRows, L) /\ ClearEvents(<< >>, L)
    BY EmptyTypes, NoEvents
  <1>7. CASE UNCHANGED vars \/ Idle
    <2>1. UNCHANGED <<db, node, ui, wiped>> /\ Text' = Text
      BY <1>7, IdleFacts DEF vars, disk, seen, Text
    <2>2. Store' = Store /\ Up' = Up
      BY <2>1 DEF Store, Up
    <2> QED BY <1>4, <1>5, <2>1, <2>2, EarlierNext
  <1>8. CASE stop
    BY <1>4, <1>5, <1>8, StopFacts, EarlierNext
  <1>9. CASE Kill \/ KillInCreate
    <2>1. PICK s : Die(s)
      BY <1>9 DEF Kill, KillInCreate
    <2>2. ~Up' /\ ui' = NoUi /\ UNCHANGED wiped /\ Text' = Text
      BY <2>1, KillFacts
    <2>3. db' = db
      BY <1>9 DEF Kill, KillInCreate
    <2> QED BY <1>4, <1>5, <1>6, <2>2, <2>3, EarlierNext
  <1>10. CASE panicWipe
    <2>1. WipeFacts
      BY <1>10, PanicWipes
    <2>2. /\ Up /\ Text' = Text /\ ui' = ui /\ Store' = EmptyRows /\ node'.events = << >>
          /\ (node.where = "db" => db'.rows = EmptyRows) /\ (node.where # "db" => db' = db)
          /\ wiped' = wiped \cup UiTexts \cup StoreTexts(Store)
      BY <2>1 DEF WipeFacts
    <2>3. Clear(db'.rows, L)
      BY <1>5, <1>6, <2>2
    <2>4. \A x \in wiped' : x < Text'
      <3>1. L = Later /\ 0 \notin Later /\ Text' = Text /\ Text \in Nat
        BY <1>5, <2>2, TextNat DEF Later
      <3>2. Store \in StoreT /\ ui \in UiT
        BY <2>2, RunningNode DEF TypeInv
      <3>3. Later \cap StoreTexts(Store) = {} /\ StoreTexts(Store) \subseteq Nat
        BY <1>5, <2>2, <3>1, <3>2, StoreTextsAre
      <3>4. Later \cap UiTexts = {} /\ UiTexts \subseteq Nat
        BY <1>5, <2>2, <3>1, <3>2, UiTextsAre
      <3>5. \A x \in wiped : x < Text
        BY DEF EarlierInv
      <3>6. \A x \in Nat : x \notin Later => x < Text
        BY <3>1 DEF Later
      <3>7. \A x \in StoreTexts(Store) : x < Text
        BY <3>3, <3>6
      <3>8. \A x \in UiTexts : x < Text
        BY <3>4, <3>6
      <3> QED BY <2>2, <3>1, <3>5, <3>7, <3>8
    <2> QED BY <1>4, <1>5, <1>6, <2>2, <2>3, <2>4, EarlierNext
  <1>11. CASE DropNode \/ DeleteVault \/ DeleteDb \/ DeleteKek \/ ClearScreen
    <2>1. Text' = Text /\ wiped' = wiped
      BY <1>11 DEF DropNode, DeleteVault, DeleteDb, DeleteKek, ClearScreen, seen, Text
    <2>2. ~Up'
      BY <1>11 DEF DropNode, DeleteVault, DeleteDb, DeleteKek, ClearScreen, WipeStep, TypeInv, Up
    <2>3. db'.rows \in {db.rows, EmptyRows}
      BY <1>11 DEF DropNode, DeleteVault, DeleteDb, DeleteKek, ClearScreen, disk, NoDb
    <2>4. ui' \in {ui, NoUi}
      BY <1>11 DEF DropNode, DeleteVault, DeleteDb, DeleteKek, ClearScreen
    <2> QED BY <1>4, <1>5, <1>6, <2>1, <2>2, <2>3, <2>4, EarlierNext
  <1> QED BY <1>1, <1>2, <1>3, <1>7, <1>8, <1>9, <1>10, <1>11, StepKinds

LEMMA ErasedNext ==
  ASSUME NEW W, W = wiped',
         Main' => ClearUi(ui', W),
         Up' => Clear(Store', W) /\ ClearEvents(node'.events, W),
         Openable' => Clear(db'.rows, W),
         Up' /\ node'.where = "memory" => vault'.key # db'.key
  PROVE  ErasedInv'
  <1>1. ErasedInv' = ( /\ (Main' => ClearUi(ui', W))
                       /\ (Up' => Clear(Store', W) /\ ClearEvents(node'.events, W))
                       /\ (Openable' => Clear(db'.rows, W))
                       /\ (Up' /\ node'.where = "memory" => vault'.key # db'.key) )
    BY DEF ErasedInv, ClearUi, Clear, ClearEvents, ClearRows, ClearHeld, ClearFeeds
  <1> QED BY <1>1

LEMMA ErasedMove ==
  ASSUME TypeInv, EarlierInv, ErasedInv, NEW n, NEW r, NEW u, NEW X, Move(n, r, u, X)
  PROVE  ErasedInv'
  <1>1. Others(wiped, X)
    <2>1. X = {} \/ X = {Text}
      BY DEF Move, Counts
    <2> QED BY <2>1, TextNat DEF Others, EarlierInv, TypeInv
  <1>2. Up /\ Clear(Store, wiped) /\ ClearEvents(node.events, wiped)
    BY DEF ErasedInv, Move
  <1>3. Clear(r, wiped) /\ ClearEvents(n.events, wiped) /\ (ClearUi(ui, wiped) => ClearUi(u, wiped))
    BY <1>1, <1>2 DEF Move, Effect, From
  <1>4. /\ Store' = r /\ node'.events = n.events /\ node'.where = node.where /\ db'.key = db.key
        /\ (node.where = "db" => db'.rows = r) /\ (node.where # "db" => db' = db)
    BY MoveStore
  <1>5. ui' = u /\ UNCHANGED <<kek, vault, wiping, wiped>>
    BY DEF Move
  <1>6. Main' => ClearUi(ui', wiped)
    BY <1>3, <1>5 DEF ErasedInv, Main
  <1>7. Openable' => Clear(db'.rows, wiped)
    BY <1>3, <1>4, <1>5 DEF ErasedInv, Openable
  <1>8. Up' /\ node'.where = "memory" => vault'.key # db'.key
    BY <1>2, <1>4, <1>5 DEF ErasedInv
  <1> QED BY <1>3, <1>4, <1>5, <1>6, <1>7, <1>8, ErasedNext

LEMMA ErasedBringUp ==
  ASSUME TypeInv, ErasedInv, NEW works \in BOOLEAN, BringUp(works)
  PROVE  ErasedInv'
  <1>0. Main /\ Main' /\ wiped' = wiped /\ ClearUi(ui, wiped)
    BY DEF BringUp, Main, ErasedInv
  <1>1. CASE Up /\ UNCHANGED <<kek, vault, db, node, ui>>
    <2>1. Store' = Store /\ Up' /\ node' = node /\ ui' = ui /\ db' = db /\ (Openable' <=> Openable) /\ vault' = vault
      BY <1>1 DEF Store, Up, Openable
    <2> QED BY <1>0, <1>1, <2>1, ErasedNext DEF ErasedInv
  <1>2. CASE Started(works)
    <2>1. /\ vault'.is = "whole" /\ vault'.kek = kek'
          /\ (Loads(works) => vault' = vault /\ kek' = kek)
          /\ (~Loads(works) => vault'.key # db.key)
      BY <1>2 DEF Started
    <2>2. /\ db'.rows = db.rows
          /\ db'.key = IF db.key = 0 THEN vault'.key ELSE db.key
      BY <1>2 DEF Started
    <2>3. /\ node'.events = << >> /\ vault'.key # 0
          /\ node'.where = IF db.key \in {0, vault'.key} THEN "db" ELSE "memory"
          /\ Store' = IF db.key \in {0, vault'.key} THEN db.rows ELSE EmptyRows
      BY <1>2 DEF Started
    <2>4. Clear(EmptyRows, wiped)
      BY EmptyTypes
    <2>5. db.key \in {0, vault'.key} => Clear(db.rows, wiped)
      <3>1. CASE db.key = 0
        BY <2>4, <3>1 DEF TypeInv
      <3>2. CASE db.key # 0 /\ db.key = vault'.key
        <4>1. Loads(works) /\ vault' = vault /\ kek' = kek
          BY <2>1, <3>2
        <4>2. Openable
          BY <2>1, <3>2, <4>1 DEF Openable
        <4> QED BY <4>2 DEF ErasedInv
      <3> QED BY <3>1, <3>2
    <2>6. PICK r : r = Store'
      OBVIOUS
    <2>7. Clear(r, wiped)
      BY <2>3, <2>4, <2>5, <2>6
    <2>8. Restored(ui, r, ui')
      BY <1>2, <2>6 DEF Started
    <2>9. ClearUi(ui', wiped)
      BY <1>0, <2>7, <2>8 DEF Restored
    <2>10. ClearEvents(node'.events, wiped)
      BY <2>3, NoEvents
    <2>11. Openable' => Clear(db'.rows, wiped)
      <3>1. Openable' => vault'.key = db'.key
        BY DEF Openable
      <3> QED BY <2>2, <2>5, <3>1
    <2>12. node'.where = "memory" => vault'.key # db'.key
      BY <2>2, <2>3
    <2> QED BY <1>0, <2>6, <2>7, <2>9, <2>10, <2>11, <2>12, ErasedNext
  <1> QED BY <1>1, <1>2 DEF BringUp

LEMMA ErasedStep ==
  ASSUME TypeInv, StoreInv, EarlierInv, ErasedInv, [Next]_vars
  PROVE  ErasedInv'
  <1>1. CASE Moving
    BY <1>1, MovingMoves, ErasedMove
  <1>2. CASE SystemRestart
    BY <1>2, SystemRestarts, ErasedBringUp
  <1>3. ASSUME NEW works \in BOOLEAN, UserStart(works)
        PROVE  ErasedInv'
    BY <1>3, UserStarts, ErasedBringUp
  <1>4. PICK W : W = wiped'
    OBVIOUS
  <1>5. ClearUi(NoUi, W) /\ Clear(EmptyRows, W) /\ ClearEvents(<< >>, W)
    BY EmptyTypes, NoEvents
  <1>6. ASSUME wiped' = wiped
        PROVE  /\ Main => ClearUi(ui, W)
               /\ Up => Clear(Store, W) /\ ClearEvents(node.events, W)
               /\ Openable => Clear(db.rows, W)
               /\ Up /\ node.where = "memory" => vault.key # db.key
    BY <1>4, <1>6 DEF ErasedInv
  <1>7. CASE UNCHANGED vars \/ Idle
    <2>1. UNCHANGED <<kek, vault, db, node, ui, wiped, wiping>>
      BY <1>7, IdleFacts DEF vars, disk, seen
    <2>2. Store' = Store /\ (Up' <=> Up) /\ (Main' <=> Main) /\ (Openable' <=> Openable)
      BY <2>1 DEF Store, Up, Main, Openable
    <2> QED BY <1>4, <1>6, <2>1, <2>2, ErasedNext
  <1>8. CASE stop
    <2>1. UNCHANGED <<kek, vault, db, ui, wiping, wiped>> /\ ~Up'
      BY <1>8, StopFacts
    <2>2. (Main' <=> Main) /\ (Openable' <=> Openable)
      BY <2>1 DEF Main, Openable
    <2> QED BY <1>4, <1>6, <2>1, <2>2, ErasedNext
  <1>9. CASE Kill
    <2>1. PICK s : Die(s)
      BY <1>9 DEF Kill
    <2>2. ~Up' /\ ui' = NoUi /\ UNCHANGED wiped
      BY <2>1, KillFacts
    <2>3. db' = db /\ (Openable' <=> Openable)
      BY <1>9 DEF Kill, Openable
    <2> QED BY <1>4, <1>5, <1>6, <2>2, <2>3, ErasedNext
  <1>10. CASE KillInCreate
    <2>1. Die("due")
      BY <1>10 DEF KillInCreate
    <2>2. ~Up' /\ ui' = NoUi /\ UNCHANGED wiped
      BY <2>1, KillFacts
    <2>3. vault' = [vault EXCEPT !.is = "torn"] /\ vault \in VaultT
      BY <1>10 DEF KillInCreate, TypeInv
    <2>4. ~Openable'
      BY <2>3 DEF Openable, VaultT
    <2> QED BY <1>4, <1>5, <2>2, <2>4, ErasedNext
  <1>11. CASE panicWipe
    <2>1. WipeFacts
      BY <1>11, PanicWipes
    <2>2. /\ Up /\ ~Main' /\ Store' = EmptyRows /\ node'.events = << >> /\ node'.where = node.where
          /\ (node.where = "db" => db'.rows = EmptyRows) /\ db'.key = db.key /\ UNCHANGED <<kek, vault>>
      BY <2>1 DEF WipeFacts, Main
    <2>3. node.where \in {"db", "memory"}
      BY <2>2, RunningNode
    <2>4. node.where = "memory" => vault'.key # db'.key
      BY <2>2 DEF ErasedInv
    <2>5. Openable' => Clear(db'.rows, W)
      BY <1>5, <2>2, <2>3, <2>4 DEF Openable
    <2> QED BY <1>4, <1>5, <2>2, <2>4, <2>5, ErasedNext
  <1>12. CASE DropNode \/ DeleteVault \/ DeleteDb \/ DeleteKek \/ ClearScreen
    <2>1. wiped' = wiped /\ ~Up'
      BY <1>12 DEF DropNode, DeleteVault, DeleteDb, DeleteKek, ClearScreen, WipeStep, TypeInv, Up, seen
    <2>2. Main' => ClearUi(ui', W)
      BY <1>5, <1>12 DEF DropNode, DeleteVault, DeleteDb, DeleteKek, ClearScreen, WipeStep, Main
    <2>3. Openable' => Clear(db'.rows, W)
      <3>1. CASE DropNode \/ ClearScreen
        <4>1. UNCHANGED <<kek, vault, db>>
          BY <3>1 DEF DropNode, ClearScreen, disk
        <4> QED BY <1>6, <2>1, <4>1 DEF Openable
      <3>2. CASE DeleteVault
        BY <3>2 DEF DeleteVault, Openable, NoVault
      <3>3. CASE DeleteDb
        BY <1>5, <3>3 DEF DeleteDb, NoDb
      <3>4. CASE DeleteKek
        <4>1. db' = db /\ db.rows = EmptyRows
          BY <3>4 DEF DeleteKek, WipeStep, StoreInv, TypeInv
        <4> QED BY <1>5, <4>1
      <3> QED BY <1>12, <3>1, <3>2, <3>3, <3>4
    <2> QED BY <1>4, <2>1, <2>2, <2>3, ErasedNext
  <1> QED BY <1>1, <1>2, <1>3, <1>7, <1>8, <1>9, <1>10, <1>11, <1>12, StepKinds

\* What a wipe has erased does not come back: not on the screen, not in the store
\* of any later node, not in a database that can be opened, wherever the wipe is
\* cut short, whatever fails and whatever is started after it.
THEOREM ErasedIsGone == Spec => []ErasedForGood
  <1>1. ASSUME Init
        PROVE  EarlierInv /\ ErasedInv
    <2>1. ui = NoUi /\ db = NoDb /\ ~Up /\ wiped = {} /\ NoDb.rows = EmptyRows
      BY <1>1 DEF Init, Up, NoDb
    <2>2. ClearUi(NoUi, Later) /\ Clear(EmptyRows, Later) /\ ClearUi(NoUi, wiped) /\ Clear(EmptyRows, wiped)
      BY EmptyTypes
    <2> QED BY <2>1, <2>2 DEF EarlierInv, ErasedInv
  <1>2. ASSUME TypeInv, ErasedInv
        PROVE  ErasedForGood
    <2>1. 0 \notin wiped /\ ui \in UiT /\ db.rows \in StoreT
      BY <1>2 DEF TypeInv, DbT
    <2>2. ClearUi(ui, wiped) => wiped \cap UiTexts = {}
      BY <2>1, UiTextsAre
    <2>3. Clear(db.rows, wiped) => wiped \cap StoreTexts(db.rows) = {}
      BY <2>1, StoreTextsAre
    <2>4. Up /\ Clear(Store, wiped) => wiped \cap StoreTexts(Store) = {}
      BY <1>2, <2>1, StoreTextsAre, RunningNode
    <2> QED BY <1>2, <2>2, <2>3, <2>4 DEF ErasedInv, Openable, ErasedForGood
  <1>3. Spec => [](TypeInv /\ EarlierInv)
    BY <1>1, EarlierStep, WellFormed, PTL DEF Spec
  <1>4. Spec => []ErasedInv
    BY <1>1, <1>3, ErasedStep, StoreKept, PTL DEF Spec
  <1> QED BY <1>2, <1>4, WellFormed, PTL

-----------------------------------------------------------------------------
(***************************************************************************)
(* The limits on posts.                                                    *)
(***************************************************************************)
LEMMA DivBound ==
  ASSUME NEW a \in Nat, NEW b \in Nat \ {0}, NEW c \in Nat, a \div b >= c
  PROVE  a >= c * b
  <1>1. PICK q \in Nat : q = a \div b
    OBVIOUS
  <1>2. q * b <= a
    BY <1>1
  <1>3. PICK e \in Nat : q = c + e
    BY <1>1
  <1>4. q * b = c * b + e * b /\ e * b >= 0
    BY <1>3
  <1> QED BY <1>2, <1>4

\* Of a sequence whose elements in K come last, those elements are the tail.
IsTail(s, K, d, w) ==
    /\ d \in 0 .. Len(s)
    /\ \A i \in 1 .. d : s[i] \notin K
    /\ Len(w) = Len(s) - d
    /\ \A j \in 1 .. Len(s) - d : w[j] = s[d + j]

LEMMA OnlyTail ==
  ASSUME NEW s \in Seq(Nat), NEW K,
         \A i, j \in 1 .. Len(s) : i <= j /\ s[i] \in K => s[j] \in K
  PROVE  \E d : IsTail(s, K, d, Only(s, K))
  <1>0. PICK N \in Nat : N = Len(s)
    OBVIOUS
  <1>1. PICK f : /\ f[0] = << >>
                 /\ \A k \in 1 .. N : f[k] = OneMore(f[k - 1], s[k], K)
                 /\ f[N] = Only(s, K)
    BY <1>0, OnlySteps, Zenon
  <1> DEFINE T == {k \in 0 .. N : \A i \in k + 1 .. N : s[i] \in K}
  <1>2. T \subseteq Nat /\ N \in T
    OBVIOUS
  <1> HIDE DEF T
  <1>3. PICK d \in T : \A y \in T : d <= y
    BY <1>2, LeastNat
  <1>4. d \in 0 .. N /\ \A i \in d + 1 .. N : s[i] \in K
    BY <1>3 DEF T
  <1>5. ASSUME NEW i \in 1 .. d, s[i] \in K
        PROVE  FALSE
    <2>1. \A j \in i .. N : s[j] \in K
      BY <1>0, <1>4, <1>5
    <2>2. i - 1 \in 0 .. N /\ \A j \in (i - 1) + 1 .. N : s[j] \in K
      BY <1>4, <2>1
    <2>3. i - 1 \in T
      BY <2>2 DEF T
    <2>4. d <= i - 1
      BY <1>3, <2>3
    <2> QED BY <1>4, <2>4
  <1> DEFINE S == {k \in 0 .. N : /\ f[k] \in Seq(Nat)
                                  /\ k <= d => Len(f[k]) = 0
                                  /\ k > d => /\ Len(f[k]) = k - d
                                              /\ \A j \in 1 .. k - d : f[k][j] = s[d + j]}
  <1>6. 0 \in S
    <2>1. f[0] \in Seq(Nat) /\ Len(f[0]) = 0
      BY <1>1
    <2>2. 0 \in 0 .. N /\ ~(0 > d)
      BY <1>4
    <2> QED BY <2>1, <2>2
  <1>7. ASSUME NEW k \in 1 .. N, k - 1 \in S
        PROVE  k \in S
    <2>1. PICK t : t = f[k - 1]
      OBVIOUS
    <2>2. /\ t \in Seq(Nat) /\ (k - 1 <= d => Len(t) = 0)
          /\ (k - 1 > d => Len(t) = k - 1 - d /\ \A j \in 1 .. k - 1 - d : t[j] = s[d + j])
      BY <1>7, <2>1
    <2>3. s[k] \in Nat
      BY <1>0
    <2>4. CASE k <= d
      <3>1. s[k] \notin K
        BY <1>5, <2>4
      <3>2. f[k] = t
        BY <1>1, <2>1, <3>1 DEF OneMore
      <3> QED BY <1>4, <2>2, <2>4, <3>2
    <2>5. CASE k > d
      <3>1. s[k] \in K
        BY <1>4, <2>5
      <3>2. f[k] = Append(t, s[k])
        BY <1>1, <2>1, <3>1 DEF OneMore
      <3>3. PICK M \in Nat : M = k - 1 - d
        BY <1>4, <2>5
      <3>4. Len(t) = M /\ \A j \in 1 .. M : t[j] = s[d + j]
        BY <1>4, <2>2, <2>5, <3>3
      <3>5. /\ f[k] \in Seq(Nat) /\ Len(f[k]) = M + 1 /\ f[k][M + 1] = s[k]
            /\ \A j \in 1 .. M : f[k][j] = t[j]
        BY <2>2, <2>3, <3>2, <3>4
      <3>6. d + (M + 1) = k /\ k - d = M + 1
        BY <1>4, <3>3
      <3>7. \A j \in 1 .. M + 1 : f[k][j] = s[d + j]
        <4>1. ASSUME NEW j \in 1 .. M + 1
              PROVE  f[k][j] = s[d + j]
          <5>1. CASE j = M + 1
            BY <3>5, <3>6, <5>1
          <5>2. CASE j # M + 1
            <6>1. j \in 1 .. M
              BY <5>2
            <6> QED BY <3>4, <3>5, <6>1
          <5> QED BY <5>1, <5>2
        <4> QED BY <4>1
      <3>8. k \in 0 .. N /\ ~(k <= d)
        BY <1>4, <2>5
      <3>9. Len(f[k]) = k - d /\ \A j \in 1 .. k - d : f[k][j] = s[d + j]
        BY <3>5, <3>6, <3>7
      <3> QED BY <3>5, <3>8, <3>9
    <2> QED BY <1>4, <2>4, <2>5
  <1> HIDE DEF S
  <1>8. \A k \in 0 .. N : k \in S
    BY <1>6, <1>7, UpTo
  <1>9. N \in S
    BY <1>8
  <1>10. Len(f[N]) = N - d /\ \A j \in 1 .. N - d : f[N][j] = s[d + j]
    <2>1. /\ N <= d => Len(f[N]) = 0
          /\ N > d => Len(f[N]) = N - d /\ \A j \in 1 .. N - d : f[N][j] = s[d + j]
      BY <1>9 DEF S
    <2>2. CASE N > d
      BY <2>1, <2>2
    <2>3. CASE ~(N > d)
      <3>1. N = d /\ N - d = 0 /\ 1 .. N - d = {}
        BY <1>4, <2>3
      <3> QED BY <2>1, <3>1
    <2> QED BY <2>2, <2>3
  <1>11. IsTail(s, K, d, f[N])
    BY <1>0, <1>4, <1>5, <1>10 DEF IsTail
  <1> QED BY <1>1, <1>11

Sorted(g, now) == /\ \A i, j \in 1 .. Len(g) : i <= j => g[i] <= g[j]
                  /\ \A i \in 1 .. Len(g) : g[i] <= now

\* The times kept are the newest ones, and those that were dropped are too old.
Fits(t, g, now) == /\ Len(t) <= Len(g)
                   /\ \A j \in 1 .. Len(t) : t[j] = g[Len(g) - Len(t) + j]
                   /\ \A k \in 1 .. Len(g) - Len(t) : now - g[k] >= Window

LEMMA RecentFits ==
  ASSUME NEW t \in Seq(Nat), NEW g \in Seq(Nat), NEW now \in Nat, Sorted(g, now), Fits(t, g, now),
         NEW w, w = Only(t, {x \in ToSet(t) : now - x < Window})
  PROVE  w \in Seq(Nat) /\ Fits(w, g, now)
  <1>0. Window \in Nat
    BY ParameterAssumption
  <1>1. PICK K : K = {x \in ToSet(t) : now - x < Window}
    OBVIOUS
  <1>2. PICK M \in Nat : M = Len(t)
    OBVIOUS
  <1>3. PICK G \in Nat : G = Len(g)
    OBVIOUS
  <1>4. w \in Seq(Nat) /\ w = Only(t, K)
    BY <1>1, OnlySet
  <1>5. PICK e \in Nat : e = G - M
    <2>1. M <= G
      BY <1>2, <1>3 DEF Fits
    <2> QED BY <2>1
  <1>6. /\ \A j \in 1 .. M : t[j] = g[e + j] /\ e + j \in 1 .. G
        /\ \A k \in 1 .. e : now - g[k] >= Window
    BY <1>2, <1>3, <1>5 DEF Fits
  <1>7. \A j \in 1 .. M : t[j] \in ToSet(t) /\ t[j] \in Nat
    BY <1>2 DEF ToSet
  <1>8. \A j \in 1 .. M : t[j] \in K <=> now - t[j] < Window
    BY <1>1, <1>7
  <1>9. \A i, j \in 1 .. M : i <= j => t[i] <= t[j]
    BY <1>3, <1>6 DEF Sorted
  <1>10. \A i, j \in 1 .. Len(t) : i <= j /\ t[i] \in K => t[j] \in K
    BY <1>0, <1>2, <1>7, <1>8, <1>9
  <1>11. PICK d : IsTail(t, K, d, w)
    <2>1. \E d : IsTail(t, K, d, Only(t, K))
      BY <1>10, OnlyTail
    <2> QED BY <1>4, <2>1
  <1>12. /\ d \in 0 .. M /\ Len(w) = M - d
         /\ \A i \in 1 .. d : t[i] \notin K
         /\ \A j \in 1 .. M - d : w[j] = t[d + j]
    BY <1>2, <1>11 DEF IsTail
  <1>13. G - Len(w) = e + d /\ Len(w) <= G
    BY <1>5, <1>12
  <1>14. \A j \in 1 .. Len(w) : w[j] = g[(e + d) + j]
    <2>1. ASSUME NEW j \in 1 .. Len(w)
          PROVE  w[j] = g[(e + d) + j]
      <3>1. j \in 1 .. M - d /\ d + j \in 1 .. M /\ e + (d + j) = (e + d) + j
        BY <1>12
      <3>2. w[j] = t[d + j] /\ t[d + j] = g[e + (d + j)]
        BY <1>6, <1>12, <3>1
      <3> QED BY <3>1, <3>2
    <2> QED BY <2>1
  <1>15. \A k \in 1 .. e + d : now - g[k] >= Window
    <2>1. ASSUME NEW k \in 1 .. e + d
          PROVE  now - g[k] >= Window
      <3>1. CASE k <= e
        BY <1>6, <3>1
      <3>2. CASE k > e
        <4>1. PICK i \in 1 .. d : k = e + i
          <5>1. k - e \in 1 .. d /\ k = e + (k - e)
            BY <1>12, <3>2
          <5> QED BY <5>1
        <4>2. i \in 1 .. M /\ t[i] = g[k]
          BY <1>6, <1>12, <4>1
        <4>3. ~(now - t[i] < Window) /\ t[i] \in Nat
          BY <1>7, <1>8, <1>12, <4>2
        <4> QED BY <1>0, <4>2, <4>3
      <3> QED BY <1>12, <3>1, <3>2
    <2> QED BY <2>1
  <1>16. Fits(w, g, now)
    BY <1>3, <1>13, <1>14, <1>15 DEF Fits
  <1> QED BY <1>4, <1>16

SpacedBy(s, gap, n) == \A k \in n + 1 .. Len(s) : s[k] - s[k - n] >= gap

LEMMA SpacedAppend ==
  ASSUME NEW s \in Seq(Nat), NEW gap \in Nat, NEW n \in Nat \ {0}, SpacedBy(s, gap, n), NEW x \in Nat,
         Len(s) >= n => x - s[Len(s) + 1 - n] >= gap
  PROVE  SpacedBy(Append(s, x), gap, n)
  <1>0. PICK N \in Nat : N = Len(s)
    OBVIOUS
  <1>1. PICK t : t = Append(s, x)
    OBVIOUS
  <1>2. Len(t) = N + 1 /\ t[N + 1] = x /\ \A k \in 1 .. N : t[k] = s[k]
    BY <1>0, <1>1
  <1>3. ASSUME NEW k \in n + 1 .. N + 1
        PROVE  t[k] - t[k - n] >= gap
    <2>1. k - n \in 1 .. N
      OBVIOUS
    <2>2. CASE k = N + 1
      <3>1. t[k - n] = s[N + 1 - n] /\ t[k] = x /\ N >= n
        BY <1>2, <2>1, <2>2
      <3> QED BY <1>0, <3>1
    <2>3. CASE k # N + 1
      <3>1. k \in 1 .. N /\ k \in n + 1 .. N
        BY <2>3
      <3>2. t[k] = s[k] /\ t[k - n] = s[k - n]
        BY <1>2, <2>1, <3>1
      <3> QED BY <1>0, <3>1, <3>2 DEF SpacedBy
    <2> QED BY <2>2, <2>3
  <1>4. SpacedBy(t, gap, n)
    BY <1>2, <1>3 DEF SpacedBy
  <1> QED BY <1>1, <1>4

\* Announcements: the last one is remembered, and the countdown is over only when
\* the cooldown is.
AnnounceOk(a, now, prev, left) ==
    /\ a \in Seq(Nat) /\ prev \in Nat /\ prev <= now /\ left \in Nat
    /\ SpacedBy(a, Cooldown * Second, 1)
    /\ Len(a) > 0 => a[Len(a)] = prev /\ prev # 0
    /\ Len(a) > 0 /\ left = 0 => now - prev >= Cooldown * Second

ChannelOk(g, t, now) ==
    /\ g \in Seq(Nat) /\ t \in Seq(Nat)
    /\ Sorted(g, now) /\ Fits(t, g, now)
    /\ SpacedBy(g, Window, Burst)

PostInv ==
    /\ clock \in Nat \ {0} /\ DOMAIN posted = Channel
    /\ AnnounceOk(posted["announce"], clock, last, cooldown)
    /\ ChannelOk(posted["general"], times, clock)

LEMMA SpacingNat == Cooldown * Second \in Nat /\ Window \in Nat /\ Burst \in Nat \ {0}
                    /\ Cooldown \in Nat \ {0} /\ Second \in Nat \ {0}
  <1>1. Cooldown \in Nat \ {0} /\ Second \in Nat \ {0} /\ Window \in Nat /\ Burst \in Nat \ {0}
    BY ParameterAssumption
  <1>2. \A a, b \in Nat : a * b \in Nat
    OBVIOUS
  <1> QED BY <1>1, <1>2

LEMMA PostsEmpty ==
  ASSUME NEW now \in Nat
  PROVE  AnnounceOk(<< >>, now, 0, 0) /\ ChannelOk(<< >>, << >>, now)
  <1>1. << >> \in Seq(Nat) /\ Len(<< >>) = 0
    OBVIOUS
  <1>2. ASSUME NEW gap, NEW n \in Nat
        PROVE  SpacedBy(<< >>, gap, n)
    <2>1. n + 1 .. 0 = {}
      OBVIOUS
    <2> QED BY <1>1, <2>1 DEF SpacedBy
  <1>3. 1 .. 0 = {} /\ 0 - 0 = 0
    OBVIOUS
  <1>4. Sorted(<< >>, now) /\ Fits(<< >>, << >>, now)
    BY <1>1, <1>3 DEF Sorted, Fits
  <1>5. 1 \in Nat /\ Burst \in Nat
    BY SpacingNat
  <1>6. AnnounceOk(<< >>, now, 0, 0)
    BY <1>1, <1>2, <1>5 DEF AnnounceOk
  <1>7. ChannelOk(<< >>, << >>, now)
    BY <1>1, <1>2, <1>4, <1>5 DEF ChannelOk
  <1> QED BY <1>6, <1>7

LEMMA AnnouncePosted ==
  ASSUME NEW a, NEW now \in Nat \ {0}, NEW prev, AnnounceOk(a, now, prev, 0)
  PROVE  AnnounceOk(Append(a, now), now, now, Cooldown)
  <1>0. PICK gap \in Nat : gap = Cooldown * Second
    BY SpacingNat
  <1>1. PICK N \in Nat : N = Len(a)
    BY DEF AnnounceOk
  <1>2. /\ a \in Seq(Nat) /\ SpacedBy(a, gap, 1)
        /\ (N > 0 => a[N] = prev /\ now - prev >= gap)
    BY <1>0, <1>1 DEF AnnounceOk
  <1>3. N >= 1 => now - a[N + 1 - 1] >= gap
    BY <1>2
  <1>4. SpacedBy(Append(a, now), gap, 1)
    BY <1>1, <1>2, <1>3, SpacedAppend
  <1>5. PICK t : t = Append(a, now)
    OBVIOUS
  <1>6. t \in Seq(Nat) /\ Len(t) = N + 1 /\ t[N + 1] = now
    BY <1>1, <1>2, <1>5
  <1>7. Cooldown \in Nat /\ Cooldown # 0
    BY SpacingNat
  <1>8. AnnounceOk(t, now, now, Cooldown)
    BY <1>0, <1>4, <1>5, <1>6, <1>7 DEF AnnounceOk
  <1> QED BY <1>5, <1>8

LEMMA ChannelPosted ==
  ASSUME NEW g, NEW t, NEW now \in Nat, ChannelOk(g, t, now), Len(t) < Burst
  PROVE  ChannelOk(Append(g, now), Append(t, now), now)
  <1>0. Window \in Nat /\ Burst \in Nat \ {0}
    BY SpacingNat
  <1>1. g \in Seq(Nat) /\ t \in Seq(Nat) /\ Sorted(g, now) /\ Fits(t, g, now) /\ SpacedBy(g, Window, Burst)
    BY DEF ChannelOk
  <1>2. PICK G \in Nat : G = Len(g)
    BY <1>1
  <1>3. PICK M \in Nat : M = Len(t)
    BY <1>1
  <1>4. PICK h : h = Append(g, now)
    OBVIOUS
  <1>5. PICK w : w = Append(t, now)
    OBVIOUS
  <1>6. /\ h \in Seq(Nat) /\ Len(h) = G + 1 /\ h[G + 1] = now
        /\ \A k \in 1 .. G : h[k] = g[k] /\ g[k] \in Nat
    BY <1>1, <1>2, <1>4
  <1>7. /\ w \in Seq(Nat) /\ Len(w) = M + 1 /\ w[M + 1] = now
        /\ \A k \in 1 .. M : w[k] = t[k]
    BY <1>1, <1>3, <1>5
  <1>8. /\ M <= G /\ (\A j \in 1 .. M : t[j] = g[G - M + j])
        /\ (\A k \in 1 .. G - M : now - g[k] >= Window)
    BY <1>1, <1>2, <1>3 DEF Fits
  <1>9. Sorted(h, now)
    <2>1. /\ \A i, j \in 1 .. G : i <= j => g[i] <= g[j]
          /\ \A i \in 1 .. G : g[i] <= now
      BY <1>1, <1>2 DEF Sorted
    <2>2. \A i \in 1 .. G + 1 : i = G + 1 \/ i \in 1 .. G
      OBVIOUS
    <2>3. \A i \in 1 .. G + 1 : h[i] <= now
      BY <1>6, <2>1, <2>2
    <2>4. \A i, j \in 1 .. G + 1 : i <= j => h[i] <= h[j]
      BY <1>6, <2>1, <2>2, <2>3
    <2> QED BY <1>6, <2>3, <2>4 DEF Sorted
  <1>10. Fits(w, h, now)
    <2>1. G + 1 - (M + 1) = G - M /\ M + 1 <= G + 1
      BY <1>8
    <2>2. \A j \in 1 .. M + 1 : w[j] = h[G - M + j]
      <3>1. ASSUME NEW j \in 1 .. M + 1
            PROVE  w[j] = h[G - M + j]
        <4>1. CASE j = M + 1
          <5>1. G - M + j = G + 1
            BY <1>8, <4>1
          <5> QED BY <1>6, <1>7, <4>1, <5>1
        <4>2. CASE j # M + 1
          <5>1. j \in 1 .. M /\ G - M + j \in 1 .. G
            BY <1>8, <4>2
          <5> QED BY <1>6, <1>7, <1>8, <5>1
        <4> QED BY <4>1, <4>2
      <3> QED BY <3>1
    <2>3. \A k \in 1 .. G - M : now - h[k] >= Window
      BY <1>6, <1>8
    <2>4. Len(h) - Len(w) = G - M
      BY <1>6, <1>7, <2>1
    <2> QED BY <1>6, <1>7, <2>1, <2>2, <2>3, <2>4 DEF Fits
  <1>11. G >= Burst => now - g[G + 1 - Burst] >= Window
    <2>1. G >= Burst => G + 1 - Burst \in 1 .. G - M
      BY <1>0, <1>3, <1>8
    <2> QED BY <1>8, <2>1
  <1>12. SpacedBy(h, Window, Burst)
    BY <1>0, <1>1, <1>2, <1>4, <1>11, SpacedAppend
  <1>13. ChannelOk(h, w, now)
    BY <1>6, <1>7, <1>9, <1>10, <1>12 DEF ChannelOk
  <1> QED BY <1>4, <1>5, <1>13

\* The ticker sets the countdown anew.
Left(now, prev) == LET left == Cooldown - (now - prev) \div Second IN IF left > 0 THEN left ELSE 0

LEMMA AnnounceTicks ==
  ASSUME NEW a, NEW now \in Nat, NEW prev, NEW left, AnnounceOk(a, now, prev, left), prev # 0
  PROVE  AnnounceOk(a, now, prev, Left(now, prev))
  <1>1. /\ prev \in Nat /\ prev <= now /\ now - prev \in Nat
    BY DEF AnnounceOk
  <1>2. PICK d \in Nat : d = now - prev
    BY <1>1
  <1>3. Cooldown \in Nat \ {0} /\ Second \in Nat \ {0}
    BY SpacingNat
  <1>4. PICK q \in Nat : q = d \div Second
    BY <1>3
  <1>5. Left(now, prev) = IF Cooldown - q > 0 THEN Cooldown - q ELSE 0
    BY <1>2, <1>4 DEF Left
  <1>6. Left(now, prev) \in Nat /\ (Left(now, prev) = 0 => q >= Cooldown)
    BY <1>3, <1>5
  <1>7. q >= Cooldown => d >= Cooldown * Second
    BY <1>3, <1>4, DivBound
  <1>8. Left(now, prev) = 0 => now - prev >= Cooldown * Second
    BY <1>2, <1>6, <1>7
  <1> QED BY <1>6, <1>8 DEF AnnounceOk

LEMMA TimeGoesOn ==
  ASSUME NEW a, NEW g, NEW t, NEW now \in Nat, NEW prev, NEW left,
         AnnounceOk(a, now, prev, left), ChannelOk(g, t, now)
  PROVE  AnnounceOk(a, now + 1, prev, left) /\ ChannelOk(g, t, now + 1)
  <1>1. AnnounceOk(a, now + 1, prev, left)
    <2>1. Cooldown * Second \in Nat
      BY SpacingNat
    <2>2. PICK gap \in Nat : gap = Cooldown * Second
      BY <2>1
    <2> QED BY <2>2 DEF AnnounceOk
  <1>2. ChannelOk(g, t, now + 1)
    <2>1. g \in Seq(Nat) /\ t \in Seq(Nat) /\ Sorted(g, now) /\ Fits(t, g, now) /\ SpacedBy(g, Window, Burst)
      BY DEF ChannelOk
    <2>2. \A k \in 1 .. Len(g) : g[k] \in Nat
      BY <2>1
    <2>3. Sorted(g, now + 1)
      BY <2>1, <2>2 DEF Sorted
    <2>4. PICK G \in Nat : G = Len(g)
      BY <2>1
    <2>5. PICK M \in Nat : M = Len(t)
      BY <2>1
    <2>6. /\ M <= G /\ (\A j \in 1 .. M : t[j] = g[G - M + j])
          /\ (\A k \in 1 .. G - M : now - g[k] >= Window)
      BY <2>1, <2>4, <2>5 DEF Fits
    <2>7. Fits(t, g, now + 1)
      <3>2. PICK next \in Nat : next = now + 1
        OBVIOUS
      <3>3. ASSUME NEW k \in 1 .. G - M
            PROVE  next - g[k] >= Window
        <4>1. now - g[k] >= Window /\ g[k] \in Nat /\ Window \in Nat
          BY <2>2, <2>4, <2>6, SpacingNat
        <4> QED BY <3>2, <4>1
      <3>4. Fits(t, g, next)
        BY <2>4, <2>5, <2>6, <3>3 DEF Fits
      <3> QED BY <3>2, <3>4
    <2> QED BY <2>1, <2>3, <2>7 DEF ChannelOk
  <1> QED BY <1>1, <1>2

\* The steps that neither post nor let time pass nor end the process.
LEMMA TimingKept ==
  ASSUME Next
  PROVE  \/ UNCHANGED timing
         \/ Tick \/ TimePasses \/ sendAnnounce \/ sendChannel \/ ClearScreen
         \/ \E s : Die(s)
  <1>1. ASSUME NEW ev, NEW n, NEW r, NEW u, Contact(ev, n, r, u)
        PROVE  UNCHANGED timing
    BY <1>1 DEF Contact, Shell, timing
  <1>2. ASSUME Core
        PROVE  UNCHANGED timing
    BY <1>2 DEF Core
  <1>3. ASSUME NEW p, sendDm(p) \/ verify(p) \/ unverify(p) \/ forget(p) \/ setPetname(p)
        PROVE  UNCHANGED timing
    <2>1. \E ev, n, r, u : Contact(ev, n, r, u)
      BY <1>3 DEF sendDm, verify, unverify, forget, setPetname
    <2> QED BY <1>1, <2>1
  <1>4. ASSUME NEW p, \/ \E key \in {1, 2} : handle_announce(p, key)
                      \/ \E bound \in BOOLEAN : finish_session(p, bound)
                      \/ \E kind \in {"text", "notice", "ack"} : decrypt_and_emit(p, kind)
        PROVE  UNCHANGED timing
    <2>1. Core
      BY <1>4 DEF handle_announce, finish_session, decrypt_and_emit
    <2> QED BY <1>2, <2>1
  <1>5. ASSUME NEW c, handle_channel(c)
        PROVE  UNCHANGED timing
    BY <1>2, <1>5 DEF handle_channel
  <1>6. ASSUME NEW works, UserStart(works)
        PROVE  UNCHANGED timing
    BY <1>6 DEF UserStart, onStart
  <1>7. ASSUME setDisplayName \/ SystemRestart \/ stop \/ panicWipe \/ DropNode \/ DeleteVault
               \/ DeleteDb \/ DeleteKek
        PROVE  UNCHANGED timing
    BY <1>7 DEF setDisplayName, SystemRestart, onStart, stop, panicWipe, DropNode, DeleteVault, DeleteDb,
                DeleteKek
  <1>8. ASSUME Kill \/ KillInCreate
        PROVE  \E s : Die(s)
    BY <1>8 DEF Kill, KillInCreate
  <1> QED BY <1>3, <1>4, <1>5, <1>6, <1>7, <1>8 DEF Next

LEMMA PostStep ==
  ASSUME PostInv, [Next]_vars
  PROVE  PostInv'
  <1>0. PICK a : a = posted["announce"]
    OBVIOUS
  <1>1. PICK g : g = posted["general"]
    OBVIOUS
  <1>2. /\ clock \in Nat \ {0} /\ DOMAIN posted = Channel
        /\ AnnounceOk(a, clock, last, cooldown) /\ ChannelOk(g, times, clock)
    BY <1>0, <1>1 DEF PostInv
  <1>3. ASSUME NEW b, NEW h, posted'["announce"] = b, posted'["general"] = h, DOMAIN posted' = Channel,
               clock' \in Nat \ {0}, AnnounceOk(b, clock', last', cooldown'), ChannelOk(h, times', clock')
        PROVE  PostInv'
    BY <1>3 DEF PostInv
  <1>4. CASE UNCHANGED timing \/ UNCHANGED vars
    <2>1. UNCHANGED <<clock, last, cooldown, times, posted>>
      BY <1>4 DEF timing, vars
    <2> QED BY <1>0, <1>1, <1>2, <1>3, <2>1
  <1>5. PICK w : w = Recent
    OBVIOUS
  <1>6. ChannelOk(g, w, clock)
    <2>1. g \in Seq(Nat) /\ times \in Seq(Nat) /\ Sorted(g, clock) /\ Fits(times, g, clock)
      BY <1>2 DEF ChannelOk
    <2>2. w = Only(times, {t \in ToSet(times) : clock - t < Window})
      BY <1>5 DEF Recent
    <2>3. PICK now \in Nat : now = clock
      BY <1>2
    <2>4. PICK t : t = times
      OBVIOUS
    <2>5. t \in Seq(Nat) /\ Sorted(g, now) /\ Fits(t, g, now) /\ w = Only(t, {x \in ToSet(t) : now - x < Window})
      BY <2>1, <2>2, <2>3, <2>4
    <2>6. w \in Seq(Nat) /\ Fits(w, g, now)
      BY <2>1, <2>5, RecentFits
    <2> QED BY <1>2, <2>3, <2>6 DEF ChannelOk
  <1>7. CASE Tick
    <2>1. UNCHANGED <<clock, last, posted>> /\ times' = w
          /\ cooldown' = IF last = 0 THEN cooldown ELSE Left(clock, last)
      BY <1>5, <1>7 DEF Tick, Left, remaining
    <2>2. AnnounceOk(a, clock, last, cooldown')
      BY <1>2, <2>1, AnnounceTicks
    <2> QED BY <1>0, <1>1, <1>2, <1>3, <1>6, <2>1, <2>2
  <1>8. CASE TimePasses
    <2>1. UNCHANGED <<last, cooldown, times, posted>> /\ clock' = clock + 1
      BY <1>8 DEF TimePasses
    <2>2. AnnounceOk(a, clock + 1, last, cooldown) /\ ChannelOk(g, times, clock + 1)
      BY <1>2, TimeGoesOn
    <2> QED BY <1>0, <1>1, <1>2, <1>3, <2>1, <2>2
  <1>9. CASE sendAnnounce
    <2>1. /\ cooldown = 0 /\ last' = clock /\ cooldown' = Cooldown /\ times' = times /\ clock' = clock
          /\ posted' = [posted EXCEPT !["announce"] = Append(@, clock)]
      BY <1>9 DEF sendAnnounce, Post, Shell
    <2>2. "announce" \in Channel /\ "general" \in Channel
      BY DEF Channel
    <2>3. /\ posted'["announce"] = Append(a, clock) /\ posted'["general"] = g /\ DOMAIN posted' = Channel
      BY <1>0, <1>1, <1>2, <2>1, <2>2
    <2>4. AnnounceOk(Append(a, clock), clock, clock, Cooldown)
      BY <1>2, <2>1, AnnouncePosted
    <2> QED BY <1>2, <1>3, <2>1, <2>3, <2>4
  <1>10. CASE sendChannel
    <2>1. /\ Len(w) < Burst /\ times' = Append(w, clock) /\ UNCHANGED <<clock, last, cooldown>>
          /\ posted' = [posted EXCEPT !["general"] = Append(@, clock)]
      BY <1>5, <1>10 DEF sendChannel, Post, Shell
    <2>2. "announce" \in Channel /\ "general" \in Channel
      BY DEF Channel
    <2>3. /\ posted'["general"] = Append(g, clock) /\ posted'["announce"] = a /\ DOMAIN posted' = Channel
      BY <1>0, <1>1, <1>2, <2>1, <2>2
    <2>4. ChannelOk(Append(g, clock), Append(w, clock), clock)
      BY <1>2, <1>6, <2>1, ChannelPosted
    <2> QED BY <1>2, <1>3, <2>1, <2>3, <2>4
  <1>11. CASE ClearScreen
    <2>1. /\ cooldown' = 0 /\ UNCHANGED <<clock, last, times>>
          /\ posted' = [posted EXCEPT !["announce"] = << >>]
      BY <1>11 DEF ClearScreen
    <2>2. "announce" \in Channel /\ "general" \in Channel
      BY DEF Channel
    <2>3. /\ posted'["announce"] = << >> /\ posted'["general"] = g /\ DOMAIN posted' = Channel
      BY <1>1, <1>2, <2>1, <2>2
    <2>4. AnnounceOk(<< >>, clock, last, 0)
      <3>1. AnnounceOk(<< >>, clock, 0, 0)
        BY <1>2, PostsEmpty
      <3> QED BY <1>2, <3>1 DEF AnnounceOk
    <2> QED BY <1>2, <1>3, <2>1, <2>3, <2>4
  <1>12. ASSUME NEW s, Die(s)
         PROVE  PostInv'
    <2>1. last' = 0 /\ cooldown' = 0 /\ times' = << >> /\ posted' = NoPosts /\ clock' = clock
      BY <1>12 DEF Die
    <2>2. posted'["announce"] = << >> /\ posted'["general"] = << >> /\ DOMAIN posted' = Channel
      BY <2>1 DEF NoPosts, Channel
    <2>3. AnnounceOk(<< >>, clock, 0, 0) /\ ChannelOk(<< >>, << >>, clock)
      BY <1>2, PostsEmpty
    <2> QED BY <1>2, <1>3, <2>1, <2>2, <2>3
  <1> QED BY <1>4, <1>7, <1>8, <1>9, <1>10, <1>11, <1>12, TimingKept

\* Any two announcements of a process are a cooldown apart, and any window holds
\* at most a burst of its posts to the channel, across stops, starts and wipes.
THEOREM PostsAreSpaced == Spec => []PostsSpaced
  <1>1. ASSUME Init
        PROVE  PostInv
    <2>1. clock = 1 /\ last = 0 /\ cooldown = 0 /\ times = << >> /\ posted = NoPosts
      BY <1>1 DEF Init
    <2>2. posted["announce"] = << >> /\ posted["general"] = << >> /\ DOMAIN posted = Channel
      BY <2>1 DEF NoPosts, Channel
    <2>3. AnnounceOk(<< >>, 1, 0, 0) /\ ChannelOk(<< >>, << >>, 1)
      BY PostsEmpty
    <2> QED BY <2>1, <2>2, <2>3 DEF PostInv
  <1>2. PostInv => PostsSpaced
    <2>1. 2 = 1 + 1
      OBVIOUS
    <2> QED BY <2>1 DEF PostInv, AnnounceOk, ChannelOk, SpacedBy, PostsSpaced
  <1> QED BY <1>1, <1>2, PostStep, PTL DEF Spec

-----------------------------------------------------------------------------
(***************************************************************************)
(* What is on its way to the screen.  A step while a node runs changes the *)
(* state of one contact, or of one channel, and adds to the queue, or it   *)
(* is the poll that empties the queue (Tells); any other step is one of    *)
(* three kinds.                                                            *)
(***************************************************************************)
\* Nothing that matters here changes.
Quiet == /\ Up' = Up /\ Main' = Main /\ Store' = Store /\ db'.rows = db.rows
         /\ node' = node /\ ui' = ui

\* No node runs, or a wipe has emptied its store and goes on.
Ends == /\ db'.rows \in {db.rows, EmptyRows}
        /\ Up' => ~Main' /\ Store' = EmptyRows /\ Unmet(node')

\* A node is started.
Starts == /\ db'.rows = db.rows /\ Store' \in {db.rows, EmptyRows}
          /\ node'.events = << >> /\ Unmet(node') /\ Restored(ui, Store', ui')

LEMMA OtherSteps ==
  ASSUME TypeInv, [Next]_vars, ~Moving
  PROVE  Quiet \/ Ends \/ Starts
  <1>1. CASE UNCHANGED vars
    BY <1>1 DEF Quiet, vars, disk, Up, Main, Store
  <1>2. CASE Idle
    <2>1. UNCHANGED <<db, node, ui, wiping>>
      BY <1>2, IdleFacts
    <2> QED BY <2>1 DEF Quiet, Up, Main, Store
  <1>3. ASSUME NEW works \in BOOLEAN, BringUp(works)
        PROVE  Quiet \/ Starts
    <2>1. CASE Up /\ UNCHANGED <<kek, vault, db, node, ui>>
      BY <1>3, <2>1 DEF BringUp, Quiet, Up, Main, Store
    <2>2. CASE Started(works)
      <3>1. Store' \in {db.rows, EmptyRows}
        BY <2>2 DEF Started
      <3> QED BY <2>2, <3>1 DEF Started, Starts
    <2> QED BY <1>3, <2>1, <2>2 DEF BringUp
  <1>4. CASE SystemRestart
    BY <1>3, <1>4, SystemRestarts
  <1>5. ASSUME NEW works \in BOOLEAN, UserStart(works)
        PROVE  Quiet \/ Starts
    BY <1>3, <1>5, UserStarts
  <1>6. CASE stop
    BY <1>6, StopFacts DEF Ends
  <1>7. CASE Kill \/ KillInCreate
    <2>1. PICK s : Die(s)
      BY <1>7 DEF Kill, KillInCreate
    <2>2. ~Up' /\ db' = db
      BY <1>7, <2>1, KillFacts DEF Kill, KillInCreate
    <2> QED BY <2>2 DEF Ends
  <1>8. CASE panicWipe
    <2>1. WipeFacts
      BY <1>8, PanicWipes
    <2>2. wiping' = "node" /\ Store' = EmptyRows /\ Unmet(node') /\ db'.rows \in {db.rows, EmptyRows}
      BY <2>1 DEF WipeFacts
    <2> QED BY <2>2 DEF Ends, Main
  <1>9. CASE DropNode \/ DeleteVault \/ DeleteDb \/ DeleteKek \/ ClearScreen
    <2>1. ~Up'
      BY <1>9 DEF DropNode, DeleteVault, DeleteDb, DeleteKek, ClearScreen, WipeStep, TypeInv, Up
    <2>2. db'.rows \in {db.rows, EmptyRows}
      BY <1>9 DEF DropNode, DeleteVault, DeleteDb, DeleteKek, ClearScreen, disk, NoDb
    <2> QED BY <2>1, <2>2 DEF Ends
  <1> QED BY <1>1, <1>2, <1>4, <1>5, <1>6, <1>7, <1>8, <1>9, StepKinds

\* A queue q of N events to which es is added.
Longer(q, es, w, N) ==
    /\ ToSet(w) = ToSet(q) \cup ToSet(es)
    /\ \A k \in 1 .. N : k \in 1 .. Len(w) /\ w[k] = q[k]
    /\ \A e \in ToSet(es) : \E k \in 1 .. Len(w) : k > N /\ w[k] = e
    /\ \A k \in 1 .. Len(w) : k \in 1 .. N \/ w[k] \in ToSet(es)

LEMMA QueueGrows ==
  ASSUME NEW X, NEW q \in Seq(X), NEW es \in Seq(X), NEW w, w = q \o es,
         NEW N \in Nat, N = Len(q)
  PROVE  w \in Seq(X) /\ Longer(q, es, w, N)
  <1> PICK M \in Nat : M = Len(es)
    OBVIOUS
  <1>1. w \in Seq(X) /\ ToSet(w) = ToSet(q) \cup ToSet(es)
    BY JoinSet
  <1>2. /\ Len(w) = N + M
        /\ \A k \in 1 .. N : w[k] = q[k]
        /\ \A k \in 1 .. M : w[N + k] = es[k]
    OBVIOUS
  <1>3. \A y : y \in ToSet(es) <=> \E k \in 1 .. M : es[k] = y
    BY InSeq
  <1>4. ASSUME NEW e \in ToSet(es)
        PROVE  \E k \in 1 .. Len(w) : k > N /\ w[k] = e
    <2>1. PICK j \in 1 .. M : es[j] = e
      BY <1>3
    <2>2. w[N + j] = e /\ N + j \in 1 .. N + M /\ N + j > N
      BY <1>2, <2>1
    <2> QED BY <1>2, <2>2
  <1>5. ASSUME NEW k \in 1 .. Len(w), k \notin 1 .. N
        PROVE  w[k] \in ToSet(es)
    <2>1. k \in 1 .. N + M /\ k > N
      BY <1>2, <1>5
    <2>2. PICK j \in 1 .. M : k = N + j
      <3>1. k - N \in 1 .. M /\ k = N + (k - N)
        BY <2>1
      <3> QED BY <3>1
    <2>3. w[k] = es[j]
      BY <1>2, <2>2
    <2> QED BY <1>3, <2>3
  <1>6. \A k \in 1 .. N : k \in 1 .. Len(w)
    BY <1>2
  <1> QED BY <1>1, <1>2, <1>4, <1>5, <1>6 DEF Longer

LEMMA NewestOf ==
  ASSUME NEW r \in StoreT
  PROVE  /\ \A p \in Peer : r.dms[p] \in Seq(RowT) /\ ToSet(Newest(r.dms[p])) \subseteq ToSet(r.dms[p])
         /\ \A c \in Channel : r.chan[c] \in Seq(Nat) /\ ToSet(Newest(r.chan[c])) \subseteq ToSet(r.chan[c])
  <1>1. ASSUME NEW p \in Peer
        PROVE  r.dms[p] \in Seq(RowT) /\ ToSet(Newest(r.dms[p])) \subseteq ToSet(r.dms[p])
    <2>1. r.dms[p] \in Seq(RowT)
      BY StoreFields DEF Rows
    <2> QED BY <2>1, NewestSet
  <1>2. ASSUME NEW c \in Channel
        PROVE  r.chan[c] \in Seq(Nat) /\ ToSet(Newest(r.chan[c])) \subseteq ToSet(r.chan[c])
    <2>1. r.chan[c] \in Seq(Nat)
      BY StoreFields DEF Feeds
    <2> QED BY <2>1, NewestSet
  <1> QED BY <1>1, <1>2

-----------------------------------------------------------------------------
(***************************************************************************)
(* The warning of a changed key.                                           *)
(***************************************************************************)
\* Of a contact p: a marker is only in the thread of a recorded peer.
Unmarked(p, r) == p \in DOMAIN r.verified \/ Marker \notin ToSet(r.dms[p])

\* A recorded peer is in the list or comes to it, and before its warning.
Listed(p, evs, r, u) ==
    p \in DOMAIN r.verified =>
        \/ p \in DOMAIN u.peers
        \/ \E k \in 1 .. Len(evs) : Upserts(evs[k]) /\ evs[k].peer = p
Warns(p, evs, r, u) ==
    p \in DOMAIN r.verified /\ Marker \in ToSet(Newest(r.dms[p])) =>
        \/ Warned(u, p)
        \/ \E k \in 1 .. Len(evs) :
              /\ evs[k].type = "changed" /\ evs[k].peer = p
              /\ \/ p \in DOMAIN u.peers
                 \/ \E j \in 1 .. k - 1 : Upserts(evs[j]) /\ evs[j].peer = p

WarnInv == \A p \in Peer :
    /\ Unmarked(p, db.rows) /\ (Up => Unmarked(p, Store))
    /\ Up /\ Main => Listed(p, node.events, Store, ui) /\ Warns(p, node.events, Store, ui)

LEMMA WarnNext ==
  ASSUME NEW d, d = db'.rows, NEW r, r = Store', NEW q, q = node'.events, NEW u, u = ui',
         \A p \in Peer : /\ Unmarked(p, d) /\ (Up' => Unmarked(p, r))
                         /\ Up' /\ Main' => Listed(p, q, r, u) /\ Warns(p, q, r, u)
  PROVE  WarnInv'
  BY DEF WarnInv, Unmarked, Listed, Warns, Upserts, Warned

LEMMA WarnAdds ==
  ASSUME NEW p \in Peer, TypeInv, Up, NEW n, NEW r \in StoreT, NEW u, NEW es \in Seq(EventT),
         n.events = node.events \o es, Adds(p, n, r, u, es), Unmarked(p, Store)
  PROVE  /\ Unmarked(p, r)
         /\ Listed(p, node.events, Store, ui) /\ Warns(p, node.events, Store, ui)
               => Listed(p, n.events, r, u) /\ Warns(p, n.events, r, u)
  <1>0. node.events \in Seq(EventT) /\ Store \in StoreT
    BY RunningNode
  <1>1. PICK q \in Seq(EventT) : q = node.events
    BY <1>0
  <1>2. PICK w : w = n.events
    OBVIOUS
  <1>3. PICK N \in Nat : N = Len(q)
    BY <1>1
  <1>4. /\ w \in Seq(EventT)
        /\ \A k \in 1 .. N : k \in 1 .. Len(w) /\ w[k] = q[k]
        /\ \A e \in ToSet(es) : \E k \in 1 .. Len(w) : k > N /\ w[k] = e
    <2>1. w = q \o es
      BY <1>1, <1>2
    <2>2. w \in Seq(EventT) /\ Longer(q, es, w, N)
      BY <1>3, <2>1, QueueGrows
    <2> QED BY <2>2 DEF Longer
  <1>5. PICK T : Grown(r.dms[p], Store.dms[p], T) /\ Announced(p, T, es)
    BY DEF Adds
  <1>6. /\ p \in DOMAIN Store.verified => p \in DOMAIN r.verified
        /\ p \in DOMAIN r.verified => \/ p \in DOMAIN Store.verified \/ p \in DOMAIN u.peers
                                      \/ \E e \in ToSet(es) : Upserts(e) /\ e.peer = p
        /\ p \in DOMAIN ui.peers => p \in DOMAIN u.peers
        /\ Warned(ui, p) => Warned(u, p)
    BY DEF Adds
  <1>7. Marker \in T => /\ p \in DOMAIN Store.verified
                        /\ \E e \in ToSet(es) : e.type = "changed" /\ e.peer = p
    BY <1>5 DEF Announced
  <1>8. ToSet(Newest(Store.dms[p])) \subseteq ToSet(Store.dms[p])
    BY <1>0, NewestOf
  <1>9. Unmarked(p, r)
    BY <1>5, <1>6, <1>7 DEF Unmarked, Grown
  <1>10. ASSUME Listed(p, q, Store, ui)
         PROVE  Listed(p, w, r, u)
    <2>1. SUFFICES ASSUME p \in DOMAIN r.verified, p \notin DOMAIN u.peers
                   PROVE  \E k \in 1 .. Len(w) : Upserts(w[k]) /\ w[k].peer = p
      BY DEF Listed
    <2>2. CASE p \in DOMAIN Store.verified
      <3>1. PICK k \in 1 .. N : Upserts(q[k]) /\ q[k].peer = p
        BY <1>3, <1>6, <1>10, <2>1, <2>2 DEF Listed
      <3>2. k \in 1 .. Len(w) /\ w[k] = q[k]
        BY <1>4
      <3> QED BY <3>1, <3>2
    <2>3. CASE \E e \in ToSet(es) : Upserts(e) /\ e.peer = p
      BY <1>4, <2>3
    <2> QED BY <1>6, <2>1, <2>2, <2>3
  <1>11. ASSUME Listed(p, q, Store, ui), Warns(p, q, Store, ui)
         PROVE  Warns(p, w, r, u)
    <2>1. SUFFICES ASSUME p \in DOMAIN r.verified, Marker \in ToSet(Newest(r.dms[p])), ~Warned(u, p)
                   PROVE  \E k \in 1 .. Len(w) :
                             /\ w[k].type = "changed" /\ w[k].peer = p
                             /\ \/ p \in DOMAIN u.peers
                                \/ \E j \in 1 .. k - 1 : Upserts(w[j]) /\ w[j].peer = p
      BY DEF Warns
    <2>2. Marker \in ToSet(Newest(Store.dms[p])) \/ Marker \in T
      BY <1>5, <2>1 DEF Grown
    <2>3. CASE Marker \in ToSet(Newest(Store.dms[p]))
      <3>1. p \in DOMAIN Store.verified /\ ~Warned(ui, p)
        BY <1>6, <1>8, <2>1, <2>3 DEF Unmarked
      <3>2. PICK k \in 1 .. N :
                     /\ q[k].type = "changed" /\ q[k].peer = p
                     /\ \/ p \in DOMAIN ui.peers
                        \/ \E j \in 1 .. k - 1 : Upserts(q[j]) /\ q[j].peer = p
        BY <1>3, <1>11, <2>3, <3>1 DEF Warns
      <3>3. k \in 1 .. Len(w) /\ w[k] = q[k]
        BY <1>4
      <3>4. CASE p \in DOMAIN ui.peers
        BY <1>6, <3>2, <3>3, <3>4
      <3>5. ASSUME NEW j \in 1 .. k - 1, Upserts(q[j]), q[j].peer = p
            PROVE  w[j] = q[j]
        <4>1. j \in 1 .. N
          OBVIOUS
        <4> QED BY <1>4, <4>1
      <3> QED BY <3>2, <3>3, <3>4, <3>5
    <2>4. CASE Marker \in T
      <3>1. PICK k \in 1 .. Len(w) : k > N /\ w[k].type = "changed" /\ w[k].peer = p
        BY <1>4, <1>7, <2>4
      <3>2. CASE p \in DOMAIN ui.peers
        BY <1>6, <3>1, <3>2
      <3>3. CASE p \notin DOMAIN ui.peers
        <4>1. PICK j \in 1 .. N : Upserts(q[j]) /\ q[j].peer = p
          BY <1>3, <1>7, <1>11, <2>4, <3>3 DEF Listed
        <4>2. j \in 1 .. k - 1
          <5>1. Len(w) \in Nat
            BY <1>4
          <5> QED BY <3>1, <5>1
        <4> QED BY <1>4, <3>1, <4>1, <4>2
      <3> QED BY <3>2, <3>3
    <2> QED BY <2>2, <2>3, <2>4
  <1> QED BY <1>1, <1>2, <1>9, <1>10, <1>11

LEMMA Queues ==
  ASSUME TypeInv, Up, NEW n, NEW r, NEW u, Tells(n, r, u)
  PROVE  \/ Polled(n, r, u)
         \/ \E es \in Seq(EventT) : n.events = node.events \o es /\ Changes(n, r, u, es)
  <1>1. CASE Deals(n, r, u)
    BY <1>1 DEF Deals
  <1>2. ASSUME NEW c \in Channel, Hears(c, n, r, u)
        PROVE  \E es \in Seq(EventT) : n.events = node.events \o es /\ Changes(n, r, u, es)
    <2>1. PICK e \in EventT : n.events = node.events \o <<e>> /\ Changes(n, r, u, <<e>>)
      BY <1>2 DEF Hears
    <2>2. PICK es : es = <<e>>
      OBVIOUS
    <2>3. es \in Seq(EventT) /\ n.events = node.events \o es /\ Changes(n, r, u, es)
      BY <2>1, <2>2, OneQueued
    <2> QED BY <2>3
  <1>3. ASSUME NEW c \in Channel, Posts(c, n, r, u)
        PROVE  \E es \in Seq(EventT) : n.events = node.events \o es /\ Changes(n, r, u, es)
    <2>1. n.events = node.events /\ Changes(n, r, u, << >>)
      BY <1>3 DEF Posts
    <2>2. PICK es : es = << >>
      OBVIOUS
    <2>3. es \in Seq(EventT) /\ n.events = node.events \o es /\ Changes(n, r, u, es)
      BY <2>1, <2>2, NoneQueued
    <2> QED BY <2>3
  <1>4. CASE Echoes(n, r, u)
    <2>1. PICK e \in EventT : n.events = node.events \o <<e>> /\ Changes(n, r, u, <<e>>)
      BY <1>4 DEF Echoes
    <2>2. PICK es : es = <<e>>
      OBVIOUS
    <2>3. es \in Seq(EventT) /\ n.events = node.events \o es /\ Changes(n, r, u, es)
      BY <2>1, <2>2, OneQueued
    <2> QED BY <2>3
  <1> QED BY <1>1, <1>2, <1>3, <1>4 DEF Tells

LEMMA WarnPolled ==
  ASSUME NEW p \in Peer, TypeInv, Up, NEW n, NEW r, NEW u, Polled(n, r, u)
  PROVE  Listed(p, node.events, Store, ui) /\ Warns(p, node.events, Store, ui)
            => Listed(p, n.events, r, u) /\ Warns(p, n.events, r, u)
  <1>0. node.events \in Seq(EventT) /\ Store \in StoreT /\ ui \in UiT
    BY RunningNode DEF TypeInv
  <1>1. PICK q \in Seq(EventT) : q = node.events
    BY <1>0
  <1>2. r = Store /\ AllShown(ui, q, r, u)
    BY <1>0, <1>1, ShownAllFacts DEF Polled
  <1>3. /\ p \in DOMAIN ui.peers => p \in DOMAIN u.peers
        /\ Warned(ui, p) => Warned(u, p)
        /\ \A k \in 1 .. Len(q) : Upserts(q[k]) => q[k].peer \in DOMAIN u.peers
        /\ \A k \in 1 .. Len(q) :
              q[k].type = "changed"
                /\ (q[k].peer \in DOMAIN ui.peers
                       \/ \E j \in 1 .. k - 1 : Upserts(q[j]) /\ q[j].peer = q[k].peer)
              => Warned(u, q[k].peer)
    BY <1>2 DEF AllShown, Grows
  <1>4. Listed(p, q, r, ui) => Listed(p, n.events, r, u)
    BY <1>3 DEF Listed
  <1>5. Warns(p, q, r, ui) => Warns(p, n.events, r, u)
    <2>1. SUFFICES ASSUME Warns(p, q, r, ui), p \in DOMAIN r.verified, Marker \in ToSet(Newest(r.dms[p]))
                   PROVE  Warned(u, p)
      BY DEF Warns
    <2>2. CASE Warned(ui, p)
      BY <1>3, <2>2
    <2>3. ASSUME NEW k \in 1 .. Len(q), q[k].type = "changed", q[k].peer = p,
                 \/ p \in DOMAIN ui.peers
                 \/ \E j \in 1 .. k - 1 : Upserts(q[j]) /\ q[j].peer = p
          PROVE  Warned(u, p)
      BY <1>3, <2>3
    <2> QED BY <2>1, <2>2, <2>3 DEF Warns
  <1> QED BY <1>1, <1>2, <1>4, <1>5

LEMMA WarnMove ==
  ASSUME TypeInv, WarnInv, NEW n, NEW r, NEW u, NEW X, Move(n, r, u, X), Tells(n, r, u)
  PROVE  WarnInv'
  <1>0. Up /\ r \in StoreT
    BY DEF Move, Effect, From
  <1>1. /\ Store' = r /\ node'.events = n.events /\ ui' = u /\ (Main' <=> Main)
        /\ (node.where = "db" => db'.rows = r) /\ (node.where # "db" => db' = db)
    BY MoveStore DEF Move, Main
  <1>2. PICK d : d = db'.rows
    OBVIOUS
  <1>3. ASSUME NEW p \in Peer
        PROVE  /\ Unmarked(p, d) /\ Unmarked(p, r)
               /\ Main => Listed(p, n.events, r, u) /\ Warns(p, n.events, r, u)
    <2>0. /\ Unmarked(p, db.rows) /\ Unmarked(p, Store)
          /\ Main => Listed(p, node.events, Store, ui) /\ Warns(p, node.events, Store, ui)
      BY <1>0 DEF WarnInv
    <2>1. /\ Unmarked(p, r)
          /\ Main => Listed(p, n.events, r, u) /\ Warns(p, n.events, r, u)
      <3>1. CASE Polled(n, r, u)
        <4>1. r = Store
          BY <3>1 DEF Polled
        <4> QED BY <1>0, <2>0, <3>1, <4>1, WarnPolled
      <3>2. ASSUME NEW es \in Seq(EventT), n.events = node.events \o es, Changes(n, r, u, es)
            PROVE  /\ Unmarked(p, r)
                   /\ Main => Listed(p, n.events, r, u) /\ Warns(p, n.events, r, u)
        <4>1. CASE Adds(p, n, r, u, es)
          BY <1>0, <2>0, <3>2, <4>1, WarnAdds
        <4>2. CASE Purges(p, n, r, u)
          <5>1. p \in DOMAIN u.peers /\ Marker \notin ToSet(r.dms[p])
            BY <4>2 DEF Purges
          <5>2. Marker \notin ToSet(Newest(r.dms[p]))
            BY <1>0, <5>1, NewestOf
          <5> QED BY <5>1, <5>2 DEF Unmarked, Listed, Warns
        <4>3. CASE Forgets(p, r)
          <5>1. p \notin DOMAIN r.verified /\ r.dms[p] = << >>
            BY <4>3 DEF Forgets
          <5>2. Marker \notin ToSet(r.dms[p])
            BY <5>1, EmptySet
          <5> QED BY <5>1, <5>2 DEF Unmarked, Listed, Warns
        <4> QED BY <3>2, <4>1, <4>2, <4>3 DEF Changes
      <3> QED BY <1>0, <3>1, <3>2, Queues
    <2>2. d = r \/ d = db.rows
      BY <1>1, <1>2
    <2> QED BY <2>0, <2>1, <2>2
  <1> QED BY <1>1, <1>2, <1>3, WarnNext

LEMMA WarnStep ==
  ASSUME TypeInv, WarnInv, [Next]_vars
  PROVE  WarnInv'
  <1>0. PICK d, r, q, u : d = db'.rows /\ r = Store' /\ q = node'.events /\ u = ui'
    OBVIOUS
  <1>1. \A p \in Peer : Unmarked(p, EmptyRows)
    BY EmptySet DEF Unmarked, EmptyRows
  <1>2. CASE Moving
    BY <1>2, MovingMoves, WarnMove
  <1>3. CASE Quiet
    <2>1. d = db.rows /\ r = Store /\ q = node.events /\ u = ui /\ Up' = Up /\ Main' = Main
      BY <1>0, <1>3 DEF Quiet
    <2> QED BY <1>0, <2>1, WarnNext DEF WarnInv
  <1>4. CASE Ends
    <2>1. d \in {db.rows, EmptyRows} /\ (Up' => r = EmptyRows) /\ ~(Up' /\ Main')
      BY <1>0, <1>4 DEF Ends
    <2>2. \A p \in Peer : Unmarked(p, d) /\ (Up' => Unmarked(p, r))
      BY <1>1, <2>1 DEF WarnInv
    <2> QED BY <1>0, <2>1, <2>2, WarnNext
  <1>5. CASE Starts
    <2>1. d = db.rows /\ r \in {db.rows, EmptyRows} /\ q = << >> /\ Restored(ui, r, u)
      BY <1>0, <1>5 DEF Starts
    <2>2. \A p \in Peer : Unmarked(p, d) /\ Unmarked(p, r)
      BY <1>1, <2>1 DEF WarnInv
    <2>3. \A p \in Peer : Listed(p, q, r, u) /\ Warns(p, q, r, u)
      <3>1. /\ DOMAIN u.peers = DOMAIN r.verified
            /\ \A p \in DOMAIN r.verified : Marker \in ToSet(Newest(r.dms[p])) => Warned(u, p)
        BY <2>1 DEF Restored
      <3> QED BY <3>1 DEF Listed, Warns
    <2> QED BY <1>0, <2>2, <2>3, WarnNext
  <1> QED BY <1>2, <1>3, <1>4, <1>5, OtherSteps

\* A key that changed leaves a warning: while the marker is among the rows that a
\* start restores, the contact carries it or the event for it is in the queue,
\* behind the event that brings the contact if it is not in the list yet.
THEOREM WarningStays == Spec => []WarningKept
  <1>1. Init => WarnInv
    <2>1. \A p \in Peer : Unmarked(p, EmptyRows)
      BY EmptySet DEF Unmarked, EmptyRows
    <2> QED BY <2>1 DEF Init, WarnInv, Up, NoDb
  <1>2. Spec => []WarnInv
    BY <1>1, WarnStep, WellFormed, PTL DEF Spec
  <1>3. TypeInv /\ WarnInv => WarningKept
    <2> SUFFICES ASSUME TypeInv, WarnInv, Up, Main, NEW p \in DOMAIN Store.verified,
                        Marker \in ToSet(Newest(Store.dms[p])), ~Warned(ui, p)
                 PROVE  \E k \in Queued("changed") : node.events[k].peer = p
      BY DEF WarningKept, dm_history, Marker, Warned
    <2>1. Store \in StoreT /\ node.events \in Seq(EventT)
      BY RunningNode
    <2>2. p \in Peer
      <3>1. Store.verified \in Partial(BOOLEAN)
        BY <2>1, StoreFields
      <3> QED BY <3>1, PartialMeans
    <2>3. PICK k \in 1 .. Len(node.events) : node.events[k].type = "changed" /\ node.events[k].peer = p
      BY <2>2 DEF WarnInv, Warns
    <2>4. k \in DOMAIN node.events
      BY <2>1
    <2> QED BY <2>3, <2>4 DEF Queued
  <1> QED BY <1>2, <1>3, WellFormed, PTL

-----------------------------------------------------------------------------
(***************************************************************************)
(* The texts received, as long as no contact was forgotten.                *)
(***************************************************************************)
LEMMA ForgetsStay ==
  ASSUME TypeInv, [Next]_vars, used'["forget"] = 0
  PROVE  used["forget"] = 0
  <1>0. used \in [Event -> Nat] /\ "forget" \in Event
    BY DEF TypeInv, Event
  <1>1. ASSUME NEW ev \in Event, Spend(ev)
        PROVE  used["forget"] = 0
    <2>1. /\ \A e \in Event : e # ev => used'[e] = used[e]
          /\ used'[ev] = used[ev] + 1
      BY <1>0, <1>1, SpendFacts
    <2>2. CASE ev = "forget"
      <3>1. used["forget"] \in Nat /\ used'["forget"] = used["forget"] + 1
        BY <1>0, <2>1, <2>2
      <3> QED BY <3>1
    <2>3. CASE ev # "forget"
      BY <1>0, <2>1, <2>3
    <2> QED BY <2>2, <2>3
  <1>2. CASE used' = used
    BY <1>2
  <1>3. CASE UNCHANGED vars
    BY <1>2, <1>3 DEF vars
  <1>4. CASE Moving
    <2>1. CASE Up /\ Tick
      BY <1>2, <2>1 DEF Tick
    <2>2. CASE sendAnnounce \/ sendChannel
      <3>1. Spend("post") /\ "post" \in Event
        BY <2>2 DEF sendAnnounce, sendChannel, Post, Event
      <3> QED BY <1>1, <3>1
    <2>3. CASE \E c \in Channel : handle_channel(c)
      <3>1. Spend("channel") \/ Spend("again")
        BY <2>3 DEF handle_channel
      <3>2. {"channel", "again"} \subseteq Event
        BY DEF Event
      <3> QED BY <1>1, <3>1, <3>2
    <2>4. ASSUME NEW p \in Peer, \/ \E key \in {1, 2} : handle_announce(p, key)
                                 \/ \E bound \in BOOLEAN : finish_session(p, bound)
                                 \/ \E kind \in {"text", "notice", "ack"} : decrypt_and_emit(p, kind)
          PROVE  used["forget"] = 0
      <3>1. Spend("announce") \/ Spend("session") \/ Spend("receive")
        BY <2>4 DEF handle_announce, finish_session, decrypt_and_emit
      <3>2. {"announce", "session", "receive"} \subseteq Event
        BY DEF Event
      <3> QED BY <1>1, <3>1, <3>2
    <2>5. ASSUME NEW p \in Peer, sendDm(p) \/ verify(p) \/ unverify(p) \/ forget(p) \/ setPetname(p)
          PROVE  used["forget"] = 0
      <3>1. \E ev \in {"dm", "verify", "unverify", "forget", "petname"} : Spend(ev)
        BY <2>5 DEF sendDm, verify, unverify, forget, setPetname, Contact
      <3>2. {"dm", "verify", "unverify", "forget", "petname"} \subseteq Event
        BY DEF Event
      <3> QED BY <1>1, <3>1, <3>2
    <2> QED BY <1>4, <2>1, <2>2, <2>3, <2>4, <2>5 DEF Moving
  <1>5. CASE Idle
    <2>1. used' = used \/ Spend("time")
      BY <1>5 DEF Idle, setDisplayName, TimePasses, Tick
    <2> QED BY <1>1, <1>2, <2>1 DEF Event
  <1>6. CASE SystemRestart \/ \E works \in BOOLEAN : UserStart(works)
    <2>1. used' = used \/ Spend("start") \/ Spend("keystore")
      BY <1>6 DEF SystemRestart, UserStart
    <2> QED BY <1>1, <1>2, <2>1 DEF Event
  <1>7. CASE stop \/ Kill \/ KillInCreate \/ panicWipe
    <2>1. Spend("stop") \/ Spend("kill") \/ Spend("wipe")
      BY <1>7 DEF stop, Kill, KillInCreate, Die, panicWipe
    <2> QED BY <1>1, <2>1 DEF Event
  <1>8. CASE DropNode \/ DeleteVault \/ DeleteDb \/ DeleteKek \/ ClearScreen
    BY <1>2, <1>8 DEF DropNode, DeleteVault, DeleteDb, DeleteKek, ClearScreen
  <1> QED BY <1>3, <1>4, <1>5, <1>6, <1>7, <1>8, StepKinds

\* Of a contact p: texts are only received of a recorded peer,
Recorded(p, r) == p \in DOMAIN r.verified \/ \A row \in ToSet(r.dms[p]) : ~Received(row)

\* which is one whose key is known, as it is before there is a session,
Met(p, n, r) == /\ n.dh[p] # 0 => p \in DOMAIN r.verified
                /\ p \in n.ready => n.dh[p] # 0

\* and those of the rows restored are in the thread or in the queue.
Arrives(p, evs, r, u) ==
    \A row \in ToSet(Newest(r.dms[p])) : Received(row) =>
        row \in ToSet(u.threads[p]) \/ \E e \in ToSet(evs) : Brings(e, p, row)

UnreadInv == used["forget"] = 0 => \A p \in Peer :
    /\ Recorded(p, db.rows)
    /\ Up => Recorded(p, Store) /\ Met(p, node, Store)
    /\ Up /\ Main => Arrives(p, node.events, Store, ui)

LEMMA UnreadNext ==
  ASSUME NEW d, d = db'.rows, NEW r, r = Store', NEW n, n = node', NEW u, u = ui',
         used'["forget"] = 0 => \A p \in Peer :
             /\ Recorded(p, d)
             /\ Up' => Recorded(p, r) /\ Met(p, n, r)
             /\ Up' /\ Main' => Arrives(p, n.events, r, u)
  PROVE  UnreadInv'
  BY DEF UnreadInv, Recorded, Met, Arrives, Received, Brings

LEMMA UnreadPolled ==
  ASSUME NEW p \in Peer, TypeInv, Up, NEW n, NEW r, NEW u, Polled(n, r, u),
         Arrives(p, node.events, Store, ui)
  PROVE  Arrives(p, n.events, r, u)
  <1>0. node.events \in Seq(EventT) /\ Store \in StoreT /\ ui \in UiT
    BY RunningNode DEF TypeInv
  <1>1. PICK q \in Seq(EventT) : q = node.events
    BY <1>0
  <1>2. r = Store /\ AllShown(ui, q, r, u)
    BY <1>0, <1>1, ShownAllFacts DEF Polled
  <1>3. ToSet(ui.threads[p]) \subseteq ToSet(u.threads[p])
        /\ \A k \in 1 .. Len(q) : q[k].type = "dm" =>
              Row(FALSE, q[k].kind, q[k].text) \in ToSet(u.threads[q[k].peer])
    BY <1>2 DEF AllShown, Grows
  <1>4. ASSUME NEW row \in ToSet(Newest(r.dms[p])), Received(row)
        PROVE  row \in ToSet(u.threads[p])
    <2>1. CASE row \in ToSet(ui.threads[p])
      BY <1>3, <2>1
    <2>2. ASSUME NEW e \in ToSet(q), Brings(e, p, row)
          PROVE  row \in ToSet(u.threads[p])
      <3>1. PICK k \in 1 .. Len(q) : q[k] = e
        BY <1>1, InSeq
      <3>2. Row(FALSE, "text", row.text) \in ToSet(u.threads[p])
        BY <1>3, <2>2, <3>1 DEF Brings
      <3>3. row \in RowT
        <4>1. r.dms[p] \in Seq(RowT) /\ ToSet(Newest(r.dms[p])) \subseteq ToSet(r.dms[p])
          BY <1>0, <1>2, NewestOf
        <4> QED BY <1>4, <4>1, InSeq
      <3>4. row = Row(FALSE, "text", row.text)
        BY <1>4, <3>3 DEF RowT, Row, Received
      <3> QED BY <3>2, <3>4
    <2> QED BY <1>1, <1>2, <1>4, <2>1, <2>2 DEF Arrives
  <1> QED BY <1>4 DEF Arrives

LEMMA UnreadAdds ==
  ASSUME NEW p \in Peer, TypeInv, Up, NEW n, NEW r \in StoreT, NEW u, NEW es \in Seq(EventT),
         n.events = node.events \o es, Adds(p, n, r, u, es), Recorded(p, Store), Met(p, node, Store)
  PROVE  /\ Recorded(p, r) /\ Met(p, n, r)
         /\ Arrives(p, node.events, Store, ui) => Arrives(p, n.events, r, u)
  <1>0. node.events \in Seq(EventT)
    BY RunningNode
  <1>1. PICK q \in Seq(EventT) : q = node.events
    BY <1>0
  <1>2. PICK w : w = n.events
    OBVIOUS
  <1>3. ToSet(w) = ToSet(q) \cup ToSet(es)
    <2>1. w = q \o es
      BY <1>1, <1>2
    <2> QED BY <2>1, JoinSet
  <1>4. PICK T : Grown(r.dms[p], Store.dms[p], T) /\ Announced(p, T, es)
    BY DEF Adds
  <1>5. /\ p \in DOMAIN Store.verified => p \in DOMAIN r.verified
        /\ ToSet(ui.threads[p]) \subseteq ToSet(u.threads[p])
        /\ n.dh[p] # 0 => node.dh[p] # 0 \/ p \in DOMAIN r.verified
        /\ node.dh[p] # 0 => n.dh[p] # 0
        /\ p \in n.ready => p \in node.ready \/ node.dh[p] # 0
    BY DEF Adds
  <1>6. \A row \in T : Received(row) => p \in node.ready /\ \E e \in ToSet(es) : Brings(e, p, row)
    BY <1>4 DEF Announced
  <1>7. p \in node.ready => p \in DOMAIN r.verified
    BY <1>5 DEF Met
  <1>8. Recorded(p, r)
    BY <1>4, <1>5, <1>6, <1>7 DEF Recorded, Grown
  <1>9. Met(p, n, r)
    BY <1>5 DEF Met
  <1>10. ASSUME Arrives(p, q, Store, ui), NEW row \in ToSet(Newest(r.dms[p])), Received(row)
         PROVE  row \in ToSet(u.threads[p]) \/ \E e \in ToSet(w) : Brings(e, p, row)
    <2>1. row \in ToSet(Newest(Store.dms[p])) \/ row \in T
      BY <1>4, <1>10 DEF Grown
    <2>2. CASE row \in ToSet(Newest(Store.dms[p]))
      BY <1>3, <1>5, <1>10, <2>2 DEF Arrives
    <2>3. CASE row \in T
      BY <1>3, <1>6, <1>10, <2>3
    <2> QED BY <2>1, <2>2, <2>3
  <1> QED BY <1>1, <1>2, <1>8, <1>9, <1>10 DEF Arrives

LEMMA UnreadMove ==
  ASSUME TypeInv, UnreadInv, [Next]_vars, NEW n, NEW r, NEW u, NEW X, Move(n, r, u, X), Tells(n, r, u)
  PROVE  UnreadInv'
  <1>0. Up /\ r \in StoreT /\ Store \in StoreT
    BY RunningNode DEF Move, Effect, From
  <1>1. /\ Store' = r /\ node'.events = n.events /\ node'.dh = n.dh /\ node'.ready = n.ready
        /\ ui' = u /\ (Main' <=> Main)
        /\ (node.where = "db" => db'.rows = r) /\ (node.where # "db" => db' = db)
    BY MoveStore DEF Move, Main
  <1>2. PICK d : d = db'.rows
    OBVIOUS
  <1>3. ASSUME used'["forget"] = 0, NEW p \in Peer
        PROVE  /\ Recorded(p, d) /\ Recorded(p, r) /\ Met(p, n, r)
               /\ Main => Arrives(p, n.events, r, u)
    <2>0. /\ Recorded(p, db.rows) /\ Recorded(p, Store) /\ Met(p, node, Store)
          /\ Main => Arrives(p, node.events, Store, ui)
      BY <1>0, <1>3, ForgetsStay DEF UnreadInv
    <2>1. /\ Recorded(p, r) /\ Met(p, n, r)
          /\ Main => Arrives(p, n.events, r, u)
      <3>1. CASE Polled(n, r, u)
        <4>1. r = Store /\ n.dh = node.dh /\ n.ready = node.ready
          BY <3>1 DEF Polled
        <4>2. Met(p, n, r)
          BY <2>0, <4>1 DEF Met
        <4> QED BY <1>0, <2>0, <3>1, <4>1, <4>2, UnreadPolled
      <3>2. ASSUME NEW es \in Seq(EventT), n.events = node.events \o es, Changes(n, r, u, es)
            PROVE  /\ Recorded(p, r) /\ Met(p, n, r)
                   /\ Main => Arrives(p, n.events, r, u)
        <4>1. CASE Adds(p, n, r, u, es)
          BY <1>0, <2>0, <3>2, <4>1, UnreadAdds
        <4>2. CASE Purges(p, n, r, u)
          <5>1. /\ p \in DOMAIN Store.verified => p \in DOMAIN r.verified
                /\ \A row \in ToSet(r.dms[p]) : Received(row) => row \in ToSet(Store.dms[p])
                /\ ToSet(Newest(r.dms[p])) \subseteq ToSet(u.threads[p])
                /\ n.dh = node.dh /\ n.ready \subseteq node.ready
            BY <4>2 DEF Purges
          <5>2. Recorded(p, r)
            BY <2>0, <5>1 DEF Recorded
          <5>3. Met(p, n, r)
            BY <2>0, <5>1 DEF Met
          <5>4. Arrives(p, n.events, r, u)
            BY <5>1 DEF Arrives
          <5> QED BY <5>2, <5>3, <5>4
        <4>3. ~Forgets(p, r)
          BY <1>3 DEF Forgets
        <4> QED BY <3>2, <4>1, <4>2, <4>3 DEF Changes
      <3> QED BY <1>0, <3>1, <3>2, Queues
    <2>2. d = r \/ d = db.rows
      BY <1>1, <1>2
    <2> QED BY <2>0, <2>1, <2>2
  <1>4. PICK m : m = node'
    OBVIOUS
  <1>5. \A p \in Peer : Met(p, n, r) => Met(p, m, r)
    BY <1>1, <1>4 DEF Met
  <1>6. m.events = n.events
    BY <1>1, <1>4
  <1> QED BY <1>1, <1>2, <1>3, <1>4, <1>5, <1>6, UnreadNext

LEMMA UnreadStep ==
  ASSUME TypeInv, UnreadInv, [Next]_vars
  PROVE  UnreadInv'
  <1>0. PICK d, r, n, u : d = db'.rows /\ r = Store' /\ n = node' /\ u = ui'
    OBVIOUS
  <1>1. \A p \in Peer : Recorded(p, EmptyRows)
    BY EmptySet DEF Recorded, EmptyRows
  <1>2. CASE Moving
    <2>1. PICK m, s, v, X : Move(m, s, v, X) /\ Tells(m, s, v)
      BY <1>2, MovingMoves
    <2> QED BY <2>1, UnreadMove
  <1>3. CASE Quiet
    <2>1. d = db.rows /\ r = Store /\ n = node /\ u = ui /\ Up' = Up /\ Main' = Main
      BY <1>0, <1>3 DEF Quiet
    <2> QED BY <1>0, <2>1, ForgetsStay, UnreadNext DEF UnreadInv
  <1>4. CASE Ends
    <2>1. d \in {db.rows, EmptyRows} /\ (Up' => r = EmptyRows /\ Unmet(n)) /\ ~(Up' /\ Main')
      BY <1>0, <1>4 DEF Ends
    <2>2. used'["forget"] = 0 => \A p \in Peer : Recorded(p, d)
      BY <1>1, <2>1, ForgetsStay DEF UnreadInv
    <2>3. Up' => \A p \in Peer : Recorded(p, r) /\ Met(p, n, r)
      BY <1>1, <2>1 DEF Met, Unmet
    <2> QED BY <1>0, <2>1, <2>2, <2>3, UnreadNext
  <1>5. CASE Starts
    <2>1. d = db.rows /\ r \in {db.rows, EmptyRows} /\ Unmet(n) /\ Restored(ui, r, u)
      BY <1>0, <1>5 DEF Starts
    <2>2. used'["forget"] = 0 => \A p \in Peer : Recorded(p, d) /\ Recorded(p, r)
      BY <1>1, <2>1, ForgetsStay DEF UnreadInv
    <2>3. \A p \in Peer : Met(p, n, r)
      BY <2>1 DEF Met, Unmet
    <2>4. ASSUME NEW p \in Peer, Recorded(p, r)
          PROVE  Arrives(p, n.events, r, u)
      <3>1. r \in StoreT
        BY <2>1, EmptyTypes DEF TypeInv, DbT
      <3>2. ToSet(Newest(r.dms[p])) \subseteq ToSet(r.dms[p])
        BY <3>1, NewestOf
      <3>3. p \in DOMAIN r.verified => u.threads[p] = Newest(r.dms[p])
        BY <2>1 DEF Restored
      <3> QED BY <2>4, <3>2, <3>3 DEF Recorded, Arrives
    <2> QED BY <1>0, <2>1, <2>2, <2>3, <2>4, UnreadNext
  <1> QED BY <1>2, <1>3, <1>4, <1>5, OtherSteps

\* No text is received and never seen: as long as no contact was forgotten, the
\* texts received that a start restores are in the thread or in the queue of the
\* events, whatever a stop, a kill or a wipe drops of it.
THEOREM AllIsRead == Spec => []NothingUnread
  <1>1. Init => UnreadInv
    <2>1. \A p \in Peer : Recorded(p, EmptyRows)
      BY EmptySet DEF Recorded, EmptyRows
    <2> QED BY <2>1 DEF Init, UnreadInv, Up, NoDb
  <1>2. Spec => []UnreadInv
    BY <1>1, UnreadStep, WellFormed, PTL DEF Spec
  <1>3. TypeInv /\ UnreadInv => NothingUnread
    <2> SUFFICES ASSUME TypeInv, UnreadInv, Up, Main, used["forget"] = 0, NEW p \in Peer,
                        NEW row \in ToSet(Newest(Store.dms[p])), Received(row),
                        row \notin ToSet(ui.threads[p])
                 PROVE  \E k \in Queued("dm") : node.events[k].peer = p /\ node.events[k].text = row.text
      BY DEF NothingUnread, dm_history, Received, ShownOrQueued
    <2>1. node.events \in Seq(EventT)
      BY RunningNode
    <2>2. PICK e \in ToSet(node.events) : Brings(e, p, row)
      BY DEF UnreadInv, Arrives
    <2>3. PICK k \in 1 .. Len(node.events) : node.events[k] = e
      BY <2>1, InSeq
    <2>4. k \in DOMAIN node.events
      BY <2>1
    <2> QED BY <2>2, <2>3, <2>4 DEF Queued, Brings
  <1> QED BY <1>2, <1>3, WellFormed, PTL

-----------------------------------------------------------------------------
(***************************************************************************)
(* The messages of the channels.                                           *)
(***************************************************************************)
\* The texts in E came once more.  Of the others, the messages that wait after the
\* first k events of the queue are different ones and not shown yet, and those
\* shown are different ones; the newest ones stored of a channel are shown or wait.
Single(evs, k, E) ==
    \A i, j \in k + 1 .. Len(evs) :
        Message(evs[i]) /\ Message(evs[j]) /\ evs[i].text = evs[j].text /\ evs[i].text \notin E => i = j
Unseen(evs, k, f, E) ==
    \A i \in k + 1 .. Len(evs) : Message(evs[i]) /\ evs[i].text \notin E => evs[i].text \notin ToSet(f)
Reaches(c, evs, k, s, f) ==
    \A x \in ToSet(Newest(s)) :
        \/ x \in ToSet(f)
        \/ \E i \in k + 1 .. Len(evs) : Message(evs[i]) /\ evs[i].peer = c /\ evs[i].text = x
Apart(f, E) == \A i, j \in DOMAIN f : f[i] = f[j] /\ f[i] \notin E => i = j

Spread(evs, k, s, f, E) ==
    /\ Single(evs, k, E)
    /\ \A c \in Channel : Apart(f[c], E) /\ Unseen(evs, k, f[c], E) /\ Reaches(c, evs, k, s[c], f[c])

Once(r) == \A c \in Channel : IsInjective(r.chan[c])

ChanInv == /\ Once(db.rows) /\ (Up => Once(Store))
           /\ Up /\ Main => Spread(node.events, 0, Store.chan, ui.feed, node.again)

LEMMA ChanNext ==
  ASSUME NEW d, d = db'.rows, NEW r, r = Store', NEW q, q = node'.events, NEW f, f = ui'.feed,
         NEW E, E = node'.again,
         Once(d), Up' => Once(r), Up' /\ Main' => Spread(q, 0, r.chan, f, E)
  PROVE  ChanInv'
  BY DEF ChanInv, Once, Spread, Single, Unseen, Reaches, Message, IsInjective, Apart

LEMMA SpreadMore ==
  ASSUME NEW q, NEW k, NEW s, NEW f, NEW D, NEW E, D \subseteq E, Spread(q, k, s, f, D)
  PROVE  Spread(q, k, s, f, E)
  BY DEF Spread, Single, Unseen, Apart

LEMMA ApartAppend ==
  ASSUME NEW s \in Seq(Nat), NEW E, Apart(s, E), NEW x \in Nat, x \in E \/ x \notin ToSet(s)
  PROVE  Apart(Append(s, x), E) /\ ToSet(Append(s, x)) = ToSet(s) \cup {x}
  <1>1. PICK t : t = Append(s, x)
    OBVIOUS
  <1>2. PICK N \in Nat : N = Len(s)
    OBVIOUS
  <1>3. t \in Seq(Nat) /\ ToSet(t) = ToSet(s) \cup {x}
    BY <1>1, AppendSet
  <1>4. Len(t) = N + 1 /\ t[N + 1] = x /\ \A k \in 1 .. N : t[k] = s[k]
    BY <1>1, <1>2
  <1>5. \A k \in 1 .. N : s[k] = x => x \in E
    BY <1>2, InSeq
  <1>6. \A i, j \in 1 .. N : s[i] = s[j] /\ s[i] \notin E => i = j
    BY <1>2 DEF Apart
  <1>7. ASSUME NEW i \in 1 .. N + 1, NEW j \in 1 .. N + 1, t[i] = t[j], t[i] \notin E
        PROVE  i = j
    <2>1. (i \in 1 .. N \/ i = N + 1) /\ (j \in 1 .. N \/ j = N + 1)
      OBVIOUS
    <2>2. CASE i \in 1 .. N /\ j \in 1 .. N
      BY <1>4, <1>6, <1>7, <2>2
    <2>3. CASE i \in 1 .. N /\ j = N + 1
      BY <1>4, <1>5, <1>7, <2>3
    <2>4. CASE i = N + 1 /\ j \in 1 .. N
      BY <1>4, <1>5, <1>7, <2>4
    <2> QED BY <2>1, <2>2, <2>3, <2>4
  <1>8. Apart(t, E)
    <2>1. DOMAIN t = 1 .. N + 1
      BY <1>3, <1>4
    <2> QED BY <1>7, <2>1 DEF Apart
  <1> QED BY <1>1, <1>3, <1>8

LEMMA OnceAppend ==
  ASSUME NEW s \in Seq(Nat), IsInjective(s), NEW x \in Nat, x \notin ToSet(s)
  PROVE  /\ Append(s, x) \in Seq(Nat) /\ IsInjective(Append(s, x))
         /\ ToSet(Append(s, x)) = ToSet(s) \cup {x}
         /\ ToSet(Newest(Append(s, x))) \subseteq ToSet(Newest(s)) \cup {x}
  <1>1. PICK t : t = Append(s, x)
    OBVIOUS
  <1>2. PICK N \in Nat : N = Len(s)
    OBVIOUS
  <1>3. t \in Seq(Nat) /\ ToSet(t) = ToSet(s) \cup {x}
    BY <1>1, AppendSet
  <1>4. Len(t) = N + 1 /\ t[N + 1] = x /\ \A k \in 1 .. N : t[k] = s[k]
    BY <1>1, <1>2
  <1>5. \A k \in 1 .. N : s[k] # x
    BY <1>2, InSeq
  <1>6. \A i, j \in 1 .. N : s[i] = s[j] => i = j
    BY <1>2 DEF IsInjective
  <1>7. ASSUME NEW i \in 1 .. N + 1, NEW j \in 1 .. N + 1, t[i] = t[j]
        PROVE  i = j
    <2>1. (i \in 1 .. N \/ i = N + 1) /\ (j \in 1 .. N \/ j = N + 1)
      OBVIOUS
    <2>2. CASE i \in 1 .. N /\ j \in 1 .. N
      BY <1>4, <1>6, <1>7, <2>2
    <2>3. CASE i \in 1 .. N /\ j = N + 1
      BY <1>4, <1>5, <1>7, <2>3
    <2>4. CASE i = N + 1 /\ j \in 1 .. N
      BY <1>4, <1>5, <1>7, <2>4
    <2> QED BY <2>1, <2>2, <2>3, <2>4
  <1>8. IsInjective(t)
    <2>1. DOMAIN t = 1 .. N + 1
      BY <1>3, <1>4
    <2> QED BY <1>7, <2>1 DEF IsInjective
  <1>9. ToSet(Newest(t)) \subseteq ToSet(Newest(s)) \cup {x}
    <2>1. <<x>> \in Seq(Nat) /\ ToSet(<<x>>) = {x}
      BY OneSet
    <2>2. PICK e : e = <<x>>
      OBVIOUS
    <2>3. e \in Seq(Nat) /\ ToSet(e) = {x} /\ t = s \o e
      BY <1>1, <2>1, <2>2
    <2>4. ToSet(Newest(s \o e)) \subseteq ToSet(Newest(s)) \cup ToSet(e)
      BY <2>3, NewestJoin
    <2> QED BY <2>3, <2>4
  <1> QED BY <1>1, <1>3, <1>8, <1>9

LEMMA OnceNewest ==
  ASSUME NEW s \in Seq(Nat), IsInjective(s)
  PROVE  IsInjective(Newest(s))
  <1> PICK N \in Nat : N = Len(s)
    OBVIOUS
  <1> PICK t : t = Newest(s)
    OBVIOUS
  <1>0. Limit \in Nat /\ Limit > 0 /\ \A i, j \in 1 .. N : s[i] = s[j] => i = j
    <2>1. DOMAIN s = 1 .. N
      OBVIOUS
    <2>2. \A i, j \in 1 .. N : s[i] = s[j] => i = j
      BY <2>1 DEF IsInjective
    <2> QED BY <2>2, ParameterAssumption
  <1>1. CASE N <= Limit
    BY <1>0, <1>1 DEF Newest
  <1>2. CASE N > Limit
    <2>0. N - Limit \in Nat
      BY <1>0, <1>2
    <2> PICK d \in Nat : d = N - Limit
      BY <2>0
    <2>1. t = SubSeq(s, d + 1, N)
      BY <1>0, <1>2 DEF Newest
    <2>2. /\ t \in Seq(Nat) /\ Len(t) = N - d
          /\ \A k \in 1 .. N - d : t[k] = s[k + d] /\ k + d \in 1 .. N
      BY <1>0, <1>2, <2>1
    <2>3. ASSUME NEW i \in 1 .. N - d, NEW j \in 1 .. N - d, t[i] = t[j]
          PROVE  i = j
      <3>1. i + d = j + d
        <4>1. PICK a \in 1 .. N : a = i + d
          BY <2>2
        <4>2. PICK b \in 1 .. N : b = j + d
          BY <2>2
        <4>3. s[a] = s[b]
          BY <2>2, <2>3, <4>1, <4>2
        <4>4. a = b
          BY <1>0, <4>3
        <4> QED BY <4>1, <4>2, <4>4
      <3> QED BY <3>1
    <2>4. DOMAIN t = 1 .. N - d
      BY <2>2
    <2> QED BY <2>3, <2>4 DEF IsInjective
  <1> QED BY <1>0, <1>1, <1>2

\* Events that are no messages are added.
LEMMA SpreadDeals ==
  ASSUME NEW q \in Seq(EventT), NEW es \in Seq(EventT), NEW w, w = q \o es,
         \A e \in ToSet(es) : ~Message(e), NEW s, NEW f, NEW E, Spread(q, 0, s, f, E)
  PROVE  Spread(w, 0, s, f, E)
  <1> PICK N \in Nat : N = Len(q)
    OBVIOUS
  <1>1. w \in Seq(EventT) /\ Longer(q, es, w, N)
    BY QueueGrows
  <1>2. /\ \A k \in 1 .. N : k \in 1 .. Len(w) /\ w[k] = q[k]
        /\ \A k \in 1 .. Len(w) : Message(w[k]) => k \in 1 .. N
    BY <1>1 DEF Longer
  <1>3. Single(w, 0, E)
    <2>1. \A i, j \in 1 .. N : Message(q[i]) /\ Message(q[j]) /\ q[i].text = q[j].text /\ q[i].text \notin E => i = j
      BY DEF Spread, Single
    <2>2. \A i, j \in 1 .. Len(w) : Message(w[i]) /\ Message(w[j]) /\ w[i].text = w[j].text /\ w[i].text \notin E => i = j
      BY <1>2, <2>1
    <2>3. 0 + 1 .. Len(w) = 1 .. Len(w)
      OBVIOUS
    <2> QED BY <2>2, <2>3, Zenon DEF Single
  <1>4. ASSUME NEW c \in Channel
        PROVE  Apart(f[c], E) /\ Unseen(w, 0, f[c], E) /\ Reaches(c, w, 0, s[c], f[c])
    <2>1. Apart(f[c], E) /\ Unseen(q, 0, f[c], E) /\ Reaches(c, q, 0, s[c], f[c])
      BY DEF Spread
    <2>2. \A i \in 1 .. Len(w) : Message(w[i]) /\ w[i].text \notin E => w[i].text \notin ToSet(f[c])
      <3>1. \A i \in 1 .. N : Message(q[i]) /\ q[i].text \notin E => q[i].text \notin ToSet(f[c])
        BY <2>1 DEF Unseen
      <3> QED BY <1>2, <3>1
    <2>3. ASSUME NEW x \in ToSet(Newest(s[c])), x \notin ToSet(f[c])
          PROVE  \E i \in 1 .. Len(w) : Message(w[i]) /\ w[i].peer = c /\ w[i].text = x
      <3>1. PICK i \in 1 .. N : Message(q[i]) /\ q[i].peer = c /\ q[i].text = x
        BY <2>1, <2>3 DEF Reaches
      <3> QED BY <1>2, <3>1
    <2>4. Unseen(w, 0, f[c], E)
      <3>1. 0 + 1 .. Len(w) = 1 .. Len(w)
        OBVIOUS
      <3> QED BY <2>2, <3>1, Zenon DEF Unseen
    <2>5. Reaches(c, w, 0, s[c], f[c])
      <3>1. 0 + 1 .. Len(w) = 1 .. Len(w)
        OBVIOUS
      <3> QED BY <2>3, <3>1, Zenon DEF Reaches
    <2> QED BY <2>1, <2>4, <2>5
  <1> QED BY <1>3, <1>4 DEF Spread

\* A text is queued that is new and stored of its channel, or is in E.
LEMMA SpreadHears ==
  ASSUME NEW q \in Seq(EventT), NEW e \in EventT, Message(e), NEW w, w = q \o <<e>>, NEW E,
         \A y \in ToSet(q) : y.text # e.text \/ e.text \in E,
         NEW s \in Feeds, NEW f \in Feeds, NEW t, Spread(q, 0, s, f, E),
         \A c \in Channel : e.text \notin ToSet(f[c]) \/ e.text \in E,
         \A c \in Channel : \A x \in ToSet(Newest(t[c])) : x \in ToSet(Newest(s[c])) \/ (x = e.text /\ c = e.peer)
  PROVE  Spread(w, 0, t, f, E)
  <1> PICK N \in Nat : N = Len(q)
    OBVIOUS
  <1>1. /\ \A k \in 1 .. N : k \in 1 .. N + 1 /\ w[k] = q[k]
        /\ w[N + 1] = e /\ Len(w) = N + 1
        /\ \A k \in 1 .. N + 1 : k \in 1 .. N \/ k = N + 1
    <2>1. \A k \in 1 .. N : k \in 1 .. N + 1
      OBVIOUS
    <2>2. w[N + 1] = e /\ Len(w) = N + 1 /\ \A k \in 1 .. N : w[k] = q[k]
      OBVIOUS
    <2>3. \A k \in 1 .. N + 1 : k \in 1 .. N \/ k = N + 1
      OBVIOUS
    <2> QED BY <2>1, <2>2, <2>3
  <1>2. \A k \in 1 .. N : q[k].text # e.text \/ e.text \in E
    <2>1. \A k \in 1 .. N : q[k] \in ToSet(q)
      BY InSeq
    <2> QED BY <2>1
  <1>3. \A i, j \in 1 .. N : Message(q[i]) /\ Message(q[j]) /\ q[i].text = q[j].text /\ q[i].text \notin E => i = j
    BY DEF Spread, Single
  <1>4. ASSUME NEW i \in 1 .. N + 1, NEW j \in 1 .. N + 1, Message(w[i]), Message(w[j]), w[i].text = w[j].text,
               w[i].text \notin E
        PROVE  i = j
    <2>1. CASE i \in 1 .. N /\ j \in 1 .. N
      <3>1. w[i] = q[i] /\ w[j] = q[j]
        BY <1>1, <2>1
      <3> QED BY <1>3, <1>4, <2>1, <3>1
    <2>2. CASE i \in 1 .. N /\ j = N + 1
      <3>1. w[i] = q[i] /\ w[j] = e
        BY <1>1, <2>2
      <3> QED BY <1>2, <1>4, <2>2, <3>1
    <2>3. CASE i = N + 1 /\ j \in 1 .. N
      <3>1. w[j] = q[j] /\ w[i] = e
        BY <1>1, <2>3
      <3> QED BY <1>2, <1>4, <2>3, <3>1
    <2> QED BY <1>1, <2>1, <2>2, <2>3
  <1>5. Single(w, 0, E)
    BY <1>1, <1>4 DEF Single
  <1>6. ASSUME NEW c \in Channel
        PROVE  Apart(f[c], E) /\ Unseen(w, 0, f[c], E) /\ Reaches(c, w, 0, t[c], f[c])
    <2>1. Apart(f[c], E) /\ Unseen(q, 0, f[c], E) /\ Reaches(c, q, 0, s[c], f[c])
      BY DEF Spread
    <2>2. \A i \in 1 .. N + 1 : Message(w[i]) /\ w[i].text \notin E => w[i].text \notin ToSet(f[c])
      <3>1. \A i \in 1 .. N : Message(q[i]) /\ q[i].text \notin E => q[i].text \notin ToSet(f[c])
        BY <2>1 DEF Unseen
      <3> QED BY <1>1, <3>1
    <2>3. ASSUME NEW x \in ToSet(Newest(t[c])), x \notin ToSet(f[c])
          PROVE  \E i \in 1 .. N + 1 : Message(w[i]) /\ w[i].peer = c /\ w[i].text = x
      <3>1. CASE x \in ToSet(Newest(s[c]))
        <4>1. PICK i \in 1 .. N : Message(q[i]) /\ q[i].peer = c /\ q[i].text = x
          BY <2>1, <2>3, <3>1 DEF Reaches
        <4>2. w[i] = q[i] /\ i \in 1 .. N + 1
          BY <1>1
        <4> QED BY <4>1, <4>2
      <3>2. CASE x = e.text /\ c = e.peer
        <4>1. N + 1 \in 1 .. N + 1
          OBVIOUS
        <4> QED BY <1>1, <3>2, <4>1
      <3> QED BY <2>3, <3>1, <3>2
    <2> QED BY <1>1, <2>1, <2>2, <2>3 DEF Unseen, Reaches
  <1> QED BY <1>5, <1>6 DEF Spread

\* A text of our own is stored and shown at once.
OwnText(c, x, s, f, t, g, E) ==
    /\ Apart(g[c], E) /\ ToSet(g[c]) = ToSet(f[c]) \cup {x}
    /\ ToSet(Newest(t[c])) \subseteq ToSet(Newest(s[c])) \cup {x}
    /\ \A b \in Channel \ {c} : g[b] = f[b] /\ t[b] = s[b]

LEMMA SpreadPosts ==
  ASSUME NEW q \in Seq(EventT), NEW c \in Channel, NEW x, \A y \in ToSet(q) : y.text # x,
         NEW s, NEW f, NEW t, NEW g, NEW E, Spread(q, 0, s, f, E), OwnText(c, x, s, f, t, g, E)
  PROVE  Spread(q, 0, t, g, E)
  <1>0. /\ Apart(g[c], E) /\ ToSet(g[c]) = ToSet(f[c]) \cup {x}
        /\ ToSet(Newest(t[c])) \subseteq ToSet(Newest(s[c])) \cup {x}
        /\ \A b \in Channel \ {c} : g[b] = f[b] /\ t[b] = s[b]
    BY DEF OwnText
  <1>1. Single(q, 0, E)
    BY DEF Spread
  <1>2. \A i \in 1 .. Len(q) : q[i].text # x
    <2>1. \A i \in 1 .. Len(q) : q[i] \in ToSet(q)
      BY InSeq
    <2> QED BY <2>1
  <1>3. ASSUME NEW b \in Channel
        PROVE  Apart(g[b], E) /\ Unseen(q, 0, g[b], E) /\ Reaches(b, q, 0, t[b], g[b])
    <2>1. Apart(f[b], E) /\ Unseen(q, 0, f[b], E) /\ Reaches(b, q, 0, s[b], f[b])
      BY DEF Spread
    <2>2. CASE b # c
      <3>1. g[b] = f[b] /\ t[b] = s[b]
        BY <1>0, <2>2
      <3> QED BY <2>1, <3>1
    <2>3. CASE b = c
      <3>1. Unseen(q, 0, g[c], E)
        BY <1>0, <1>2, <2>1, <2>3 DEF Unseen
      <3>2. Reaches(c, q, 0, t[c], g[c])
        BY <1>0, <2>1, <2>3 DEF Reaches
      <3> QED BY <1>0, <2>3, <3>1, <3>2
    <2> QED BY <2>2, <2>3
  <1> QED BY <1>1, <1>3 DEF Spread

\* One event is shown.
LEMMA SpreadShown ==
  ASSUME NEW q \in Seq(EventT), NEW N \in Nat, N = Len(q), NEW k \in 1 .. N, NEW s,
         NEW f \in Feeds, NEW g, NEW E, Spread(q, k - 1, s, f, E),
         IF Message(q[k]) THEN g = [f EXCEPT ![q[k].peer] = Append(f[q[k].peer], q[k].text)] ELSE g = f
  PROVE  Spread(q, k, s, g, E)
  <1>1. /\ \A i \in k .. N : i \in (k - 1) + 1 .. Len(q)
        /\ \A i \in (k - 1) + 1 .. Len(q) : i \in k .. N
        /\ \A i \in k + 1 .. Len(q) : i \in k .. N /\ i # k
        /\ \A i \in k .. N : i # k => i \in k + 1 .. Len(q)
        /\ k \in k .. N
    OBVIOUS
  <1>2. \A i, j \in k .. N : Message(q[i]) /\ Message(q[j]) /\ q[i].text = q[j].text /\ q[i].text \notin E => i = j
    BY <1>1 DEF Spread, Single
  <1>3. Single(q, k, E)
    BY <1>1, <1>2 DEF Single
  <1>4. ASSUME NEW c \in Channel
        PROVE  /\ Apart(f[c], E) /\ f[c] \in Seq(Nat)
               /\ \A i \in k .. N : Message(q[i]) /\ q[i].text \notin E => q[i].text \notin ToSet(f[c])
               /\ \A x \in ToSet(Newest(s[c])) :
                     \/ x \in ToSet(f[c])
                     \/ \E i \in k .. N : Message(q[i]) /\ q[i].peer = c /\ q[i].text = x
    <2>1. Apart(f[c], E) /\ Unseen(q, k - 1, f[c], E) /\ Reaches(c, q, k - 1, s[c], f[c])
      BY DEF Spread
    <2>2. \A i \in k .. N : Message(q[i]) /\ q[i].text \notin E => q[i].text \notin ToSet(f[c])
      BY <1>1, <2>1 DEF Unseen
    <2>3. \A x \in ToSet(Newest(s[c])) :
                     \/ x \in ToSet(f[c])
                     \/ \E i \in k .. N : Message(q[i]) /\ q[i].peer = c /\ q[i].text = x
      BY <1>1, <2>1 DEF Reaches
    <2>4. f[c] \in Seq(Nat)
      BY DEF Feeds
    <2> QED BY <2>1, <2>2, <2>3, <2>4
  <1>5. CASE ~Message(q[k])
    <2>1. g = f
      BY <1>5
    <2>2. ASSUME NEW c \in Channel
          PROVE  Apart(f[c], E) /\ Unseen(q, k, f[c], E) /\ Reaches(c, q, k, s[c], f[c])
      <3>1. Unseen(q, k, f[c], E)
        BY <1>1, <1>4 DEF Unseen
      <3>2. ASSUME NEW x \in ToSet(Newest(s[c])), x \notin ToSet(f[c])
            PROVE  \E i \in k + 1 .. Len(q) : Message(q[i]) /\ q[i].peer = c /\ q[i].text = x
        BY <1>1, <1>4, <1>5, <3>2
      <3>3. Reaches(c, q, k, s[c], f[c])
        BY <3>2 DEF Reaches
      <3> QED BY <1>4, <3>1, <3>3
    <2> QED BY <1>3, <2>1, <2>2 DEF Spread
  <1>6. CASE Message(q[k])
    <2>1. PICK a \in Channel : a = q[k].peer
      <3>1. q[k] \in EventT
        OBVIOUS
      <3> QED BY <1>6, <3>1, EventFields DEF Message
    <2>2. PICK y \in Nat : y = q[k].text
      <3>1. q[k] \in EventT
        OBVIOUS
      <3> QED BY <3>1, EventFields
    <2>3. g[a] = Append(f[a], y) /\ \A b \in Channel \ {a} : g[b] = f[b]
      BY <1>6, <2>1, <2>2 DEF Feeds
    <2>4. f[a] \in Seq(Nat) /\ Apart(f[a], E) /\ (y \in E \/ y \notin ToSet(f[a]))
      BY <1>1, <1>4, <1>6, <2>1, <2>2
    <2>5. Apart(g[a], E) /\ ToSet(g[a]) = ToSet(f[a]) \cup {y}
      <3>1. PICK h : h = f[a]
        OBVIOUS
      <3>2. Apart(Append(h, y), E) /\ ToSet(Append(h, y)) = ToSet(h) \cup {y}
        BY <2>4, <3>1, ApartAppend
      <3> QED BY <2>3, <3>1, <3>2
    <2>6. \A i \in k + 1 .. Len(q) : Message(q[i]) /\ q[i].text \notin E => q[i].text # y
      BY <1>1, <1>2, <1>6, <2>2
    <2>7. ASSUME NEW c \in Channel
          PROVE  Apart(g[c], E) /\ Unseen(q, k, g[c], E) /\ Reaches(c, q, k, s[c], g[c])
      <3>1. ToSet(f[c]) \subseteq ToSet(g[c]) /\ ToSet(g[c]) \subseteq ToSet(f[c]) \cup {y} /\ Apart(g[c], E)
            /\ (c = a => y \in ToSet(g[c]))
        <4>1. CASE c = a
          BY <2>5, <4>1
        <4>2. CASE c # a
          BY <1>4, <2>3, <4>2
        <4> QED BY <4>1, <4>2
      <3>2. Unseen(q, k, g[c], E)
        BY <1>1, <1>4, <2>6, <3>1 DEF Unseen
      <3>3. ASSUME NEW x \in ToSet(Newest(s[c])), x \notin ToSet(g[c])
            PROVE  \E i \in k + 1 .. Len(q) : Message(q[i]) /\ q[i].peer = c /\ q[i].text = x
        <4>1. PICK i \in k .. N : Message(q[i]) /\ q[i].peer = c /\ q[i].text = x
          BY <1>4, <3>1, <3>3
        <4>2. i # k
          BY <2>1, <2>2, <3>1, <3>3, <4>1
        <4> QED BY <1>1, <4>1, <4>2
      <3>4. Reaches(c, q, k, s[c], g[c])
        BY <3>3 DEF Reaches
      <3> QED BY <3>1, <3>2, <3>4
    <2> QED BY <1>3, <2>7 DEF Spread
  <1> QED BY <1>5, <1>6

\* The poll: all of them are shown, and the queue is empty.
LEMMA SpreadPolled ==
  ASSUME NEW q \in Seq(EventT), NEW u \in UiT, NEW r \in StoreT, NEW s, NEW E, Spread(q, 0, s, u.feed, E),
         NEW v, v = ShownAll(u, q, r)
  PROVE  Spread(<< >>, 0, s, v.feed, E)
  <1>0. PICK N \in Nat : N = Len(q)
    OBVIOUS
  <1>1. PICK f : /\ f[0] = u /\ f[N] = v
                 /\ \A k \in 1 .. N : f[k] = Shown(f[k - 1], q[k], r)
    BY <1>0, ShownAllSteps
  <1> DEFINE S == {k \in 0 .. N : f[k] \in UiT /\ Spread(q, k, s, f[k].feed, E)}
  <1>2. 0 \in S
    BY <1>1
  <1>3. ASSUME NEW k \in 1 .. N, k - 1 \in S
        PROVE  k \in S
    <2>1. PICK a, b : a = f[k - 1] /\ b = f[k]
      OBVIOUS
    <2>2. a \in UiT /\ Spread(q, k - 1, s, a.feed, E)
      BY <1>3, <2>1
    <2>3. PICK e \in EventT : e = q[k]
      BY <1>0
    <2>4. ShownStep(a, e, r, b)
      <3>1. b = Shown(a, e, r)
        BY <1>1, <2>1, <2>3
      <3> QED BY <2>2, <3>1, ShownFacts
    <2>5. b \in UiT
      BY <2>4 DEF ShownStep
    <2>6. IF Message(e) THEN b.feed = [a.feed EXCEPT ![e.peer] = Append(a.feed[e.peer], e.text)]
          ELSE b.feed = a.feed
      BY <2>4 DEF ShownStep, Message, TextAdded
    <2>7. a.feed \in Feeds
      BY <2>2, UiFields
    <2>8. PICK g, h : g = a.feed /\ h = b.feed
      OBVIOUS
    <2>9. IF Message(q[k]) THEN h = [g EXCEPT ![q[k].peer] = Append(g[q[k].peer], q[k].text)] ELSE h = g
      BY <2>3, <2>6, <2>8
    <2>10. Spread(q, k, s, h, E)
      BY <1>0, <2>2, <2>7, <2>8, <2>9, SpreadShown
    <2> QED BY <2>1, <2>5, <2>8, <2>10
  <1>4. N \in S
    <2> HIDE DEF S
    <2>1. \A k \in 1 .. N : k - 1 \in S => k \in S
      BY <1>3
    <2>2. \A k \in 0 .. N : k \in S
      BY <1>2, <2>1, UpTo
    <2> QED BY <2>2
  <1>5. Spread(q, N, s, v.feed, E)
    BY <1>1, <1>4
  <1>6. PICK w : w = << >>
    OBVIOUS
  <1>7. 0 + 1 .. Len(w) = {} /\ N + 1 .. Len(q) = {}
    BY <1>0, <1>6
  <1>8. Spread(w, 0, s, v.feed, E)
    BY <1>5, <1>7 DEF Spread, Single, Unseen, Reaches
  <1> QED BY <1>6, <1>8

\* The next text is new to the store, the queue and the screen.
LEMMA NextIsNew ==
  ASSUME TypeInv, EarlierInv, Up
  PROVE  /\ Text \in Nat
         /\ \A c \in Channel : Text \notin ToSet(Store.chan[c]) /\ Text \notin ToSet(ui.feed[c])
         /\ \A e \in ToSet(node.events) : e.text # Text
  <1>1. Text \in Nat /\ Text \in Later
    BY TextNat DEF Later
  <1>2. ClearFeeds(ui.feed, Later) /\ ClearFeeds(Store.chan, Later) /\ ClearEvents(node.events, Later)
    BY DEF EarlierInv, Clear, ClearUi
  <1> QED BY <1>1, <1>2 DEF ClearFeeds, ClearEvents

LEMMA ChanMove ==
  ASSUME TypeInv, EarlierInv, ChanInv, NEW n, NEW r, NEW u, NEW X, Move(n, r, u, X), Tells(n, r, u)
  PROVE  ChanInv'
  <1>0. Up /\ r \in StoreT /\ Store \in StoreT /\ ui \in UiT /\ node.events \in Seq(EventT)
    BY RunningNode DEF Move, Effect, From, TypeInv
  <1>1. /\ Store' = r /\ node'.events = n.events /\ ui' = u /\ (Main' <=> Main)
        /\ node'.again = n.again /\ node.again \subseteq n.again
        /\ (node.where = "db" => db'.rows = r) /\ (node.where # "db" => db' = db)
    BY MoveStore DEF Move, Effect, Main
  <1>2. PICK d, x, E : d = db'.rows /\ x = Text /\ E = n.again
    OBVIOUS
  <1>3. PICK q \in Seq(EventT) : q = node.events
    BY <1>0
  <1>4. PICK s, f : s = Store.chan /\ f = ui.feed
    OBVIOUS
  <1>5. s \in Feeds /\ f \in Feeds
    BY <1>0, <1>4, StoreFields, UiFields
  <1>6. /\ x \in Nat /\ \A e \in ToSet(q) : e.text # x
        /\ \A c \in Channel : x \notin ToSet(s[c]) /\ x \notin ToSet(f[c])
    BY <1>0, <1>2, <1>3, <1>4, NextIsNew
  <1>7. /\ Once(db.rows) /\ \A c \in Channel : IsInjective(s[c])
        /\ Main => Spread(q, 0, s, f, E)
    <2>1. /\ Once(db.rows) /\ \A c \in Channel : IsInjective(s[c])
          /\ Main => Spread(q, 0, s, f, node.again)
      BY <1>0, <1>3, <1>4 DEF ChanInv, Once
    <2> QED BY <1>1, <1>2, <2>1, SpreadMore
  <1>8. ASSUME NEW c \in Channel, NEW t, t = [s EXCEPT ![c] = Append(s[c], x)]
        PROVE  /\ \A b \in Channel : IsInjective(t[b])
               /\ \A b \in Channel \ {c} : t[b] = s[b]
               /\ ToSet(Newest(t[c])) \subseteq ToSet(Newest(s[c])) \cup {x}
    <2>1. t[c] = Append(s[c], x) /\ \A b \in Channel \ {c} : t[b] = s[b]
      BY <1>5, <1>8 DEF Feeds
    <2>2. PICK h \in Seq(Nat) : h = s[c]
      BY <1>5 DEF Feeds
    <2>3. IsInjective(h) /\ x \notin ToSet(h)
      BY <1>6, <1>7, <2>2
    <2>4. /\ IsInjective(Append(h, x))
          /\ ToSet(Newest(Append(h, x))) \subseteq ToSet(Newest(h)) \cup {x}
      BY <1>6, <2>3, OnceAppend
    <2> QED BY <1>7, <2>1, <2>2, <2>4
  <1>9. Once(r) /\ (Main => Spread(n.events, 0, r.chan, u.feed, E))
    <2>1. CASE Deals(n, r, u)
      <3>1. PICK es \in Seq(EventT) : /\ n.events = node.events \o es /\ \A e \in ToSet(es) : ~Message(e)
                                      /\ r.chan = Store.chan /\ u.feed = ui.feed
        BY <2>1 DEF Deals
      <3>2. PICK w : w = n.events
        OBVIOUS
      <3>3. w = q \o es /\ r.chan = s /\ u.feed = f
        BY <1>3, <1>4, <3>1, <3>2
      <3>4. Main => Spread(w, 0, s, f, E)
        BY <1>7, <3>1, <3>3, SpreadDeals
      <3> QED BY <1>7, <3>2, <3>3, <3>4 DEF Once
    <2>2. ASSUME NEW c \in Channel, Hears(c, n, r, u)
          PROVE  Once(r) /\ (Main => Spread(n.events, 0, r.chan, u.feed, E))
      <3>1. PICK e \in EventT : /\ n.events = node.events \o <<e>> /\ Message(e) /\ e.peer = c /\ e.text = x
                                /\ r.chan = [s EXCEPT ![c] = Append(s[c], x)] /\ u.feed = f
        BY <1>2, <1>4, <2>2 DEF Hears
      <3>2. PICK w, t : w = n.events /\ t = r.chan
        OBVIOUS
      <3>a. t = [s EXCEPT ![c] = Append(s[c], x)]
        BY <3>1, <3>2
      <3>3. /\ \A b \in Channel : IsInjective(t[b])
            /\ \A b \in Channel \ {c} : t[b] = s[b]
            /\ ToSet(Newest(t[c])) \subseteq ToSet(Newest(s[c])) \cup {x}
        BY <1>8, <3>a
      <3>4. w = q \o <<e>>
        BY <1>3, <3>1, <3>2
      <3>5. \A b \in Channel : \A y \in ToSet(Newest(t[b])) :
               y \in ToSet(Newest(s[b])) \/ (y = e.text /\ b = e.peer)
        BY <3>1, <3>3
      <3>6. Main => Spread(w, 0, t, f, E)
        BY <1>5, <1>6, <1>7, <3>1, <3>4, <3>5, SpreadHears
      <3> QED BY <3>1, <3>2, <3>3, <3>6 DEF Once
    <2>3. ASSUME NEW c \in Channel, Posts(c, n, r, u)
          PROVE  Once(r) /\ (Main => Spread(n.events, 0, r.chan, u.feed, E))
      <3>1. PICK t, g : t = r.chan /\ g = u.feed
        OBVIOUS
      <3>2. /\ n.events = q /\ t = [s EXCEPT ![c] = Append(s[c], x)]
            /\ g = [f EXCEPT ![c] = Append(f[c], x)]
        BY <1>2, <1>3, <1>4, <2>3, <3>1 DEF Posts
      <3>3. /\ \A b \in Channel : IsInjective(t[b])
            /\ \A b \in Channel \ {c} : t[b] = s[b]
            /\ ToSet(Newest(t[c])) \subseteq ToSet(Newest(s[c])) \cup {x}
        BY <1>8, <3>2
      <3>4. g[c] = Append(f[c], x) /\ \A b \in Channel \ {c} : g[b] = f[b]
        BY <1>5, <3>2 DEF Feeds
      <3>5. ASSUME Main
            PROVE  Spread(q, 0, t, g, E)
        <4>1. PICK h \in Seq(Nat) : h = f[c]
          BY <1>5 DEF Feeds
        <4>2. Apart(h, E) /\ x \notin ToSet(h)
          BY <1>6, <1>7, <3>5, <4>1 DEF Spread
        <4>3. Apart(Append(h, x), E) /\ ToSet(Append(h, x)) = ToSet(h) \cup {x}
          BY <1>6, <4>2, ApartAppend
        <4>4. Apart(g[c], E) /\ ToSet(g[c]) = ToSet(f[c]) \cup {x}
          BY <3>4, <4>1, <4>3
        <4>5. \A b \in Channel \ {c} : g[b] = f[b] /\ t[b] = s[b]
          BY <3>3, <3>4
        <4>6. Spread(q, 0, s, f, E) /\ \A y \in ToSet(q) : y.text # x
          BY <1>6, <1>7, <3>5
        <4>7. OwnText(c, x, s, f, t, g, E)
          BY <3>3, <4>4, <4>5 DEF OwnText
        <4> QED BY <4>6, <4>7, SpreadPosts
      <3> QED BY <3>1, <3>2, <3>3, <3>5 DEF Once
    <2>4. CASE Polled(n, r, u)
      <3>1. n.events = << >> /\ r = Store /\ u = ShownAll(ui, q, r)
        BY <1>3, <2>4 DEF Polled
      <3>2. Main => Spread(<< >>, 0, s, u.feed, E)
        BY <1>0, <1>4, <1>7, <3>1, SpreadPolled
      <3> QED BY <1>0, <1>4, <3>1, <3>2 DEF ChanInv
    <2>5. CASE Echoes(n, r, u)
      <3>1. PICK e \in EventT : /\ n.events = node.events \o <<e>> /\ Message(e) /\ e.text \in E
                                /\ r.chan = s /\ u.feed = f
        BY <1>2, <1>4, <2>5 DEF Echoes
      <3>2. PICK w : w = n.events
        OBVIOUS
      <3>3. w = q \o <<e>>
        BY <1>3, <3>1, <3>2
      <3>4. Main => Spread(w, 0, s, f, E)
        <4>1. \A y \in ToSet(q) : y.text # e.text \/ e.text \in E
          BY <3>1
        <4>2. \A c \in Channel : e.text \notin ToSet(f[c]) \/ e.text \in E
          BY <3>1
        <4>3. \A c \in Channel : \A y \in ToSet(Newest(s[c])) :
                 y \in ToSet(Newest(s[c])) \/ (y = e.text /\ c = e.peer)
          OBVIOUS
        <4> QED BY <1>5, <1>7, <3>1, <3>3, <4>1, <4>2, <4>3, SpreadHears
      <3> QED BY <1>7, <3>1, <3>2, <3>4 DEF Once
    <2> QED BY <2>1, <2>2, <2>3, <2>4, <2>5 DEF Tells
  <1>10. Once(d)
    <2>1. d = r \/ d = db.rows
      BY <1>1, <1>2
    <2> QED BY <1>7, <1>9, <2>1
  <1>11. PICK g, w : g = u.feed /\ w = n.events
    OBVIOUS
  <1>12. g = ui'.feed /\ w = node'.events /\ E = node'.again
    BY <1>1, <1>2, <1>11
  <1> QED BY <1>1, <1>2, <1>9, <1>10, <1>11, <1>12, ChanNext

LEMMA ChanStep ==
  ASSUME TypeInv, EarlierInv, ChanInv, [Next]_vars
  PROVE  ChanInv'
  <1>0. PICK d, r, q, u : d = db'.rows /\ r = Store' /\ q = node'.events /\ u = ui'
    OBVIOUS
  <1>01. PICK f, E : f = ui'.feed /\ E = node'.again
    OBVIOUS
  <1>1. Once(EmptyRows)
    BY DEF Once, EmptyRows, IsInjective
  <1>2. CASE Moving
    BY <1>2, MovingMoves, ChanMove
  <1>3. CASE Quiet
    <2>1. d = db.rows /\ r = Store /\ q = node.events /\ f = ui.feed /\ E = node.again /\ Up' = Up /\ Main' = Main
      BY <1>0, <1>01, <1>3 DEF Quiet
    <2> QED BY <1>0, <1>01, <2>1, ChanNext DEF ChanInv
  <1>4. CASE Ends
    <2>1. d \in {db.rows, EmptyRows} /\ (Up' => r = EmptyRows) /\ ~(Up' /\ Main')
      BY <1>0, <1>4 DEF Ends
    <2>2. Once(d) /\ (Up' => Once(r))
      BY <1>1, <2>1 DEF ChanInv
    <2> QED BY <1>0, <1>01, <2>1, <2>2, ChanNext
  <1>5. CASE Starts
    <2>1. d = db.rows /\ r \in {db.rows, EmptyRows} /\ q = << >> /\ Restored(ui, r, u)
      BY <1>0, <1>5 DEF Starts
    <2>2. Once(d) /\ Once(r)
      BY <1>1, <2>1 DEF ChanInv
    <2>3. r \in StoreT
      BY <2>1, EmptyTypes DEF TypeInv, DbT
    <2>4. \A c \in Channel : f[c] = Newest(r.chan[c])
      BY <1>0, <1>01, <2>1 DEF Restored
    <2>5. 0 + 1 .. Len(q) = {}
      BY <2>1
    <2>6. ASSUME NEW c \in Channel
          PROVE  Apart(f[c], E) /\ Unseen(q, 0, f[c], E) /\ Reaches(c, q, 0, r.chan[c], f[c])
      <3>1. Apart(f[c], E)
        <4>1. PICK s \in Seq(Nat) : s = r.chan[c]
          BY <2>3, NewestOf
        <4>2. IsInjective(s)
          BY <2>2, <4>1 DEF Once
        <4>3. IsInjective(Newest(s))
          BY <4>2, OnceNewest
        <4> QED BY <2>4, <4>1, <4>3 DEF Apart, IsInjective
      <3>2. Unseen(q, 0, f[c], E)
        BY <2>5 DEF Unseen
      <3>3. Reaches(c, q, 0, r.chan[c], f[c])
        BY <2>4 DEF Reaches
      <3> QED BY <3>1, <3>2, <3>3
    <2>7. Spread(q, 0, r.chan, f, E)
      BY <2>5, <2>6 DEF Spread, Single
    <2> QED BY <1>0, <1>01, <2>2, <2>7, ChanNext
  <1> QED BY <1>2, <1>3, <1>4, <1>5, OtherSteps

LEMMA AtMostOne ==
  ASSUME NEW S, \A a, b \in S : a = b
  PROVE  /\ S = {} => Cardinality(S) = 0
         /\ S # {} => Cardinality(S) = 1
  <1>1. CASE S = {}
    BY <1>1, FS_EmptySet
  <1>2. CASE S # {}
    <2>1. PICK a : S = {a}
      BY <1>2
    <2> QED BY <2>1, FS_Singleton
  <1> QED BY <1>1, <1>2

\* The newest messages stored of a channel are shown or queued, and none twice that
\* did not come to this node once more, though the list of a channel outlives its
\* node and the history is loaded into it again (handle_channel, restoreHistory).
THEOREM FeedIsTrue == Spec => []FeedTrue
  <1>1. Init => ChanInv
    <2>1. Once(EmptyRows)
      BY DEF Once, EmptyRows, IsInjective
    <2> QED BY <2>1 DEF Init, ChanInv, Up, NoDb
  <1>2. Spec => []EarlierInv
    <2>1. Init => EarlierInv
      BY EmptyTypes DEF Init, EarlierInv, Up, NoDb
    <2> QED BY <2>1, EarlierStep, WellFormed, PTL DEF Spec
  <1>3. Spec => []ChanInv
    BY <1>1, <1>2, ChanStep, WellFormed, PTL DEF Spec
  <1>4. ASSUME TypeInv, ChanInv
        PROVE  FeedTrue
    <2> SUFFICES ASSUME Up, Main, NEW c \in Channel
                 PROVE  LET feed(x) == {k \in DOMAIN ui.feed[c] : ui.feed[c][k] = x}
                            coming(x) == {k \in Queued("message") : node.events[k].text = x}
                            shown(x) == Cardinality(feed(x)) + Cardinality(coming(x))
                        IN  /\ \A x \in ToSet(Store.chan[c]) \ node.again : shown(x) <= 1
                            /\ \A x \in ToSet(channel_history(Store, c)) : shown(x) >= 1
      BY DEF FeedTrue
    <2> DEFINE feed(x) == {k \in DOMAIN ui.feed[c] : ui.feed[c][k] = x}
               coming(x) == {k \in Queued("message") : node.events[k].text = x}
               shown(x) == Cardinality(feed(x)) + Cardinality(coming(x))
    <2>1. PICK q \in Seq(EventT) : q = node.events
      BY <1>4, RunningNode
    <2>2. PICK f \in Seq(Nat) : f = ui.feed[c]
      BY <1>4, UiFields DEF TypeInv, Feeds
    <2>3. /\ Single(q, 0, node.again) /\ Apart(f, node.again) /\ Unseen(q, 0, f, node.again)
          /\ Reaches(c, q, 0, Store.chan[c], f)
      BY <1>4, <2>1, <2>2 DEF ChanInv, Spread
    <2>4. ASSUME NEW x
          PROVE  /\ feed(x) = {k \in DOMAIN f : f[k] = x}
                 /\ coming(x) = {k \in 1 .. Len(q) : Message(q[k]) /\ q[k].text = x}
      BY <2>1, <2>2 DEF Queued, Message
    <2> HIDE DEF feed, coming
    <2>5. ASSUME NEW x
          PROVE  /\ x \notin node.again => shown(x) <= 1
                 /\ x \in ToSet(channel_history(Store, c)) => shown(x) >= 1
      <3>1. PICK F, C : F = feed(x) /\ C = coming(x)
        OBVIOUS
      <3>2. /\ F = {k \in DOMAIN f : f[k] = x}
            /\ C = {k \in 1 .. Len(q) : Message(q[k]) /\ q[k].text = x}
        BY <2>4, <3>1
      <3>3. x \in ToSet(f) <=> F # {}
        BY <2>2, <3>2 DEF ToSet
      <3>4. x \in ToSet(channel_history(Store, c)) => F # {} \/ C # {}
        BY <2>3, <3>2, <3>3 DEF Reaches, channel_history
      <3>5. /\ Cardinality(F) \in Nat /\ Cardinality(C) \in Nat
            /\ F # {} => Cardinality(F) > 0
            /\ C # {} => Cardinality(C) > 0
        <4>1. IsFiniteSet(1 .. Len(f)) /\ IsFiniteSet(1 .. Len(q)) /\ F \subseteq 1 .. Len(f)
              /\ C \subseteq 1 .. Len(q)
          BY <2>1, <2>2, <3>2, FS_Interval
        <4>2. IsFiniteSet(F) /\ IsFiniteSet(C)
          BY <4>1, FS_Subset
        <4> QED BY <4>2, FS_CardinalityType, FS_EmptySet
      <3>6. ASSUME x \notin node.again
            PROVE  Cardinality(F) + Cardinality(C) <= 1
        <4>1. \A a, b \in F : a = b
          BY <2>3, <3>2, <3>6 DEF Apart
        <4>2. \A a, b \in C : a = b
          BY <2>3, <3>2, <3>6 DEF Single
        <4>3. F # {} => C = {}
          BY <2>3, <3>2, <3>3, <3>6 DEF Unseen
        <4>4. /\ F = {} => Cardinality(F) = 0
              /\ F # {} => Cardinality(F) = 1
          BY <4>1, AtMostOne
        <4>5. /\ C = {} => Cardinality(C) = 0
              /\ C # {} => Cardinality(C) = 1
          BY <4>2, AtMostOne
        <4> QED BY <4>3, <4>4, <4>5
      <3>7. shown(x) = Cardinality(F) + Cardinality(C)
        BY <3>1
      <3> HIDE DEF shown
      <3> QED BY <3>4, <3>5, <3>6, <3>7
    <2>6. /\ \A x \in ToSet(Store.chan[c]) \ node.again : shown(x) <= 1
          /\ \A x \in ToSet(channel_history(Store, c)) : shown(x) >= 1
      <3> HIDE DEF shown
      <3> QED BY <2>5
    <2> QED BY <2>6 DEF feed, coming
  <1> QED BY <1>3, <1>4, WellFormed, PTL

=============================================================================

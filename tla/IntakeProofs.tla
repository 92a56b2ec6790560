---------------------------- MODULE IntakeProofs ----------------------------
(***************************************************************************)
(* Proofs about Intake: the rate limiter lets in what it must and no more, *)
(* the cache makes a packet new once, and the Reassembler counts what it   *)
(* holds and hands on whole packets.                                       *)
(***************************************************************************)
EXTENDS Intake, FiniteSetTheorems, WellFoundedInduction, TLAPS

LEMMA MinTwo ==
  ASSUME NEW a \in Int, NEW b \in Int
  PROVE  Min({a, b}) = IF a <= b THEN a ELSE b
  <1>1. \E x \in {a, b} : \A y \in {a, b} : x <= y
    OBVIOUS
  <1>2. Min({a, b}) \in {a, b} /\ \A y \in {a, b} : Min({a, b}) <= y
    BY <1>1 DEF Min
  <1> QED BY <1>2

-----------------------------------------------------------------------------
(***************************************************************************)
(* The rate limiter.  What a bucket of an originator has spent since the   *)
(* i-th packet and still has is at most a burst and the refill since then, *)
(* and exactly that since one of the packets that were let in; and what    *)
(* greylists it is a packet that was one too many.                         *)
(***************************************************************************)
Taken == [packet : Packet, at : Nat, in : BOOLEAN]
Full == Burst * RefillTime
Tokens(n) == n * RefillTime
Bucket(x) == [tokens : 0 .. Full, last : 0 .. x, until : Nat]

Spent(s, i, n) == Tokens(Cardinality(LetIn(s, i, n)))

LEMMA RateTypes ==
  /\ Burst \in Nat /\ RefillTime \in Nat /\ RefillTime > 0 /\ Greylist \in Nat /\ SeenTtl \in Nat
  /\ Greylist > 0 /\ Full \in Nat /\ RefillTime <= Full
  <1>1. /\ Burst \in Nat /\ Burst > 0 /\ RefillTime \in Nat /\ RefillTime > 0
        /\ Greylist \in Nat /\ Greylist > 0 /\ SeenTtl \in Nat
    BY RateAssumption
  <1>2. Full \in Nat /\ RefillTime <= Full
    BY <1>1 DEF Full
  <1> QED BY <1>1, <1>2

LEMMA TooManySpent ==
  ASSUME NEW n \in Int, NEW t \in Int, NEW u \in Int
  PROVE  TooMany(n, t, u) <=> Tokens(n) - Full > u - t
  BY RateTypes DEF TooMany, Full, Tokens

LEMMA SpentMore ==
  ASSUME NEW n \in Int
  PROVE  Tokens(n + 1) = Tokens(n) + RefillTime /\ Tokens(n) \in Int
  BY RateTypes DEF Tokens

\* What refill and allow give.
LEMMA Refilled ==
  ASSUME now \in Nat, NEW b \in Bucket(now)
  PROVE  /\ refill(b) \in Bucket(now)
         /\ refill(b).last = now /\ refill(b).until = b.until
         /\ refill(b).tokens <= b.tokens + now - b.last
         /\ refill(b).tokens = Full
               \/ refill(b).tokens = b.tokens + now - b.last
  <1>1. /\ b.tokens \in Int /\ b.last \in Int /\ 0 <= b.tokens /\ b.last <= now
        /\ b.tokens + now - b.last \in Int /\ Full \in Int
        /\ Full >= 0
    BY RateTypes DEF Bucket
  <1> DEFINE k == Min({b.tokens + now - b.last, Full})
  <1>2. k = IF b.tokens + now - b.last <= Full
            THEN b.tokens + now - b.last ELSE Full
    BY <1>1, MinTwo
  <1>3. /\ k \in 0 .. Full /\ k <= b.tokens + now - b.last
        /\ k = Full \/ k = b.tokens + now - b.last
    BY <1>1, <1>2
  <1>4. refill(b) = [b EXCEPT !.tokens = k, !.last = now]
    BY DEF refill, Full
  <1> HIDE DEF k
  <1>5. refill(b) \in Bucket(now)
    <2>1. now \in 0 .. now
      OBVIOUS
    <2> QED BY <1>3, <1>4, <2>1 DEF Bucket
  <1>6. refill(b).tokens = k /\ refill(b).last = now /\ refill(b).until = b.until
    BY <1>4 DEF Bucket
  <1> QED BY <1>3, <1>5, <1>6

LEMMA Allowed ==
  ASSUME now \in Nat, NEW b \in Bucket(now)
  PROVE  /\ allow(b) \in Bucket(now)
         /\ \/ Greylisted(b) /\ ~Affords(b) /\ allow(b) = b
            \/ /\ Affords(b) /\ allow(b).last = now /\ allow(b).until = b.until
               /\ allow(b).tokens + RefillTime = refill(b).tokens
            \/ /\ ~Affords(b) /\ allow(b).last = now /\ allow(b).until = now + Greylist
               /\ allow(b).tokens = refill(b).tokens /\ refill(b).tokens < RefillTime
  <1>1. refill(b) \in Bucket(now) /\ refill(b).last = now /\ refill(b).until = b.until
    BY Refilled
  <1>2. refill(b).tokens \in Int /\ refill(b).tokens <= Full
    BY <1>1, RateTypes DEF Bucket
  <1>3. CASE Greylisted(b)
    BY <1>3 DEF allow, Affords
  <1>4. CASE Affords(b)
    <2>1. allow(b) = [refill(b) EXCEPT !.tokens = refill(b).tokens - RefillTime]
      BY <1>4 DEF allow, charge, Affords
    <2>2. refill(b).tokens - RefillTime \in 0 .. Full
      BY <1>2, <1>4, RateTypes DEF Affords
    <2>3. /\ allow(b) \in Bucket(now) /\ allow(b).last = now /\ allow(b).until = b.until
          /\ allow(b).tokens = refill(b).tokens - RefillTime
      BY <1>1, <2>1, <2>2 DEF Bucket
    <2> QED BY <1>2, <1>4, <2>3, RateTypes
  <1>5. CASE ~Greylisted(b) /\ ~Affords(b)
    <2>1. allow(b) = [refill(b) EXCEPT !.until = now + Greylist]
      BY <1>5 DEF allow
    <2>2. now + Greylist \in Nat
      BY RateTypes
    <2>3. refill(b).tokens < RefillTime
      BY <1>2, <1>5, RateTypes DEF Affords
    <2> QED BY <1>1, <1>5, <2>1, <2>2, <2>3 DEF Bucket
  <1> QED BY <1>3, <1>4, <1>5

\* What one more packet changes.
One(e, s) == e.in /\ Sender[e.packet] = s

LEMMA LetInFinite ==
  ASSUME NEW s, NEW i \in Int, NEW j \in Int
  PROVE  /\ IsFiniteSet(LetIn(s, i, j)) /\ Cardinality(LetIn(s, i, j)) \in Nat
  <1>1. IsFiniteSet(i .. j)
    BY FS_Interval
  <1>2. LetIn(s, i, j) \in SUBSET (i .. j)
    BY DEF LetIn
  <1>3. IsFiniteSet(LetIn(s, i, j))
    BY <1>1, <1>2, FS_Subset
  <1> QED BY <1>3, FS_CardinalityType

LEMMA OneMoreTaken ==
  ASSUME taken \in Seq(Taken), NEW e \in Taken, taken' = Append(taken, e),
         NEW N \in Nat, N = Len(taken)
  PROVE  /\ taken' \in Seq(Taken) /\ Len(taken') = N + 1
         /\ \A k \in 1 .. N : taken'[k] = taken[k]
         /\ taken'[N + 1] = e
         /\ \A s : \A i, j \in 1 .. N : LetIn(s, i, j)' = LetIn(s, i, j)
         /\ \A s : LetIn(s, 1, N + 1)' = LetIn(s, 1, N) \cup
                      (IF One(e, s) THEN {N + 1} ELSE {})
         /\ \A s : \A i \in 1 .. N + 1 :
               /\ Cardinality(LetIn(s, i, N + 1)') =
                     IF One(e, s) THEN Cardinality(LetIn(s, i, N)) + 1
                     ELSE Cardinality(LetIn(s, i, N))
               /\ Cardinality(LetIn(s, i, N)) \in Nat
         /\ \A s : Cardinality(LetIn(s, N + 1, N)) = 0
         /\ \A k \in 1 .. N : OneTooMany(k)' <=> OneTooMany(k)
  <1>1. /\ taken' \in Seq(Taken) /\ Len(taken') = N + 1
        /\ \A k \in 1 .. N : taken'[k] = taken[k]
        /\ taken'[N + 1] = e
    OBVIOUS
  <1>2. ASSUME NEW s, NEW i \in Int, NEW j \in Int, 1 <= i, j <= N
        PROVE  LetIn(s, i, j)' = LetIn(s, i, j)
    BY <1>1, <1>2 DEF LetIn
  <1>3. ASSUME NEW s, NEW i \in 1 .. N + 1
        PROVE  LetIn(s, i, N + 1)' = LetIn(s, i, N) \cup (IF One(e, s) THEN {N + 1} ELSE {})
    <2>1. i .. N + 1 = (i .. N) \cup {N + 1}
      BY <1>1, <1>3
    <2>2. \A k \in i .. N : taken'[k] = taken[k] /\ k # N + 1
      BY <1>1, <1>3
    <2> SUFFICES ASSUME NEW k
                 PROVE  k \in LetIn(s, i, N + 1)' <=>
                           k \in LetIn(s, i, N) \/ (One(e, s) /\ k = N + 1)
      OBVIOUS
    <2> QED BY <1>1, <2>1, <2>2 DEF LetIn, One
  <1>4. ASSUME NEW s, NEW i \in 1 .. N + 1
        PROVE  /\ Cardinality(LetIn(s, i, N + 1)') =
                     IF One(e, s) THEN Cardinality(LetIn(s, i, N)) + 1
                     ELSE Cardinality(LetIn(s, i, N))
               /\ Cardinality(LetIn(s, i, N)) \in Nat
    <2>1. IsFiniteSet(LetIn(s, i, N)) /\ Cardinality(LetIn(s, i, N)) \in Nat
      BY <1>1, <1>4, LetInFinite
    <2>2. N + 1 \notin LetIn(s, i, N)
      BY <1>1 DEF LetIn
    <2>3. Cardinality(LetIn(s, i, N) \cup {N + 1}) = Cardinality(LetIn(s, i, N)) + 1
      BY <2>1, <2>2, FS_AddElement
    <2>4. LetIn(s, i, N + 1)' = LetIn(s, i, N) \cup (IF One(e, s) THEN {N + 1} ELSE {})
      BY <1>3
    <2>5. CASE One(e, s)
      <3>1. LetIn(s, i, N + 1)' = LetIn(s, i, N) \cup {N + 1}
        BY <2>4, <2>5
      <3> QED BY <2>1, <2>3, <2>5, <3>1
    <2>6. CASE ~One(e, s)
      <3>1. LetIn(s, i, N + 1)' = LetIn(s, i, N)
        BY <2>4, <2>6
      <3> QED BY <2>1, <2>6, <3>1
    <2> QED BY <2>5, <2>6
  <1>5. \A s : Cardinality(LetIn(s, N + 1, N)) = 0
    <2> SUFFICES ASSUME NEW s
                 PROVE  Cardinality(LetIn(s, N + 1, N)) = 0
      OBVIOUS
    <2>1. LetIn(s, N + 1, N) = {}
      BY <1>1 DEF LetIn
    <2> QED BY <2>1, FS_EmptySet
  <1>6. ASSUME NEW k \in 1 .. N
        PROVE  OneTooMany(k)' <=> OneTooMany(k)
    <2>1. taken'[k] = taken[k] /\ k - 1 \in Int /\ k - 1 <= N
      BY <1>1, <1>6
    <2>2. PICK s : s = Sender[taken[k].packet]
      OBVIOUS
    <2>3. LetIn(s, 1, k - 1)' = LetIn(s, 1, k - 1)
      BY <1>2, <2>1
    <2>4. ASSUME NEW i \in LetIn(s, 1, k - 1)
          PROVE  LetIn(s, i, k - 1)' = LetIn(s, i, k - 1) /\ taken'[i] = taken[i]
      <3>1. i \in 1 .. k - 1
        BY <2>4 DEF LetIn
      <3>2. i \in Int /\ 1 <= i /\ i \in 1 .. N
        BY <2>1, <3>1
      <3>3. LetIn(s, i, k - 1)' = LetIn(s, i, k - 1)
        BY <1>2, <2>1, <3>2
      <3> QED BY <1>1, <3>2, <3>3
    <2>5. Sender[taken'[k].packet] = s
      BY <2>1, <2>2
    <2> QED BY <2>1, <2>2, <2>3, <2>4, <2>5 DEF OneTooMany
  <1>7. \A s : \A i, j \in 1 .. N : LetIn(s, i, j)' = LetIn(s, i, j)
    BY <1>1, <1>2
  <1>8. \A s : LetIn(s, 1, N + 1)' = LetIn(s, 1, N) \cup (IF One(e, s) THEN {N + 1} ELSE {})
    BY <1>1, <1>3
  <1> QED BY <1>1, <1>4, <1>5, <1>6, <1>7, <1>8

\* The facts of the invariant about a bucket, whichever packets came.
Fits(s, b, n) ==
    /\ b \in Bucket(now)
    /\ \A i \in LetIn(s, 1, n) : Spent(s, i, n) + b.tokens <= Full + b.last - taken[i].at
    /\ \E i \in LetIn(s, 1, n) : Spent(s, i, n) + b.tokens = Full + b.last - taken[i].at
    /\ b.until # 0 => \E j \in 1 .. n :
          /\ Sender[taken[j].packet] = s /\ ~taken[j].in /\ OneTooMany(j)
          /\ b.until = taken[j].at + Greylist

\* A packet of another originator, or one that is refused, spends nothing.
LEMMA NotSpent ==
  ASSUME taken \in Seq(Taken), NEW e \in Taken, taken' = Append(taken, e),
         NEW N \in Nat, N = Len(taken), NEW s, ~One(e, s)
  PROVE  /\ LetIn(s, 1, N + 1)' = LetIn(s, 1, N)
         /\ \A i \in LetIn(s, 1, N) : Spent(s, i, N + 1)' = Spent(s, i, N) /\ taken'[i] = taken[i]
  <1>1. LetIn(s, 1, N + 1)' = LetIn(s, 1, N)
    <2>1. LetIn(s, 1, N + 1)' = LetIn(s, 1, N) \cup (IF One(e, s) THEN {N + 1} ELSE {})
      BY OneMoreTaken
    <2> QED BY <2>1
  <1>2. ASSUME NEW i \in LetIn(s, 1, N)
        PROVE  Spent(s, i, N + 1)' = Spent(s, i, N) /\ taken'[i] = taken[i]
    <2>1. i \in 1 .. N /\ i \in 1 .. N + 1
      BY <1>2 DEF LetIn
    <2>2. Cardinality(LetIn(s, i, N + 1)') = Cardinality(LetIn(s, i, N)) /\ taken'[i] = taken[i]
      BY <2>1, OneMoreTaken
    <2> QED BY <2>2 DEF Spent
  <1> QED BY <1>1, <1>2

Costs(s, n) ==
    \A i \in LetIn(s, 1, n) :
        Spent(s, i, n + 1)' = Spent(s, i, n) + RefillTime /\ taken'[i] = taken[i]

\* One that is let in spends a token.
LEMMA OneSpent ==
  ASSUME taken \in Seq(Taken), NEW e \in Taken, taken' = Append(taken, e),
         NEW N \in Nat, N = Len(taken), NEW s, One(e, s)
  PROVE  /\ LetIn(s, 1, N + 1)' = LetIn(s, 1, N) \cup {N + 1}
         /\ Costs(s, N)
         /\ Spent(s, N + 1, N + 1)' = RefillTime /\ taken'[N + 1] = e
  <1>1. LetIn(s, 1, N + 1)' = LetIn(s, 1, N) \cup {N + 1}
    BY OneMoreTaken
  <1>2. ASSUME NEW i \in LetIn(s, 1, N)
        PROVE  Spent(s, i, N + 1)' = Spent(s, i, N) + RefillTime /\ taken'[i] = taken[i]
    <2>1. i \in 1 .. N /\ i \in 1 .. N + 1
      BY <1>2 DEF LetIn
    <2>2. /\ Cardinality(LetIn(s, i, N + 1)') = Cardinality(LetIn(s, i, N)) + 1
          /\ taken'[i] = taken[i] /\ Cardinality(LetIn(s, i, N)) \in Nat
      BY <2>1, OneMoreTaken
    <2> QED BY <2>2, SpentMore DEF Spent
  <1>3. Spent(s, N + 1, N + 1)' = RefillTime /\ taken'[N + 1] = e
    <2>1. N + 1 \in 1 .. N + 1
      OBVIOUS
    <2>2. /\ Cardinality(LetIn(s, N + 1, N + 1)') = Cardinality(LetIn(s, N + 1, N)) + 1
          /\ Cardinality(LetIn(s, N + 1, N)) = 0 /\ taken'[N + 1] = e
      BY <2>1, OneMoreTaken
    <2>3. Cardinality(LetIn(s, N + 1, N + 1)') = 1
      BY <2>2
    <2> QED BY <2>2, <2>3, RateTypes DEF Spent, Tokens
  <1> QED BY <1>1, <1>2, <1>3 DEF Costs

\* The other originators.
LEMMA FitsOther ==
  ASSUME taken \in Seq(Taken), NEW e \in Taken, taken' = Append(taken, e), now' = now,
         NEW N \in Nat, N = Len(taken), NEW s, ~One(e, s), NEW b, Fits(s, b, N)
  PROVE  Fits(s, b, N + 1)'
  <1>1. /\ LetIn(s, 1, N + 1)' = LetIn(s, 1, N)
        /\ \A i \in LetIn(s, 1, N) : Spent(s, i, N + 1)' = Spent(s, i, N) /\ taken'[i] = taken[i]
    BY NotSpent
  <1>2. \A j \in 1 .. N : taken'[j] = taken[j] /\ (OneTooMany(j)' <=> OneTooMany(j))
    BY OneMoreTaken
  <1>3. b \in Bucket(now)'
    BY DEF Fits, Bucket
  <1>4. b.until # 0 => \E j \in 1 .. N + 1 :
          /\ Sender[taken'[j].packet] = s /\ ~taken'[j].in /\ OneTooMany(j)'
          /\ b.until = taken'[j].at + Greylist
    <2> SUFFICES ASSUME b.until # 0
                 PROVE  \E j \in 1 .. N + 1 :
          /\ Sender[taken'[j].packet] = s /\ ~taken'[j].in /\ OneTooMany(j)'
          /\ b.until = taken'[j].at + Greylist
      OBVIOUS
    <2>1. PICK j \in 1 .. N :
          /\ Sender[taken[j].packet] = s /\ ~taken[j].in /\ OneTooMany(j)
          /\ b.until = taken[j].at + Greylist
      BY DEF Fits
    <2>2. j \in 1 .. N + 1
      OBVIOUS
    <2> QED BY <1>2, <2>1, <2>2
  <1>5. \A i \in LetIn(s, 1, N + 1)' :
           Spent(s, i, N + 1)' + b.tokens <= Full + b.last - taken'[i].at
    BY <1>1 DEF Fits
  <1>6. \E i \in LetIn(s, 1, N + 1)' :
           Spent(s, i, N + 1)' + b.tokens = Full + b.last - taken'[i].at
    BY <1>1 DEF Fits
  <1> QED BY <1>3, <1>4, <1>5, <1>6 DEF Fits

LEMMA AtMostSum ==
  ASSUME NEW x \in Int, NEW y \in Int, NEW z \in Int, NEW f \in Int, NEW l \in Int,
         NEW n \in Int, NEW t \in Int, z <= y + n - l, x + y <= f + l - t
  PROVE  x + z <= f + n - t
  OBVIOUS

LEMMA AtLeastSum ==
  ASSUME NEW x \in Int, NEW y \in Int, NEW z \in Int, NEW f \in Int, NEW l \in Int,
         NEW n \in Int, NEW t \in Int, z >= y + n - l, x + y >= f + l - t
  PROVE  x + z >= f + n - t
  OBVIOUS

Balanced(x, z, f, n, t) == x + z = f + n - t

LEMMA SameSum ==
  ASSUME NEW x \in Int, NEW z \in Int, NEW f \in Int, NEW n \in Int, NEW t \in Int,
         x + z >= f + n - t, x + z <= f + n - t
  PROVE  Balanced(x, z, f, n, t)
  BY DEF Balanced

LEMMA OverSum ==
  ASSUME NEW x \in Int, NEW z \in Int, NEW f \in Int, NEW r \in Int,
         NEW n \in Int, NEW t \in Int, z < r, x + z = f + n - t
  PROVE  (x + r) - f > n - t
  OBVIOUS

LEMMA TakenAt ==
  ASSUME NEW e \in Taken
  PROVE  e.at \in Int
  BY DEF Taken

LEMMA WithinSum ==
  ASSUME NEW x \in Int, NEW z \in Int, NEW f \in Int, NEW l \in Int,
         NEW n \in Int, NEW t \in Int, x + z <= f + l - t, 0 <= z, l <= n
  PROVE  ~(x - f > n - t)
  OBVIOUS

LEMMA LastTooMany ==
  ASSUME NEW N \in Nat, NEW s, Sender[taken'[N + 1].packet] = s, NEW i \in LetIn(s, 1, N)',
         TooMany(Cardinality(LetIn(s, i, N)') + 1, taken'[i].at, taken'[N + 1].at)
  PROVE  OneTooMany(N + 1)'
  <1>1. (N + 1) - 1 = N
    OBVIOUS
  <1> QED BY <1>1 DEF OneTooMany, LetIn

\* The originator of the packet.
LEMMA FitsOwn ==
  ASSUME taken \in Seq(Taken), NEW e \in Taken, taken' = Append(taken, e),
         now \in Nat, now' = now, NEW N \in Nat, N = Len(taken),
         NEW s, Sender[e.packet] = s, e.at = now, NEW b \in Bucket(now), e.in <=> Affords(b),
         NEW a, a = allow(b),
         Fits(s, b, N) \/ (b.tokens = Full /\ b.until = 0 /\ LetIn(s, 1, N) = {})
  PROVE  Fits(s, a, N + 1)'
  <1>1. Full \in Nat /\ RefillTime \in Nat /\ RefillTime > 0 /\ RefillTime <= Full
    BY RateTypes
  <1>2. /\ refill(b).tokens <= b.tokens + now - b.last
        /\ refill(b).tokens = Full \/ refill(b).tokens = b.tokens + now - b.last
        /\ refill(b).tokens \in Int /\ refill(b).tokens <= Full
    <2>1. refill(b) \in Bucket(now)
      BY Refilled
    <2>2. refill(b).tokens \in Int /\ refill(b).tokens <= Full
      BY <1>1, <2>1 DEF Bucket
    <2> QED BY <2>2, Refilled
  <1>3. b.tokens \in Int /\ b.last \in Int /\ b.last <= now /\ b.tokens <= Full /\ b.until \in Nat
    BY <1>1 DEF Bucket
  <1>4. a \in Bucket(now)' /\ a \in Bucket(now)
    BY Allowed DEF Bucket
  <1>5. a.tokens \in Int /\ 0 <= a.tokens
    BY <1>1, <1>4 DEF Bucket
  <1>6. \A i \in LetIn(s, 1, N) : taken[i].at \in Int /\ Spent(s, i, N) \in Int
    <2> SUFFICES ASSUME NEW i \in LetIn(s, 1, N)
                 PROVE  taken[i].at \in Int /\ Spent(s, i, N) \in Int
      OBVIOUS
    <2>1. i \in 1 .. N /\ i \in Int
      BY DEF LetIn
    <2>2. taken[i].at \in Int
      <3>1. taken[i] \in Taken
        BY <2>1
      <3> QED BY <3>1 DEF Taken
    <2>3. Cardinality(LetIn(s, i, N)) \in Nat
      BY <2>1, LetInFinite
    <2> QED BY <2>2, <2>3, SpentMore DEF Spent
  <1>7. \A j \in 1 .. N : taken'[j] = taken[j] /\ (OneTooMany(j)' <=> OneTooMany(j))
    BY OneMoreTaken
  <1>8. \A i \in LetIn(s, 1, N) : Spent(s, i, N) + b.tokens <= Full + b.last - taken[i].at
    BY DEF Fits
  <1>9. (\E i \in LetIn(s, 1, N) : Spent(s, i, N) + b.tokens = Full + b.last - taken[i].at)
        \/ b.tokens = Full
    BY DEF Fits
  <1>15. ASSUME NEW i \in LetIn(s, 1, N)
         PROVE  Spent(s, i, N) + refill(b).tokens <= Full + now - taken[i].at
    <2>1. Spent(s, i, N) + b.tokens <= Full + b.last - taken[i].at
      BY <1>8
    <2>2. /\ Spent(s, i, N) \in Int /\ taken[i].at \in Int /\ b.tokens \in Int
          /\ b.last \in Int /\ now \in Int /\ refill(b).tokens \in Int /\ Full \in Int
          /\ refill(b).tokens <= b.tokens + now - b.last
      BY <1>1, <1>2, <1>3, <1>6
    <2> QED BY <2>1, <2>2, AtMostSum, Zenon
  <1>16. ASSUME refill(b).tokens # Full
         PROVE  \E i \in LetIn(s, 1, N) : Spent(s, i, N) + refill(b).tokens = Full + now - taken[i].at
    <2>1. refill(b).tokens = b.tokens + now - b.last /\ b.tokens # Full
      BY <1>1, <1>2, <1>3, <1>16
    <2>2. PICK i \in LetIn(s, 1, N) : Spent(s, i, N) + b.tokens = Full + b.last - taken[i].at
      BY <1>9, <2>1
    <2>3. /\ Spent(s, i, N) \in Int /\ taken[i].at \in Int /\ b.tokens \in Int
          /\ b.last \in Int /\ now \in Int /\ refill(b).tokens \in Int /\ Full \in Int
          /\ refill(b).tokens <= b.tokens + now - b.last
      BY <1>1, <1>2, <1>3, <1>6
    <2>4. Spent(s, i, N) + refill(b).tokens = Full + now - taken[i].at
      <3>1. /\ refill(b).tokens >= b.tokens + now - b.last
            /\ Spent(s, i, N) + b.tokens >= Full + b.last - taken[i].at
        BY <2>1, <2>2, <2>3
      <3>2. Spent(s, i, N) + refill(b).tokens >= Full + now - taken[i].at
        BY <2>3, <3>1, AtLeastSum, Zenon
      <3>3. Spent(s, i, N) + refill(b).tokens <= Full + now - taken[i].at
        BY <1>15
      <3>4. Balanced(Spent(s, i, N), refill(b).tokens, Full, now, taken[i].at)
        BY <2>3, <3>2, <3>3, SameSum, Zenon
      <3> QED BY <3>4, Zenon DEF Balanced
    <2> QED BY <2>4
  <1>10. a.until = b.until /\ b.until # 0 => \E j \in 1 .. N + 1 :
          /\ Sender[taken'[j].packet] = s /\ ~taken'[j].in /\ OneTooMany(j)'
          /\ a.until = taken'[j].at + Greylist
    <2> SUFFICES ASSUME a.until = b.until, b.until # 0
                 PROVE  \E j \in 1 .. N + 1 :
          /\ Sender[taken'[j].packet] = s /\ ~taken'[j].in /\ OneTooMany(j)'
          /\ a.until = taken'[j].at + Greylist
      OBVIOUS
    <2>1. PICK j \in 1 .. N :
          /\ Sender[taken[j].packet] = s /\ ~taken[j].in /\ OneTooMany(j)
          /\ b.until = taken[j].at + Greylist
      BY DEF Fits
    <2>2. j \in 1 .. N + 1
      OBVIOUS
    <2> QED BY <1>7, <2>1, <2>2
  <1>11. \/ Greylisted(b) /\ ~Affords(b) /\ a = b
         \/ /\ Affords(b) /\ a.last = now /\ a.until = b.until
            /\ a.tokens + RefillTime = refill(b).tokens
         \/ /\ ~Affords(b) /\ a.last = now /\ a.until = now + Greylist
            /\ a.tokens = refill(b).tokens /\ refill(b).tokens < RefillTime
    BY Allowed
  <1>12. CASE Greylisted(b) /\ ~Affords(b) /\ a = b
    <2>1. b.until # 0
      BY <1>12 DEF Greylisted
    <2>2. Fits(s, b, N) /\ ~One(e, s)
      BY <1>12, <2>1 DEF One
    <2> QED BY <1>12, <2>2, FitsOther
  <1>13. CASE /\ Affords(b) /\ a.last = now /\ a.until = b.until
              /\ a.tokens + RefillTime = refill(b).tokens
    <2>1. One(e, s)
      BY <1>13 DEF One
    <2>2. LetIn(s, 1, N + 1)' = LetIn(s, 1, N) \cup {N + 1}
      BY <2>1, OneSpent
    <2>3. Spent(s, N + 1, N + 1)' = RefillTime /\ taken'[N + 1] = e
      BY <2>1, OneSpent
    <2>8. Costs(s, N)
      BY <2>1, OneSpent
    <2>4. ASSUME NEW i \in LetIn(s, 1, N)
          PROVE  /\ Spent(s, i, N + 1)' + a.tokens = Spent(s, i, N) + refill(b).tokens
                 /\ taken'[i] = taken[i]
      <3>1. Spent(s, i, N + 1)' = Spent(s, i, N) + RefillTime /\ taken'[i] = taken[i]
        BY <2>4, <2>8, Zenon DEF Costs
      <3>2. Spent(s, i, N) \in Int
        BY <1>6
      <3> QED BY <1>1, <1>5, <1>13, <3>1, <3>2
    <2>5. Spent(s, N + 1, N + 1)' + a.tokens = refill(b).tokens
      BY <1>1, <1>5, <1>13, <2>3
    <2>6. ASSUME NEW i \in LetIn(s, 1, N + 1)'
          PROVE  Spent(s, i, N + 1)' + a.tokens <= Full + a.last - taken'[i].at
      <3>1. CASE i \in LetIn(s, 1, N)
        BY <1>13, <1>15, <2>4, <3>1
      <3>2. CASE i = N + 1
        BY <1>1, <1>2, <1>13, <2>3, <2>5, <3>2
      <3> QED BY <2>2, <2>6, <3>1, <3>2
    <2>7. \E i \in LetIn(s, 1, N + 1)' :
             Spent(s, i, N + 1)' + a.tokens = Full + a.last - taken'[i].at
      <3>1. CASE refill(b).tokens = Full
        <4>1. Spent(s, N + 1, N + 1)' + a.tokens = Full + a.last - taken'[N + 1].at
          BY <1>1, <1>13, <2>3, <2>5, <3>1
        <4> QED BY <2>2, <4>1
      <3>2. CASE refill(b).tokens # Full
        <4>1. PICK i \in LetIn(s, 1, N) : Spent(s, i, N) + refill(b).tokens = Full + now - taken[i].at
          BY <1>16, <3>2
        <4> QED BY <1>13, <2>2, <2>4, <4>1
      <3> QED BY <3>1, <3>2
    <2> QED BY <1>4, <1>10, <1>13, <2>6, <2>7 DEF Fits
  <1>14. CASE /\ ~Affords(b) /\ a.last = now /\ a.until = now + Greylist
              /\ a.tokens = refill(b).tokens /\ refill(b).tokens < RefillTime
    <2>1. ~One(e, s) /\ ~e.in
      BY <1>14 DEF One
    <2>2. LetIn(s, 1, N + 1)' = LetIn(s, 1, N)
      BY <2>1, NotSpent
    <2>3. \A i \in LetIn(s, 1, N) :
             Spent(s, i, N + 1)' = Spent(s, i, N) /\ taken'[i] = taken[i]
      BY <2>1, NotSpent
    <2>4. \A i \in LetIn(s, 1, N) :
             Spent(s, i, N + 1)' + a.tokens <= Full + a.last - taken'[i].at
      BY <1>14, <1>15, <2>3
    <2>5. refill(b).tokens # Full
      BY <1>1, <1>2, <1>14
    <2>6. PICK i \in LetIn(s, 1, N) : Spent(s, i, N) + refill(b).tokens = Full + now - taken[i].at
      BY <1>16, <2>5
    <2>7. Spent(s, i, N + 1)' + a.tokens = Full + a.last - taken'[i].at
      BY <1>14, <2>3, <2>6
    <2>8. OneTooMany(N + 1)'
      <3>1. taken'[N + 1] = e /\ taken'[i] = taken[i]
        BY <2>3, OneMoreTaken
      <3>2. i \in 1 .. N
        BY DEF LetIn
      <3>3. LetIn(s, 1, N)' = LetIn(s, 1, N) /\ LetIn(s, i, N)' = LetIn(s, i, N)
        <4>1. 1 \in 1 .. N /\ N \in 1 .. N
          BY <3>2
        <4> QED BY <3>2, <4>1, OneMoreTaken
      <3>4. PICK c : c = Cardinality(LetIn(s, i, N))
        OBVIOUS
      <3>5. c \in Nat /\ Spent(s, i, N) = Tokens(c)
        BY <3>2, <3>4, LetInFinite DEF Spent
      <3>6. TooMany(c + 1, taken[i].at, now)
        <4>1. TooMany(c + 1, taken[i].at, now) <=>
                  Tokens(c + 1) - Full > now - taken[i].at
          <5>1. c + 1 \in Int /\ taken[i].at \in Int /\ now \in Int
            BY <1>6, <3>5
          <5> QED BY <5>1, TooManySpent, Zenon
        <4>2. Tokens(c + 1) = Spent(s, i, N) + RefillTime /\ Spent(s, i, N) \in Int
          BY <1>6, <3>5, SpentMore
        <4>3. /\ taken[i].at \in Int /\ now \in Int /\ refill(b).tokens \in Int
              /\ Full \in Int /\ RefillTime \in Int /\ refill(b).tokens < RefillTime
          BY <1>1, <1>2, <1>6, <1>14
        <4>4. (Spent(s, i, N) + RefillTime) - Full > now - taken[i].at
          BY <2>6, <4>2, <4>3, OverSum, Zenon
        <4> QED BY <4>1, <4>2, <4>4, Zenon
      <3>7. N + 1 - 1 = N
        OBVIOUS
      <3>8. taken'[N + 1].at = now /\ Sender[taken'[N + 1].packet] = s
        BY <3>1
      <3>9. TooMany(Cardinality(LetIn(s, i, N)') + 1, taken'[i].at, taken'[N + 1].at)
        BY <3>1, <3>3, <3>4, <3>6, <3>8, Zenon
      <3>10. i \in LetIn(s, 1, N)'
        BY <3>3
      <3> QED BY <3>8, <3>9, <3>10, LastTooMany
    <2>9. \E j \in 1 .. N + 1 :
            /\ Sender[taken'[j].packet] = s /\ ~taken'[j].in /\ OneTooMany(j)'
            /\ a.until = taken'[j].at + Greylist
      <3>1. taken'[N + 1] = e /\ N + 1 \in 1 .. N + 1
        BY OneMoreTaken
      <3> QED BY <1>14, <2>1, <2>8, <3>1
    <2> QED BY <1>4, <2>2, <2>4, <2>7, <2>9 DEF Fits
  <1> QED BY <1>11, <1>12, <1>13, <1>14

-----------------------------------------------------------------------------
(***************************************************************************)
(* The invariant of the rate limiter, of the n packets that came.          *)
(***************************************************************************)
Held(n) ==
    \A s : \A i, j \in LetIn(s, 1, n) :
        i <= j => ~TooMany(Cardinality(LetIn(s, i, j)), taken[i].at, taken[j].at)

Refused(n) ==
    \A k \in 1 .. n : ~taken[k].in =>
        \E j \in 1 .. k : /\ Sender[taken[j].packet] = Sender[taken[k].packet]
                          /\ ~taken[j].in /\ OneTooMany(j)
                          /\ j = k \/ taken[k].at < taken[j].at + Greylist

Rated(n) ==
    /\ n = Len(taken)
    /\ \A k \in 1 .. n : taken[k].at <= now /\ Sender[taken[k].packet] \in DOMAIN buckets
    /\ \A s \in DOMAIN buckets : \E b : b = buckets[s] /\ Fits(s, b, n)
    /\ Held(n) /\ Refused(n)

RateInv == now \in Nat /\ taken \in Seq(Taken) /\ \E n \in Nat : Rated(n)

\* A bucket that has paid for the packets of s up to the last one bounds them.
LEMMA HeldStep ==
  ASSUME taken \in Seq(Taken), NEW e \in Taken, taken' = Append(taken, e),
         now \in Nat, now' = now, NEW N \in Nat, N = Len(taken), e.at = now, Held(N),
         NEW a, Fits(Sender[e.packet], a, N + 1)'
  PROVE  Held(N + 1)'
  <1> SUFFICES ASSUME NEW s, NEW i \in LetIn(s, 1, N + 1)', NEW j \in LetIn(s, 1, N + 1)', i <= j
               PROVE  ~TooMany(Cardinality(LetIn(s, i, j)'), taken'[i].at, taken'[j].at)
    BY DEF Held
  <1>1. LetIn(s, 1, N + 1)' = LetIn(s, 1, N) \cup (IF One(e, s) THEN {N + 1} ELSE {})
    BY OneMoreTaken
  <1>2. /\ \A k \in 1 .. N : taken'[k] = taken[k]
        /\ taken'[N + 1] = e
    BY OneMoreTaken
  <1>3. LetIn(s, 1, N) \subseteq 1 .. N
    BY DEF LetIn
  <1>4. i \in 1 .. N + 1 /\ j \in 1 .. N + 1
    BY <1>1, <1>3
  <1>5. CASE j \in LetIn(s, 1, N)
    <2>1. i \in 1 .. N /\ j \in 1 .. N /\ i # N + 1
      BY <1>3, <1>4, <1>5
    <2>2. i \in LetIn(s, 1, N)
      BY <1>1, <2>1
    <2>3. LetIn(s, i, j)' = LetIn(s, i, j)
      BY <2>1, OneMoreTaken
    <2>4. ~TooMany(Cardinality(LetIn(s, i, j)), taken[i].at, taken[j].at)
      BY <1>5, <2>2 DEF Held
    <2> QED BY <1>2, <2>1, <2>3, <2>4, Zenon
  <1>6. CASE j \notin LetIn(s, 1, N)
    <2>1. One(e, s) /\ j = N + 1
      BY <1>1, <1>6
    <2>2. s = Sender[e.packet]
      BY <2>1 DEF One
    <2>3. /\ Spent(s, i, N + 1)' + a.tokens <= Full + a.last - taken'[i].at
          /\ a \in Bucket(now')
      BY <2>2 DEF Fits
    <2>4. a.tokens \in Int /\ a.last \in Int /\ 0 <= a.tokens /\ a.last <= now
      BY <2>3, RateTypes DEF Bucket
    <2>5. PICK c : c = Cardinality(LetIn(s, i, N + 1)')
      OBVIOUS
    <2>6. c \in Int
      <3>1. Cardinality(LetIn(s, i, N + 1)') =
                     IF One(e, s) THEN Cardinality(LetIn(s, i, N)) + 1
                     ELSE Cardinality(LetIn(s, i, N))
        BY <1>4, OneMoreTaken
      <3>2. Cardinality(LetIn(s, i, N)) \in Nat
        BY <1>4, OneMoreTaken
      <3> QED BY <2>5, <3>1, <3>2
    <2>7. taken'[i] \in Taken
      <3>1. taken' \in Seq(Taken) /\ Len(taken') = N + 1
        BY OneMoreTaken
      <3> QED BY <1>4, <3>1
    <2>8. taken'[i].at \in Int /\ Full \in Int /\ Tokens(c) \in Int
      <3>1. taken'[i].at \in Int
        BY <2>7, TakenAt, Zenon
      <3>2. Tokens(c) \in Int
        BY <2>6, SpentMore, Zenon
      <3>3. Full \in Int
        BY RateTypes
      <3> QED BY <3>1, <3>2, <3>3
    <2>9. Tokens(c) + a.tokens <= Full + a.last - taken'[i].at
      BY <2>3, <2>5 DEF Spent
    <2>10. ~(Tokens(c) - Full > now - taken'[i].at)
      <3>1. now \in Int
        OBVIOUS
      <3> QED BY <2>4, <2>8, <2>9, <3>1, WithinSum, Zenon
    <2>11. ~TooMany(c, taken'[i].at, now)
      <3>1. now \in Int
        OBVIOUS
      <3> QED BY <2>6, <2>8, <2>10, <3>1, TooManySpent, Zenon
    <2>12. taken'[j].at = now /\ LetIn(s, i, j)' = LetIn(s, i, N + 1)'
      BY <1>2, <2>1 DEF LetIn
    <2> QED BY <2>5, <2>11, <2>12
  <1> QED BY <1>5, <1>6

\* What is refused was one too many or came while that one was being paid for.
LEMMA RefusedStep ==
  ASSUME taken \in Seq(Taken), NEW e \in Taken, taken' = Append(taken, e),
         now \in Nat, now' = now, NEW N \in Nat, N = Len(taken), e.at = now, Refused(N),
         NEW a, Fits(Sender[e.packet], a, N + 1)', ~e.in => now < a.until
  PROVE  Refused(N + 1)'
  <1>1. /\ \A k \in 1 .. N : taken'[k] = taken[k] /\ (OneTooMany(k)' <=> OneTooMany(k))
        /\ taken'[N + 1] = e
    BY OneMoreTaken
  <1> SUFFICES ASSUME NEW k \in 1 .. N + 1, ~taken'[k].in
               PROVE  \E j \in 1 .. k :
                          /\ Sender[taken'[j].packet] = Sender[taken'[k].packet]
                          /\ ~taken'[j].in /\ OneTooMany(j)'
                          /\ j = k \/ taken'[k].at < taken'[j].at + Greylist
    BY DEF Refused
  <1>2. CASE k \in 1 .. N
    <2>1. PICK j \in 1 .. k : /\ Sender[taken[j].packet] = Sender[taken[k].packet]
                              /\ ~taken[j].in /\ OneTooMany(j)
                              /\ j = k \/ taken[k].at < taken[j].at + Greylist
      BY <1>1, <1>2 DEF Refused
    <2>2. j \in 1 .. N
      BY <1>2
    <2> QED BY <1>1, <1>2, <2>1, <2>2
  <1>3. CASE k = N + 1
    <2>1. ~e.in /\ now < a.until
      BY <1>1, <1>3
    <2>2. a.until # 0
      BY <2>1
    <2>3. PICK j \in 1 .. N + 1 :
             /\ Sender[taken'[j].packet] = Sender[e.packet] /\ ~taken'[j].in /\ OneTooMany(j)'
             /\ a.until = taken'[j].at + Greylist
      BY <2>2 DEF Fits
    <2>4. taken'[k].at < taken'[j].at + Greylist
      BY <1>1, <1>3, <2>1, <2>3
    <2> QED BY <1>1, <1>3, <2>3, <2>4
  <1> QED BY <1>2, <1>3

\* A packet that is new leaves the invariant as it was.
LEMMA RateStep ==
  ASSUME RateInv, NEW p \in Packet, NEW x, x = Sender[p], NEW b, b = BucketOf(x),
         NEW e, e = [packet |-> p, at |-> now, in |-> Affords(b)], taken' = Append(taken, e),
         NEW a, a = allow(b), buckets' = With(buckets, x, a), now' = now
  PROVE  RateInv'
  <1>1. now \in Nat /\ taken \in Seq(Taken)
    BY DEF RateInv
  <1>2. PICK N \in Nat : Rated(N)
    BY DEF RateInv
  <1>3. N = Len(taken) /\ Held(N) /\ Refused(N)
    BY <1>2 DEF Rated
  <1>4. e \in Taken /\ e.at = now /\ Sender[e.packet] = x /\ (e.in <=> Affords(b))
    <2>1. Affords(b) \in BOOLEAN
      BY DEF Affords, Greylisted
    <2> QED BY <1>1, <2>1 DEF Taken
  <1>5. \/ Fits(x, b, N)
        \/ b.tokens = Full /\ b.until = 0 /\ LetIn(x, 1, N) = {} /\ b \in Bucket(now)
    <2>1. CASE x \in DOMAIN buckets
      <3>1. b = buckets[x]
        BY <2>1 DEF BucketOf
      <3> QED BY <1>2, <2>1, <3>1 DEF Rated
    <2>2. CASE x \notin DOMAIN buckets
      <3>1. b = [tokens |-> Full, last |-> now, until |-> 0]
        BY <2>2 DEF BucketOf, FullBucket, Full
      <3>2. Full \in 0 .. Full /\ now \in 0 .. now
        BY <1>1, RateTypes
      <3>3. LetIn(x, 1, N) = {}
        BY <1>2, <2>2 DEF LetIn, Rated
      <3> QED BY <3>1, <3>2, <3>3 DEF Bucket
    <2> QED BY <2>1, <2>2
  <1>6. b \in Bucket(now)
    BY <1>5 DEF Fits
  <1>7. Fits(x, a, N + 1)'
    BY <1>1, <1>3, <1>4, <1>5, <1>6, FitsOwn
  <1>8. Held(N + 1)'
    BY <1>1, <1>3, <1>4, <1>7, HeldStep
  <1>9. ~e.in => now < a.until
    <2> SUFFICES ASSUME ~Affords(b)
                 PROVE  now < a.until
      BY <1>4
    <2>1. \/ Greylisted(b) /\ a = b
          \/ a.until = now + Greylist
      BY <1>1, <1>6, Allowed
    <2> QED BY <1>1, <2>1, RateTypes DEF Greylisted
  <1>10. Refused(N + 1)'
    BY <1>1, <1>3, <1>4, <1>7, <1>9, RefusedStep
  <1>11. /\ DOMAIN buckets' = DOMAIN buckets \cup {x}
         /\ buckets'[x] = a
         /\ \A s \in DOMAIN buckets : s # x => buckets'[s] = buckets[s]
    BY DEF With
  <1>12. \A s \in DOMAIN buckets' : \E c : c = buckets'[s] /\ Fits(s, c, N + 1)'
    <2> SUFFICES ASSUME NEW s \in DOMAIN buckets'
                 PROVE  \E c : c = buckets'[s] /\ Fits(s, c, N + 1)'
      OBVIOUS
    <2>1. CASE s = x
      BY <1>7, <1>11, <2>1
    <2>2. CASE s # x
      <3>1. s \in DOMAIN buckets /\ buckets'[s] = buckets[s]
        BY <1>11, <2>2
      <3>2. PICK c : c = buckets[s] /\ Fits(s, c, N)
        BY <1>2, <3>1 DEF Rated
      <3>3. ~One(e, s)
        BY <1>4, <2>2 DEF One
      <3>4. Fits(s, c, N + 1)'
        BY <1>1, <1>3, <1>4, <3>2, <3>3, FitsOther
      <3> QED BY <3>1, <3>2, <3>4
    <2> QED BY <2>1, <2>2
  <1>13. /\ taken' \in Seq(Taken) /\ N + 1 = Len(taken')
         /\ \A k \in 1 .. N : taken'[k] = taken[k]
         /\ taken'[N + 1] = e
    BY <1>1, <1>3, <1>4, OneMoreTaken
  <1>14. \A k \in 1 .. N + 1 : taken'[k].at <= now' /\ Sender[taken'[k].packet] \in DOMAIN buckets'
    <2>1. \A k \in 1 .. N : taken[k].at <= now /\ Sender[taken[k].packet] \in DOMAIN buckets
      BY <1>2 DEF Rated
    <2> SUFFICES ASSUME NEW k \in 1 .. N + 1
                 PROVE  taken'[k].at <= now' /\ Sender[taken'[k].packet] \in DOMAIN buckets'
      OBVIOUS
    <2>2. CASE k \in 1 .. N
      BY <1>11, <1>13, <2>1, <2>2
    <2>3. CASE k = N + 1
      BY <1>1, <1>4, <1>11, <1>13, <2>3
    <2>4. k \in 1 .. N \/ k = N + 1
      OBVIOUS
    <2> QED BY <2>2, <2>3, <2>4
  <1>15. Rated(N + 1)'
    BY <1>8, <1>10, <1>12, <1>13, <1>14 DEF Rated
  <1> QED BY <1>1, <1>13, <1>15 DEF RateInv

\* Time alone, and packets that are not new, leave it too.
LEMMA RateKept ==
  ASSUME RateInv, taken' = taken, buckets' = buckets, now' = now \/ now' = now + 1
  PROVE  RateInv'
  <1>1. now \in Nat /\ now' \in Nat /\ now <= now' /\ taken \in Seq(Taken)
    BY DEF RateInv
  <1>2. PICK N \in Nat : Rated(N)
    BY DEF RateInv
  <1>3. \A s, i, j : LetIn(s, i, j)' = LetIn(s, i, j)
    BY DEF LetIn
  <1>4. \A k : OneTooMany(k)' <=> OneTooMany(k)
    BY DEF OneTooMany, LetIn
  <1>5. Held(N)'
    BY <1>2, <1>3 DEF Rated, Held
  <1>6. Refused(N)'
    BY <1>2, <1>4 DEF Rated, Refused
  <1>7. ASSUME NEW s, NEW b, Fits(s, b, N)
        PROVE  Fits(s, b, N)'
    <2>1. b \in Bucket(now)'
      BY <1>1, <1>7, RateTypes DEF Fits, Bucket
    <2>2. \A i : Spent(s, i, N)' = Spent(s, i, N)
      BY <1>3 DEF Spent
    <2> QED BY <1>3, <1>4, <1>7, <2>1, <2>2 DEF Fits
  <1>8. \A s \in DOMAIN buckets' : \E b : b = buckets'[s] /\ Fits(s, b, N)'
    BY <1>2, <1>7 DEF Rated
  <1>9. \A k \in 1 .. N : taken'[k].at <= now' /\ Sender[taken'[k].packet] \in DOMAIN buckets'
    <2> SUFFICES ASSUME NEW k \in 1 .. N
                 PROVE  taken'[k].at <= now' /\ Sender[taken'[k].packet] \in DOMAIN buckets'
      OBVIOUS
    <2>1. taken[k].at <= now /\ Sender[taken[k].packet] \in DOMAIN buckets /\ N = Len(taken)
      BY <1>2 DEF Rated
    <2>2. taken[k] \in Taken
      BY <1>1, <2>1
    <2> QED BY <1>1, <2>1, <2>2, TakenAt
  <1>10. Rated(N)'
    BY <1>2, <1>5, <1>6, <1>8, <1>9 DEF Rated
  <1> QED BY <1>1, <1>10 DEF RateInv

LEMMA RateStart ==
  Init => RateInv
  <1> SUFFICES ASSUME Init
               PROVE  RateInv
    OBVIOUS
  <1>1. now = 1 /\ taken = << >> /\ buckets = << >>
    BY DEF Init, Empty
  <1>2. Len(taken) = 0 /\ DOMAIN buckets = {} /\ taken \in Seq(Taken)
    BY <1>1
  <1>3. LetIn(1, 1, 0) = {} /\ \A s : LetIn(s, 1, 0) = {}
    BY DEF LetIn
  <1>4. Rated(0)
    BY <1>2, <1>3 DEF Rated, Held, Refused
  <1> QED BY <1>1, <1>2, <1>4 DEF RateInv

LEMMA RateNext ==
  RateInv /\ [Next]_vars => RateInv'
  <1> SUFFICES ASSUME RateInv, [Next]_vars
               PROVE  RateInv'
    OBVIOUS
  <1>1. ASSUME NEW p \in Packet, NEW f, on_frame(p, f)
        PROVE  RateInv'
    <2>1. now' = now
      BY <1>1 DEF on_frame, ingest
    <2>2. CASE HandsOn(p, f) /\ p \notin DOMAIN seen
      <3>1. PICK x : x = Sender[p]
        OBVIOUS
      <3>2. PICK b : b = BucketOf(x)
        OBVIOUS
      <3>3. PICK a : a = allow(b)
        OBVIOUS
      <3>4. PICK e : e = [packet |-> p, at |-> now, in |-> Affords(b)]
        OBVIOUS
      <3>5. buckets' = With(buckets, x, a) /\ taken' = Append(taken, e)
        BY <1>1, <2>2, <3>1, <3>2, <3>3, <3>4 DEF on_frame
      <3> QED BY <2>1, <3>1, <3>2, <3>3, <3>4, <3>5, RateStep
    <2>3. CASE ~(HandsOn(p, f) /\ p \notin DOMAIN seen)
      <3>1. buckets' = buckets /\ taken' = taken
        BY <1>1, <2>3 DEF on_frame
      <3> QED BY <2>1, <3>1, RateKept
    <2> QED BY <2>2, <2>3
  <1>2. CASE tick
    BY <1>2, RateKept DEF tick, evict_expired
  <1>3. CASE TimePasses
    BY <1>3, RateKept DEF TimePasses, Advance
  <1>4. CASE UNCHANGED vars
    BY <1>4, RateKept DEF vars, reassembly
  <1> QED BY <1>1, <1>2, <1>3, <1>4 DEF Next

LEMMA RateMeans ==
  RateInv => RateBound /\ OnlyOverRateRefused
  <1> SUFFICES ASSUME RateInv
               PROVE  RateBound /\ OnlyOverRateRefused
    OBVIOUS
  <1>1. PICK N \in Nat : Rated(N)
    BY DEF RateInv
  <1>2. N = Len(taken) /\ DOMAIN taken = 1 .. N
    BY <1>1 DEF Rated, RateInv
  <1>3. RateBound
    BY <1>1, <1>2 DEF Rated, Held, RateBound
  <1>4. OnlyOverRateRefused
    BY <1>1, <1>2 DEF Rated, Refused, OnlyOverRateRefused
  <1> QED BY <1>3, <1>4

\* No originator gets more packets let in over any time than a burst and what is
\* refilled in that time (RateLimiter::allow), for every burst, rate, greylisting
\* time and number of originators.
THEOREM RateBoundTheorem == Spec => []RateBound
  BY RateStart, RateNext, RateMeans, PTL DEF Spec

\* No originator within its rate is refused: a refusal is one packet too many or
\* falls in the greylisting that such a packet began (RateLimiter::allow).
THEOREM RefusedTheorem == Spec => []OnlyOverRateRefused
  BY RateStart, RateNext, RateMeans, PTL DEF Spec

-----------------------------------------------------------------------------
(***************************************************************************)
(* The cache: a packet that came less than a lifetime ago is in it, since  *)
(* it came or later.                                                       *)
(***************************************************************************)
Cached(e) == \/ now - e.at >= SeenTtl
             \/ e.packet \in DOMAIN seen /\ e.at <= seen[e.packet]

Once(n) ==
    /\ n = Len(taken)
    /\ \A k \in 1 .. n : taken[k].at <= now /\ Cached(taken[k])
    /\ \A j, k \in 1 .. n :
          j < k /\ taken[j].packet = taken[k].packet => taken[k].at - taken[j].at >= SeenTtl

SeenInv ==
    /\ now \in Nat /\ taken \in Seq(Taken)
    /\ DOMAIN seen \subseteq Packet /\ \A q \in DOMAIN seen : seen[q] \in Nat
    /\ \E n \in Nat : Once(n)

\* A packet that is new has not come within a lifetime.
LEMMA SeenStep ==
  ASSUME SeenInv, NEW p \in Packet, p \notin DOMAIN seen, seen' = With(seen, p, now),
         NEW e \in Taken, e.packet = p, e.at = now, taken' = Append(taken, e), now' = now
  PROVE  SeenInv'
  <1>1. now \in Nat /\ taken \in Seq(Taken)
    BY DEF SeenInv
  <1>2. PICK N \in Nat : Once(N)
    BY DEF SeenInv
  <1>3. N = Len(taken)
    BY <1>2 DEF Once
  <1>4. /\ taken' \in Seq(Taken) /\ N + 1 = Len(taken')
        /\ \A k \in 1 .. N : taken'[k] = taken[k]
        /\ taken'[N + 1] = e
    BY <1>1, <1>3
  <1>5. /\ DOMAIN seen' = DOMAIN seen \cup {p} /\ seen'[p] = now
        /\ \A q \in DOMAIN seen : q # p => seen'[q] = seen[q]
    BY DEF With
  <1>6. DOMAIN seen' \subseteq Packet /\ \A q \in DOMAIN seen' : seen'[q] \in Nat
    BY <1>1, <1>5 DEF SeenInv
  <1>7. \A k \in 1 .. N : taken[k] \in Taken /\ taken[k].at \in Int
    BY <1>1, <1>3, TakenAt
  <1>8. ASSUME NEW k \in 1 .. N
        PROVE  /\ taken'[k].at <= now' /\ Cached(taken[k])'
               /\ taken[k].packet = p => now - taken[k].at >= SeenTtl
    <2>1. taken[k].at <= now /\ Cached(taken[k])
      BY <1>2 DEF Once
    <2>2. taken[k].packet = p => now - taken[k].at >= SeenTtl
      BY <2>1 DEF Cached
    <2>3. /\ taken'[k].at <= now'
          /\ \/ now' - taken'[k].at >= SeenTtl
             \/ taken'[k].packet \in DOMAIN seen' /\ taken'[k].at <= seen'[taken'[k].packet]
      BY <1>4, <1>5, <2>1, <2>2 DEF Cached
    <2> QED BY <2>2, <2>3 DEF Cached
  <1>9. taken'[N + 1].at <= now' /\ Cached(taken[N + 1])'
    <2>1. taken'[N + 1].packet = p /\ taken'[N + 1].at = now
      BY <1>4
    <2>2. taken'[N + 1].packet \in DOMAIN seen' /\ taken'[N + 1].at <= seen'[taken'[N + 1].packet]
      BY <1>1, <1>5, <2>1
    <2> QED BY <1>1, <2>1, <2>2 DEF Cached
  <1>10. \A k \in 1 .. N + 1 : k \in 1 .. N \/ k = N + 1
    OBVIOUS
  <1>11. ASSUME NEW j \in 1 .. N + 1, NEW k \in 1 .. N + 1, j < k,
                taken'[j].packet = taken'[k].packet
         PROVE  taken'[k].at - taken'[j].at >= SeenTtl
    <2>1. j \in 1 .. N
      BY <1>11
    <2>2. CASE k \in 1 .. N
      <3>1. /\ taken[j].packet = taken[k].packet
            /\ taken'[k].at = taken[k].at /\ taken'[j].at = taken[j].at
        BY <1>4, <1>11, <2>1, <2>2
      <3>2. taken[k].at - taken[j].at >= SeenTtl
        BY <1>2, <1>11, <2>1, <2>2, <3>1 DEF Once
      <3> QED BY <3>1, <3>2
    <2>3. CASE k = N + 1
      <3>1. taken'[k] = e /\ taken'[j] = taken[j]
        BY <1>4, <2>1, <2>3
      <3>2. taken[j].packet = p
        BY <1>11, <3>1
      <3>3. now - taken[j].at >= SeenTtl
        BY <1>8, <2>1, <3>2
      <3> QED BY <3>1, <3>3
    <2> QED BY <1>10, <2>2, <2>3
  <1>12. Once(N + 1)'
    BY <1>4, <1>8, <1>9, <1>10, <1>11 DEF Once
  <1> QED BY <1>1, <1>4, <1>6, <1>12 DEF SeenInv

LEMMA Longer ==
  ASSUME NEW t \in Int, NEW u \in Int, NEW n \in Int, NEW m \in Int, NEW l \in Int,
         n - u >= l, t <= u, n <= m
  PROVE  m - t >= l
  OBVIOUS

LEMMA SeenKept ==
  ASSUME SeenInv, taken' = taken,
         \/ seen' = seen /\ (now' = now \/ now' = now + 1)
         \/ seen' = Without(seen, Forgotten) /\ now' = now
  PROVE  SeenInv'
  <1>1. now \in Nat /\ taken \in Seq(Taken) /\ now' \in Nat /\ now <= now'
    BY DEF SeenInv
  <1>2. PICK N \in Nat : Once(N)
    BY DEF SeenInv
  <1>3. N = Len(taken)
    BY <1>2 DEF Once
  <1>4. /\ DOMAIN seen' \subseteq DOMAIN seen
        /\ \A q \in DOMAIN seen' : seen'[q] = seen[q]
        /\ \A q \in DOMAIN seen \ DOMAIN seen' : now - seen[q] >= SeenTtl
    <2>1. CASE seen' = seen
      BY <2>1
    <2>2. CASE seen' = Without(seen, Forgotten)
      BY <2>2 DEF Without, Forgotten
    <2> QED BY <2>1, <2>2
  <1>5. DOMAIN seen' \subseteq Packet /\ \A q \in DOMAIN seen' : seen'[q] \in Nat
    BY <1>4 DEF SeenInv
  <1>7. now \in Int /\ now' \in Int /\ now <= now'
    BY <1>1
  <1>6. ASSUME NEW k \in 1 .. N
        PROVE  taken'[k].at <= now' /\ Cached(taken[k])'
    <2>1. taken[k].at <= now /\ Cached(taken[k])
      BY <1>2 DEF Once
    <2>2. PICK t : t = taken[k].at
      OBVIOUS
    <2>3. PICK q : q = taken[k].packet
      OBVIOUS
    <2>4. t \in Int
      BY <1>1, <1>3, <2>2, TakenAt
    <2>5. t <= now /\ (now - t >= SeenTtl \/ (q \in DOMAIN seen /\ t <= seen[q]))
      BY <2>1, <2>2, <2>3 DEF Cached
    <2>6. SeenTtl \in Int /\ (q \in DOMAIN seen => seen[q] \in Int)
      BY RateTypes DEF SeenInv
    <2>8. t <= t
      BY <2>4
    <2>7. t <= now' /\ (now' - t >= SeenTtl \/ (q \in DOMAIN seen' /\ t <= seen'[q]))
      <3>1. t <= now'
        BY <1>1, <2>4, <2>5
      <3>2. CASE now - t >= SeenTtl
        <4>1. now' - t >= SeenTtl
          BY <1>7, <2>4, <2>6, <2>8, <3>2, Longer, Zenon
        <4> QED BY <3>1, <4>1
      <3>3. CASE q \in DOMAIN seen' /\ t <= seen[q]
        BY <1>4, <3>1, <3>3
      <3>4. CASE q \in DOMAIN seen \ DOMAIN seen' /\ t <= seen[q]
        <4>1. now - seen[q] >= SeenTtl
          BY <1>4, <3>4
        <4>2. now' - t >= SeenTtl
          BY <1>7, <2>4, <2>6, <3>4, <4>1, Longer, Zenon
        <4> QED BY <3>1, <4>2
      <3> QED BY <2>5, <3>2, <3>3, <3>4
    <2> QED BY <2>2, <2>3, <2>7 DEF Cached
  <1>8. Once(N)'
    BY <1>2, <1>6 DEF Once
  <1> QED BY <1>1, <1>5, <1>8 DEF SeenInv

LEMMA SeenNext ==
  SeenInv /\ [Next]_vars => SeenInv'
  <1> SUFFICES ASSUME SeenInv, [Next]_vars
               PROVE  SeenInv'
    OBVIOUS
  <1>1. ASSUME NEW p \in Packet, NEW f, on_frame(p, f)
        PROVE  SeenInv'
    <2>1. now' = now /\ now \in Nat
      BY <1>1 DEF on_frame, ingest, SeenInv
    <2>2. CASE HandsOn(p, f) /\ p \notin DOMAIN seen
      <3>1. PICK b : b = BucketOf(Sender[p])
        OBVIOUS
      <3>2. PICK e : e = [packet |-> p, at |-> now, in |-> Affords(b)]
        OBVIOUS
      <3>3. seen' = With(seen, p, now) /\ taken' = Append(taken, e)
        BY <1>1, <2>2, <3>1, <3>2 DEF on_frame
      <3>4. e \in Taken /\ e.packet = p /\ e.at = now
        <4>1. Affords(b) \in BOOLEAN
          BY DEF Affords, Greylisted
        <4> QED BY <2>1, <3>2, <4>1 DEF Taken
      <3> QED BY <2>1, <2>2, <3>3, <3>4, SeenStep
    <2>3. CASE ~(HandsOn(p, f) /\ p \notin DOMAIN seen)
      <3>1. seen' = seen /\ taken' = taken
        BY <1>1, <2>3 DEF on_frame
      <3> QED BY <2>1, <3>1, SeenKept
    <2> QED BY <2>2, <2>3
  <1>2. CASE tick
    BY <1>2, SeenKept DEF tick, evict_expired
  <1>3. CASE TimePasses
    BY <1>3, SeenKept DEF TimePasses, Advance
  <1>4. CASE UNCHANGED vars
    BY <1>4, SeenKept DEF vars, reassembly
  <1> QED BY <1>1, <1>2, <1>3, <1>4 DEF Next

LEMMA SeenStart ==
  Init => SeenInv
  <1> SUFFICES ASSUME Init
               PROVE  SeenInv
    OBVIOUS
  <1>1. now = 1 /\ taken = << >> /\ seen = << >>
    BY DEF Init, Empty
  <1>2. Len(taken) = 0 /\ DOMAIN seen = {} /\ taken \in Seq(Taken)
    BY <1>1
  <1>3. Once(0)
    BY <1>2 DEF Once
  <1> QED BY <1>1, <1>2, <1>3 DEF SeenInv

\* A packet is looked at once in the lifetime of a cache entry, whatever copies and
\* fragments of it come (SeenCache::observe, evict_expired from tick).
THEOREM LookedAtOnceTheorem == Spec => []LookedAtOnce
  <1>1. SeenInv => LookedAtOnce
    <2> SUFFICES ASSUME SeenInv
                 PROVE  LookedAtOnce
      OBVIOUS
    <2>1. PICK N \in Nat : Once(N)
      BY DEF SeenInv
    <2>2. DOMAIN taken = 1 .. N
      BY <2>1 DEF Once, SeenInv
    <2> QED BY <2>1, <2>2 DEF Once, LookedAtOnce
  <1> QED BY <1>1, SeenStart, SeenNext, PTL DEF Spec

-----------------------------------------------------------------------------
(***************************************************************************)
(* What split cuts.                                                        *)
(***************************************************************************)
LEMMA Ceil ==
  ASSUME NEW S \in Nat \ {0}, NEW c \in Nat \ {0}, NEW T, T = (S + c - 1) \div c
  PROVE  /\ T \in Nat \ {0} /\ S <= T * c
         /\ \A i \in 0 .. T - 1 : i * c \in Nat /\ i * c < S
  <1>1. T \in Int /\ T * c <= S + c - 1 /\ S + c - 1 < T * c + c
    OBVIOUS
  <1>2. T * c \in Int /\ S <= T * c
    BY <1>1
  <1>3. T > 0
    BY <1>1, <1>2
  <1>4. ASSUME NEW i \in 0 .. T - 1
        PROVE  i * c \in Nat /\ i * c < S
    <2>1. PICK d \in Nat : T = i + 1 + d
      <3>1. T - i - 1 \in Nat /\ T = i + 1 + (T - i - 1)
        BY <1>1
      <3> QED BY <3>1
    <2>2. T * c = i * c + c + d * c /\ d * c \in Nat /\ i * c \in Nat
      BY <2>1
    <2> QED BY <1>1, <2>2
  <1> QED BY <1>1, <1>2, <1>3, <1>4

\* The fragments of a packet cut for an MTU.
Cut(p, mtu) == mtu > FragHeader /\ Size[p] >= mtu

LEMMA Sizes ==
  ASSUME NEW p \in Packet, NEW mtu \in Mtu
  PROVE  /\ Size[p] \in Nat \ {0} /\ mtu \in Nat /\ FragHeader \in Nat /\ MaxBytes \in Nat
         /\ Slots \in Nat \ {0} /\ Timeout \in Nat \ {0} /\ p \in Nat
         /\ mtu > FragHeader => chunk_size(mtu) \in Nat \ {0}
  BY PacketAssumption, LimitAssumption DEF chunk_size

LEMMA CutFacts ==
  ASSUME NEW p \in Packet, NEW mtu \in Mtu, Cut(p, mtu), NEW T, T = total_of(p, mtu)
  PROVE  /\ T \in Nat \ {0}
         /\ \A i \in 0 .. T - 1 :
               /\ chunk(p, mtu, i) \in Chunk /\ chunk(p, mtu, i) # Missing
               /\ Length(chunk(p, mtu, i)) \in Nat
               /\ chunk(p, mtu, i)[1] = i * chunk_size(mtu)
               /\ i < T - 1 => chunk(p, mtu, i)[2] = (i + 1) * chunk_size(mtu)
               /\ i = T - 1 => chunk(p, mtu, i)[2] = Size[p]
  <1>1. PICK S : S = Size[p]
    OBVIOUS
  <1>2. PICK c : c = chunk_size(mtu)
    OBVIOUS
  <1>3. S \in Nat \ {0} /\ c \in Nat \ {0}
    BY <1>1, <1>2, Sizes DEF Cut
  <1>4. T = (S + c - 1) \div c
    BY <1>1, <1>2 DEF total_of
  <1>5. /\ T \in Nat \ {0} /\ S <= T * c
        /\ \A i \in 0 .. T - 1 : i * c \in Nat /\ i * c < S
    BY <1>3, <1>4, Ceil
  <1>6. ASSUME NEW i \in 0 .. T - 1
        PROVE  /\ chunk(p, mtu, i) \in Chunk /\ chunk(p, mtu, i) # Missing
               /\ Length(chunk(p, mtu, i)) \in Nat
               /\ chunk(p, mtu, i)[1] = i * chunk_size(mtu)
               /\ i < T - 1 => chunk(p, mtu, i)[2] = (i + 1) * chunk_size(mtu)
               /\ i = T - 1 => chunk(p, mtu, i)[2] = Size[p]
    <2>1. PICK x : x = i * c
      OBVIOUS
    <2>2. PICK y : y = (i + 1) * c
      OBVIOUS
    <2>3. x \in Nat /\ x < S
      BY <1>5, <1>6, <2>1
    <2>4. y = x + c
      BY <1>3, <1>5, <2>1, <2>2
    <2>5. y \in Nat /\ x < y
      BY <1>3, <2>3, <2>4
    <2>6. i < T - 1 => y < S
      BY <1>5, <2>2
    <2>7. i = T - 1 => S <= y
      <3>1. i = T - 1 => i + 1 = T
        BY <1>5
      <3> QED BY <1>5, <2>2, <3>1
    <2>8. PICK z : z = Min({y, S})
      OBVIOUS
    <2>9. z = IF y <= S THEN y ELSE S
      BY <1>3, <2>5, <2>8, MinTwo
    <2>10. z \in Nat /\ x < z /\ (i < T - 1 => z = y) /\ (i = T - 1 => z = S)
      BY <1>3, <2>3, <2>5, <2>6, <2>7, <2>9
    <2>11. chunk(p, mtu, i) = <<x, z>>
      BY <1>1, <1>2, <2>1, <2>2, <2>8 DEF chunk
    <2>12. <<x, z>> \in Chunk /\ z # 0 /\ <<x, z>> # <<0, 0>> /\ z - x \in Nat
      BY <2>3, <2>10 DEF Chunk
    <2> QED BY <1>1, <1>2, <2>1, <2>2, <2>10, <2>11, <2>12 DEF Missing, Length
  <1> QED BY <1>5, <1>6

\* A frame is the whole packet or one of its fragments.
Frame(p, f) ==
    \/ f.kind = "complete" /\ f.chunk = <<0, Size[p]>>
    \/ /\ f.kind # "complete" /\ f.total \in Nat \ {0} /\ f.index \in 0 .. f.total - 1
       /\ f.chunk \in Chunk /\ f.chunk # Missing /\ Length(f.chunk) \in Nat
       /\ \E mtu \in Mtu : Cut(p, mtu) /\ f.total = total_of(p, mtu) /\ f.chunk = chunk(p, mtu, f.index)

LEMMA FrameFacts ==
  ASSUME NEW p \in Packet, NEW mtu \in Mtu, NEW f \in split(p, mtu)
  PROVE  Frame(p, f)
  <1>1. /\ Size[p] \in Nat \ {0} /\ mtu \in Nat /\ FragHeader \in Nat
    BY Sizes
  <1>2. ~(mtu <= FragHeader)
    BY DEF split
  <1>3. CASE Size[p] < mtu
    BY <1>2, <1>3 DEF split, Frame
  <1>4. CASE ~(Size[p] < mtu)
    <2>1. Cut(p, mtu)
      BY <1>1, <1>2, <1>4 DEF Cut
    <2>2. PICK T : T = total_of(p, mtu)
      OBVIOUS
    <2>3. PICK i \in 0 .. T - 1 :
             f = [kind |-> "fragment", index |-> i, total |-> T, chunk |-> chunk(p, mtu, i)]
      BY <1>2, <1>4, <2>2 DEF split
    <2>4. /\ f.kind = "fragment" /\ f.index = i /\ f.total = T /\ f.chunk = chunk(p, mtu, i)
      BY <2>3
    <2>5. /\ T \in Nat \ {0}
          /\ chunk(p, mtu, i) \in Chunk /\ chunk(p, mtu, i) # Missing
          /\ Length(chunk(p, mtu, i)) \in Nat
      BY <2>1, <2>2, CutFacts
    <2> QED BY <2>1, <2>2, <2>4, <2>5 DEF Frame
  <1> QED BY <1>3, <1>4

-----------------------------------------------------------------------------
(***************************************************************************)
(* The slots.                                                              *)
(***************************************************************************)
LEMMA LeastNat ==
  ASSUME NEW T, T \subseteq Nat, T # {}
  PROVE  \E x \in T : \A y \in T : x <= y
  <1>1. PICK x \in T : \A y \in T : ~(<<y, x>> \in OpToRel(<, Nat))
    BY NatLessThanWellFounded, WFMin
  <1>2. \A y \in T : ~(y < x)
    BY <1>1 DEF OpToRel
  <1> QED BY <1>2

\* Among slots there is one to evict.
LEMMA OldestThere ==
  ASSUME NEW ss, DOMAIN ss \subseteq Nat, \A p \in DOMAIN ss : ss[p].first \in Nat
  PROVE  /\ Oldest(ss) \subseteq DOMAIN ss
         /\ DOMAIN ss # {} => Oldest(ss) # {}
  <1>1. Oldest(ss) \subseteq DOMAIN ss
    BY DEF Oldest
  <1>2. ASSUME DOMAIN ss # {}
        PROVE  Oldest(ss) # {}
    <2> DEFINE times == {ss[p].first : p \in DOMAIN ss}
    <2>1. PICK t \in times : \A u \in times : t <= u
      <3>1. times \subseteq Nat /\ times # {}
        BY <1>2
      <3> HIDE DEF times
      <3> QED BY <3>1, LeastNat
    <2> DEFINE firsts == {p \in DOMAIN ss : ss[p].first = t}
    <2>2. PICK p \in firsts : \A q \in firsts : p <= q
      <3>1. firsts \subseteq Nat /\ firsts # {}
        OBVIOUS
      <3> HIDE DEF firsts
      <3> QED BY <3>1, LeastNat
    <2>3. ASSUME NEW q \in DOMAIN ss
          PROVE  ss[p].first < ss[q].first \/ (ss[p].first = ss[q].first /\ p <= q)
      <3>1. t <= ss[q].first /\ ss[q].first \in Nat /\ ss[p].first = t /\ t \in Nat
        BY <2>1, <2>2
      <3>2. CASE ss[q].first = t
        BY <2>2, <3>1, <3>2
      <3>3. CASE ss[q].first # t
        BY <3>1, <3>3
      <3> QED BY <3>2, <3>3
    <2>4. p \in Oldest(ss)
      BY <2>2, <2>3 DEF Oldest
    <2> QED BY <2>4
  <1> QED BY <1>1, <1>2

\* Induction along 0 .. N for a set of numbers.
LEMMA UpTo ==
  ASSUME NEW N \in Nat, NEW S, 0 \in S,
         \A k \in 1 .. N : k - 1 \in S => k \in S
  PROVE  \A k \in 0 .. N : k \in S
  <1> SUFFICES ASSUME {k \in 0 .. N : k \notin S} # {} PROVE FALSE
    OBVIOUS
  <1> DEFINE T == {k \in 0 .. N : k \notin S}
  <1>1. T \subseteq Nat /\ T # {}
    OBVIOUS
  <1> HIDE DEF T
  <1>2. PICK m \in T : \A y \in T : m <= y
    BY <1>1, LeastNat
  <1>3. m \in 1 .. N /\ m - 1 \in 0 .. N /\ m \notin S
    BY <1>2 DEF T
  <1>4. m - 1 \in S
    BY <1>2, <1>3 DEF T
  <1> QED BY <1>3, <1>4

\* The sums of which the bytes of a slot are the last.
LEMMA BytesSteps ==
  ASSUME NEW s, NEW T \in Nat, s.total = T
  PROVE  \E f : /\ f[0] = 0
                /\ \A k \in 1 .. T : f[k] = f[k - 1] + Length(s.chunks[k - 1])
                /\ f[T] = HeldBytes(s)
  <1> DEFINE IsF(g, n) == g = [k \in 0 .. n |-> IF k = 0 THEN 0 ELSE g[k - 1] + Length(s.chunks[k - 1])]
             S == {n \in Nat : \E g : IsF(g, n)}
  <1>1. 0 \in S
    <2> DEFINE g == [k \in 0 .. 0 |-> 0]
    <2>1. g = [k \in 0 .. 0 |-> IF k = 0 THEN 0 ELSE g[k - 1] + Length(s.chunks[k - 1])]
      OBVIOUS
    <2>2. IsF(g, 0)
      BY <2>1
    <2> QED BY <2>2
  <1>2. ASSUME NEW n \in 1 .. T, n - 1 \in S
        PROVE  n \in S
    <2>1. PICK g : IsF(g, n - 1)
      BY <1>2
    <2> DEFINE h == [k \in 0 .. n |-> IF k = n THEN g[n - 1] + Length(s.chunks[n - 1]) ELSE g[k]]
    <2>2. \A k \in 0 .. n - 1 : g[k] = IF k = 0 THEN 0 ELSE g[k - 1] + Length(s.chunks[k - 1])
      BY <2>1
    <2>3. ASSUME NEW k \in 0 .. n
          PROVE  h[k] = IF k = 0 THEN 0 ELSE h[k - 1] + Length(s.chunks[k - 1])
      <3>1. CASE k = n
        <4>1. n - 1 \in 0 .. n /\ n - 1 # n /\ n # 0
          OBVIOUS
        <4>2. h[n - 1] = g[n - 1]
          BY <4>1
        <4> QED BY <3>1, <4>1, <4>2
      <3>2. CASE k # n
        <4>1. k \in 0 .. n - 1 /\ h[k] = g[k]
          BY <3>2
        <4>2. CASE k = 0
          BY <2>2, <4>1, <4>2
        <4>3. CASE k # 0
          <5>1. k - 1 \in 0 .. n /\ k - 1 # n
            BY <4>1, <4>3
          <5>2. h[k - 1] = g[k - 1]
            BY <5>1
          <5> QED BY <2>2, <4>1, <4>3, <5>2
        <4> QED BY <4>2, <4>3
      <3> QED BY <3>1, <3>2
    <2>4. h = [k \in 0 .. n |-> h[k]]
      OBVIOUS
    <2> HIDE DEF h
    <2>5. IsF(h, n)
      BY <2>3, <2>4
    <2> QED BY <2>5
  <1>3. T \in S
    <2> HIDE DEF S
    <2>1. \A k \in 1 .. T : k - 1 \in S => k \in S
      BY <1>2
    <2>2. \A k \in 0 .. T : k \in S
      BY <1>1, <2>1, UpTo
    <2> QED BY <2>2
  <1>4. PICK g : g = [k \in 0 .. T |-> IF k = 0 THEN 0 ELSE g[k - 1] + Length(s.chunks[k - 1])]
    BY <1>3
  <1> DEFINE f == CHOOSE z : z = [k \in 0 .. T |-> IF k = 0 THEN 0 ELSE z[k - 1] + Length(s.chunks[k - 1])]
  <1>5. f = [k \in 0 .. T |-> IF k = 0 THEN 0 ELSE f[k - 1] + Length(s.chunks[k - 1])]
    BY <1>4
  <1>6. f[T] = HeldBytes(s)
    BY DEF HeldBytes
  <1> HIDE DEF f
  <1>7. f[0] = 0 /\ \A k \in 1 .. T : f[k] = f[k - 1] + Length(s.chunks[k - 1])
    BY <1>5
  <1> QED BY <1>6, <1>7

LEMMA ChunkLength ==
  ASSUME NEW c \in Chunk
  PROVE  Length(c) \in Int
  BY DEF Chunk, Length

\* A chunk that comes where one was missing adds its length.
LEMMA BytesFilled ==
  ASSUME NEW s, NEW r, NEW T \in Nat \ {0}, s.total = T, r.total = T,
         s.chunks \in [0 .. T - 1 -> Chunk], r.chunks \in [0 .. T - 1 -> Chunk],
         NEW i \in 0 .. T - 1, s.chunks[i] = Missing,
         \A j \in 0 .. T - 1 : j # i => r.chunks[j] = s.chunks[j]
  PROVE  HeldBytes(s) \in Int /\ HeldBytes(r) = HeldBytes(s) + Length(r.chunks[i])
  <1>1. PICK f : /\ f[0] = 0
                 /\ \A k \in 1 .. T : f[k] = f[k - 1] + Length(s.chunks[k - 1])
                 /\ f[T] = HeldBytes(s)
    BY BytesSteps
  <1>2. PICK g : /\ g[0] = 0
                 /\ \A k \in 1 .. T : g[k] = g[k - 1] + Length(r.chunks[k - 1])
                 /\ g[T] = HeldBytes(r)
    BY BytesSteps
  <1>3. PICK x \in Int : x = Length(r.chunks[i])
    <2>1. r.chunks[i] \in Chunk
      OBVIOUS
    <2> QED BY <2>1, ChunkLength
  <1>4. \A k \in 1 .. T : Length(s.chunks[k - 1]) \in Int
    <2> SUFFICES ASSUME NEW k \in 1 .. T PROVE Length(s.chunks[k - 1]) \in Int
      OBVIOUS
    <2>1. k - 1 \in 0 .. T - 1
      OBVIOUS
    <2>2. s.chunks[k - 1] \in Chunk
      BY <2>1
    <2> QED BY <2>2, ChunkLength
  <1>5. Length(s.chunks[i]) = 0
    BY DEF Length, Missing
  <1> DEFINE S == {k \in 0 .. T : f[k] \in Int /\ g[k] = IF i < k THEN f[k] + x ELSE f[k]}
  <1>6. 0 \in S
    BY <1>1, <1>2
  <1>7. ASSUME NEW k \in 1 .. T, k - 1 \in S
        PROVE  k \in S
    <2>1. k - 1 \in 0 .. T - 1 /\ k \in 0 .. T
      OBVIOUS
    <2>2. f[k - 1] \in Int /\ g[k - 1] = IF i < k - 1 THEN f[k - 1] + x ELSE f[k - 1]
      BY <1>7
    <2>3. f[k] = f[k - 1] + Length(s.chunks[k - 1]) /\ g[k] = g[k - 1] + Length(r.chunks[k - 1])
      BY <1>1, <1>2
    <2>4. PICK y \in Int : y = Length(s.chunks[k - 1])
      BY <1>4
    <2>5. PICK a \in Int : a = f[k - 1]
      BY <2>2
    <2>6. CASE k - 1 = i
      <3>1. y = 0 /\ f[k] = a + y /\ g[k - 1] = a /\ g[k] = g[k - 1] + x
        BY <1>3, <1>5, <2>2, <2>3, <2>4, <2>5, <2>6
      <3>2. f[k] \in Int /\ g[k] = f[k] + x /\ i < k
        BY <2>6, <3>1
      <3> QED BY <2>1, <3>2
    <2>7. CASE k - 1 # i
      <3>1. Length(r.chunks[k - 1]) = y
        BY <2>1, <2>4, <2>7
      <3>2. i < k <=> i < k - 1
        BY <2>7
      <3>3. f[k] = a + y /\ g[k] = g[k - 1] + y /\ g[k - 1] = IF i < k - 1 THEN a + x ELSE a
        BY <2>2, <2>3, <2>4, <2>5, <3>1
      <3>4. f[k] \in Int /\ g[k] = IF i < k THEN f[k] + x ELSE f[k]
        BY <3>2, <3>3
      <3> QED BY <2>1, <3>4
    <2> QED BY <2>6, <2>7
  <1>8. T \in S
    <2> HIDE DEF S
    <2>1. \A k \in 1 .. T : k - 1 \in S => k \in S
      BY <1>7
    <2>2. \A k \in 0 .. T : k \in S
      BY <1>6, <2>1, UpTo
    <2> QED BY <2>2
  <1>9. f[T] \in Int /\ g[T] = f[T] + x
    BY <1>8
  <1> QED BY <1>1, <1>2, <1>3, <1>9

LEMMA BytesFresh ==
  ASSUME NEW s, NEW T \in Nat, s.total = T, s.chunks = [i \in 0 .. T - 1 |-> Missing]
  PROVE  HeldBytes(s) = 0
  <1>1. PICK f : /\ f[0] = 0
                 /\ \A k \in 1 .. T : f[k] = f[k - 1] + Length(s.chunks[k - 1])
                 /\ f[T] = HeldBytes(s)
    BY BytesSteps
  <1>2. \A k \in 1 .. T : Length(s.chunks[k - 1]) = 0
    BY DEF Length, Missing
  <1> DEFINE S == {k \in 0 .. T : f[k] = 0}
  <1>3. 0 \in S /\ \A k \in 1 .. T : k - 1 \in S => k \in S
    BY <1>1, <1>2
  <1>4. T \in S
    <2> HIDE DEF S
    <2>1. \A k \in 0 .. T : k \in S
      BY <1>3, UpTo
    <2> QED BY <2>1
  <1> QED BY <1>1, <1>4

HeldIn(s) == {i \in DOMAIN s.chunks : s.chunks[i] # Missing}

\* A slot counts the chunks it holds and is within the cap.
Counted(s) ==
    /\ s.total \in Nat \ {0} /\ s \in Partial(s.total)
    /\ s.received = Cardinality(HeldIn(s)) /\ s.bytes = HeldBytes(s) /\ s.bytes <= MaxBytes

\* One that stays has some of them and lacks some.
Lacking(s) == Counted(s) /\ 0 < s.received /\ s.received < s.total

LEMMA CountedFacts ==
  ASSUME NEW s, Counted(s)
  PROVE  /\ HeldIn(s) \subseteq 0 .. s.total - 1 /\ IsFiniteSet(HeldIn(s))
         /\ DOMAIN s.chunks = 0 .. s.total - 1
         /\ s.received \in Nat /\ s.received <= s.total /\ s.total \in Nat \ {0}
         /\ HeldIn(s) = 0 .. s.total - 1 <=> s.received = s.total
  <1>1. /\ s.total \in Nat \ {0} /\ s \in Partial(s.total)
        /\ s.received = Cardinality(HeldIn(s))
    BY DEF Counted
  <1>2. DOMAIN s.chunks = 0 .. s.total - 1
    BY <1>1 DEF Partial
  <1>3. HeldIn(s) \subseteq 0 .. s.total - 1
    BY <1>2 DEF HeldIn
  <1>4. PICK n \in Nat \ {0} : n = s.total
    BY <1>1
  <1>5. IsFiniteSet(0 .. n - 1) /\ Cardinality(0 .. n - 1) = n
    <2>1. 0 \in Int /\ n - 1 \in Int /\ ~(0 > n - 1) /\ (n - 1) - 0 + 1 = n
      BY <1>4
    <2> QED BY <2>1, FS_Interval
  <1>6. IsFiniteSet(HeldIn(s)) /\ Cardinality(HeldIn(s)) <= n
        /\ (Cardinality(HeldIn(s)) = n => HeldIn(s) = 0 .. n - 1)
    BY <1>3, <1>4, <1>5, FS_Subset
  <1>7. Cardinality(HeldIn(s)) \in Nat
    BY <1>6, FS_CardinalityType
  <1> QED BY <1>1, <1>2, <1>3, <1>4, <1>5, <1>6, <1>7

\* What a fragment does to the slot it is put in.
LEMMA FilledFacts ==
  ASSUME NEW s, Counted(s), NEW f, f.index \in 0 .. s.total - 1,
         f.chunk \in Chunk, f.chunk # Missing, Length(f.chunk) \in Nat, ~TooLarge(s, f),
         NEW r, r = Filled(s, f), MaxBytes \in Nat
  PROVE  /\ Counted(r) /\ r.total = s.total /\ 0 < r.received /\ r.first = s.first
         /\ DOMAIN r.chunks = DOMAIN s.chunks
         /\ r.chunks[f.index] = IF s.chunks[f.index] = Missing THEN f.chunk ELSE s.chunks[f.index]
         /\ \A i \in DOMAIN s.chunks : i # f.index => r.chunks[i] = s.chunks[i]
  <1>1. /\ s.total \in Nat \ {0} /\ s \in Partial(s.total)
        /\ s.received = Cardinality(HeldIn(s)) /\ s.bytes = HeldBytes(s) /\ s.bytes <= MaxBytes
    BY DEF Counted
  <1>2. /\ HeldIn(s) \subseteq 0 .. s.total - 1 /\ IsFiniteSet(HeldIn(s))
        /\ DOMAIN s.chunks = 0 .. s.total - 1
        /\ s.received \in Nat
    BY CountedFacts
  <1>3. CASE s.chunks[f.index] # Missing
    <2>1. r = s
      BY <1>3 DEF Filled
    <2>2. f.index \in HeldIn(s)
      BY <1>2, <1>3 DEF HeldIn
    <2>3. Cardinality(HeldIn(s)) # 0
      BY <1>2, <2>2, FS_EmptySet
    <2>4. 0 < s.received
      BY <1>1, <1>2, <2>3
    <2> QED BY <1>2, <1>3, <2>1, <2>4
  <1>4. CASE s.chunks[f.index] = Missing
    <2>1. r = [s EXCEPT !.chunks = [s.chunks EXCEPT ![f.index] = f.chunk],
                        !.received = s.received + 1, !.bytes = s.bytes + Length(f.chunk)]
      BY <1>4 DEF Filled
    <2>2. s.bytes \in Nat /\ s.bytes + Length(f.chunk) \in Nat
          /\ s.bytes + Length(f.chunk) <= MaxBytes
      <3>1. s.bytes \in Nat
        BY <1>1 DEF Partial
      <3>2. ~(s.bytes + Length(f.chunk) > MaxBytes)
        BY <1>4 DEF TooLarge
      <3> QED BY <3>1, <3>2
    <2>3. [s.chunks EXCEPT ![f.index] = f.chunk] \in [0 .. s.total - 1 -> Chunk]
      BY <1>1 DEF Partial
    <2>4. /\ r \in Partial(s.total) /\ r.total = s.total /\ r.first = s.first
          /\ r.chunks = [s.chunks EXCEPT ![f.index] = f.chunk]
          /\ r.received = s.received + 1 /\ r.bytes = s.bytes + Length(f.chunk)
      <3>1. PICK T : T = s.total
        OBVIOUS
      <3>2. PICK cs : cs = [s.chunks EXCEPT ![f.index] = f.chunk]
        OBVIOUS
      <3>3. PICK m : m = s.bytes + Length(f.chunk)
        OBVIOUS
      <3>4. PICK n : n = s.received + 1
        OBVIOUS
      <3>5. r = [s EXCEPT !.chunks = cs, !.received = n, !.bytes = m]
        BY <2>1, <3>2, <3>3, <3>4, Zenon
      <3>6. m \in Nat /\ n \in Nat /\ cs \in [0 .. T - 1 -> Chunk] /\ s \in Partial(T)
        BY <1>1, <1>2, <2>2, <2>3, <3>1, <3>2, <3>3, <3>4
      <3>7. /\ r \in Partial(T) /\ r.total = s.total /\ r.first = s.first
            /\ r.chunks = cs /\ r.received = n /\ r.bytes = m
        BY <3>5, <3>6 DEF Partial
      <3> QED BY <3>1, <3>2, <3>3, <3>4, <3>7
    <2>5. /\ DOMAIN r.chunks = DOMAIN s.chunks
          /\ r.chunks[f.index] = f.chunk
          /\ \A i \in DOMAIN s.chunks : i # f.index => r.chunks[i] = s.chunks[i]
      BY <1>2, <2>4
    <2>6. HeldIn(r) = HeldIn(s) \cup {f.index} /\ f.index \notin HeldIn(s)
      BY <1>2, <1>4, <2>5 DEF HeldIn
    <2>7. Cardinality(HeldIn(r)) = Cardinality(HeldIn(s)) + 1
      BY <1>2, <2>6, FS_AddElement
    <2>8. HeldBytes(r) = HeldBytes(s) + Length(f.chunk)
      <3>1. PICK T \in Nat \ {0} : T = s.total
        BY <1>1
      <3>2. /\ r.total = T /\ s.chunks \in [0 .. T - 1 -> Chunk]
            /\ r.chunks \in [0 .. T - 1 -> Chunk] /\ f.index \in 0 .. T - 1
            /\ DOMAIN s.chunks = 0 .. T - 1
        BY <1>1, <1>2, <2>4, <3>1 DEF Partial
      <3>3. s.chunks[f.index] = Missing /\ r.chunks[f.index] = f.chunk
            /\ \A j \in 0 .. T - 1 : j # f.index => r.chunks[j] = s.chunks[j]
        BY <1>4, <2>5, <3>2
      <3>4. s.total = T
        BY <3>1
      <3>5. HeldBytes(r) = HeldBytes(s) + Length(r.chunks[f.index])
        <4>1. PICK i : i = f.index
          OBVIOUS
        <4>2. /\ i \in 0 .. T - 1 /\ s.chunks[i] = Missing
              /\ \A j \in 0 .. T - 1 : j # i => r.chunks[j] = s.chunks[j]
          BY <3>2, <3>3, <4>1
        <4>3. T \in Nat \ {0} /\ s.total = T /\ r.total = T
              /\ s.chunks \in [0 .. T - 1 -> Chunk] /\ r.chunks \in [0 .. T - 1 -> Chunk]
          BY <3>2, <3>4
        <4>4. HeldBytes(r) = HeldBytes(s) + Length(r.chunks[i])
          BY ONLY <4>2, <4>3, BytesFilled
        <4> QED BY <4>1, <4>4
      <3> QED BY <3>3, <3>5
    <2>9. Counted(r) /\ 0 < r.received
      <3>1. r.bytes = HeldBytes(r)
        BY <1>1, <2>4, <2>8
      <3> QED BY <1>1, <1>2, <2>2, <2>4, <2>7, <3>1 DEF Counted
    <2> QED BY <1>4, <2>4, <2>5, <2>9
  <1> QED BY <1>3, <1>4

\* A slot that has just been made for a fragment.
LEMMA FreshFacts ==
  ASSUME NEW T \in Nat \ {0}, now \in Nat, MaxBytes \in Nat
  PROVE  /\ Counted(Fresh(T)) /\ Fresh(T).total = T /\ Fresh(T).first = now
         /\ \A i \in 0 .. T - 1 : Fresh(T).chunks[i] = Missing
  <1>1. Missing \in Chunk
    BY DEF Missing, Chunk
  <1>2. /\ Fresh(T) \in Partial(T) /\ Fresh(T).total = T /\ Fresh(T).received = 0
        /\ Fresh(T).bytes = 0 /\ Fresh(T).first = now
        /\ Fresh(T).chunks = [i \in 0 .. T - 1 |-> Missing]
    BY <1>1 DEF Fresh, Partial
  <1>3. HeldIn(Fresh(T)) = {}
    BY <1>2 DEF HeldIn
  <1>4. Cardinality(HeldIn(Fresh(T))) = 0
    BY <1>3, FS_EmptySet
  <1>5. HeldBytes(Fresh(T)) = 0
    BY <1>2, BytesFresh
  <1> QED BY <1>2, <1>4, <1>5 DEF Counted

SlotsInv ==
    /\ now \in Nat /\ frames \in Nat /\ dropped \subseteq Packet /\ DOMAIN arrived = Packet
    /\ DOMAIN slots \subseteq Packet /\ IsFiniteSet(DOMAIN slots)
    /\ Cardinality(DOMAIN slots) <= Slots
    /\ \A p \in DOMAIN slots : Lacking(slots[p])

LEMMA LimitTypes ==
  /\ Packet \subseteq Nat /\ MaxBytes \in Nat /\ Slots \in Nat \ {0} /\ FragHeader \in Nat
  /\ Timeout \in Nat
  BY PacketAssumption, LimitAssumption

\* Room for a packet is made by taking the slots of others.
LEMMA EvictedFacts ==
  ASSUME SlotsInv, NEW p \in Packet, NEW E, E = Evicted(p),
         NEW D, D = (DOMAIN slots \ E) \cup {p}
  PROVE  /\ E \subseteq DOMAIN slots /\ p \notin E
         /\ IsFiniteSet(D) /\ Cardinality(D) <= Slots
  <1>1. /\ DOMAIN slots \subseteq Packet /\ IsFiniteSet(DOMAIN slots)
        /\ Cardinality(DOMAIN slots) <= Slots /\ Cardinality(DOMAIN slots) \in Nat
        /\ Slots \in Nat \ {0}
    BY LimitTypes, FS_CardinalityType DEF SlotsInv
  <1>2. /\ DOMAIN slots \subseteq Nat
        /\ \A q \in DOMAIN slots : slots[q].first \in Nat
    BY LimitTypes DEF SlotsInv, Lacking, Counted, Partial
  <1>3. /\ Oldest(slots) \subseteq DOMAIN slots
        /\ DOMAIN slots # {} => Oldest(slots) # {}
    BY <1>2, OldestThere
  <1>4. E \subseteq DOMAIN slots /\ p \notin E
    BY <1>3 DEF Evicted
  <1>5. /\ IsFiniteSet(DOMAIN slots \ E)
        /\ Cardinality(DOMAIN slots \ E) \in Nat
        /\ Cardinality(DOMAIN slots \ E) <= Cardinality(DOMAIN slots)
        /\ Cardinality(DOMAIN slots \ E) = Cardinality(DOMAIN slots) => DOMAIN slots \ E = DOMAIN slots
    <2>1. DOMAIN slots \ E \in SUBSET DOMAIN slots
      OBVIOUS
    <2> QED BY <1>1, <2>1, FS_Subset, FS_CardinalityType
  <1>6. CASE p \in DOMAIN slots
    <2>1. E = {} /\ D = DOMAIN slots
      BY <1>4, <1>6 DEF Evicted
    <2> QED BY <1>1, <1>4, <2>1
  <1>7. CASE p \notin DOMAIN slots
    <2>1. p \notin DOMAIN slots \ E
      BY <1>7
    <2>2. IsFiniteSet(D) /\ Cardinality(D) = Cardinality(DOMAIN slots \ E) + 1
      BY <1>5, <2>1, FS_AddElement
    <2>3. Cardinality(DOMAIN slots \ E) < Slots
      <3>1. CASE Cardinality(DOMAIN slots) >= Slots
        <4>1. E = Oldest(slots)
          BY <1>7, <3>1 DEF Evicted
        <4>2. DOMAIN slots # {}
          <5>1. Cardinality(DOMAIN slots) # 0
            BY <1>1, <3>1
          <5> QED BY <5>1, FS_EmptySet
        <4>3. DOMAIN slots \ E # DOMAIN slots
          BY <1>3, <4>1, <4>2
        <4> QED BY <1>1, <1>5, <4>3
      <3>2. CASE ~(Cardinality(DOMAIN slots) >= Slots)
        BY <1>1, <1>5, <3>2
      <3> QED BY <3>1, <3>2
    <2> QED BY <1>1, <1>4, <1>5, <2>2, <2>3
  <1> QED BY <1>6, <1>7

LEMMA EntryFacts ==
  ASSUME SlotsInv, NEW p \in Packet, NEW f, Frame(p, f), f.kind # "complete",
         NEW s, s = Entry(p, f)
  PROVE  /\ Counted(s)
         /\ p \notin DOMAIN slots => /\ s.total = f.total
                                     /\ \A i \in DOMAIN s.chunks : s.chunks[i] = Missing
  <1>1. f.total \in Nat \ {0} /\ now \in Nat /\ MaxBytes \in Nat
    BY LimitTypes DEF Frame, SlotsInv
  <1>2. CASE p \in DOMAIN slots
    BY <1>2 DEF Entry, SlotsInv, Lacking
  <1>3. CASE p \notin DOMAIN slots
    <2>1. s = Fresh(f.total)
      BY <1>3 DEF Entry
    <2>2. /\ Counted(s) /\ s.total = f.total
          /\ \A i \in 0 .. f.total - 1 : s.chunks[i] = Missing
      BY <1>1, <2>1, FreshFacts
    <2>3. DOMAIN s.chunks = 0 .. s.total - 1
      BY <2>2, CountedFacts
    <2> QED BY <1>3, <2>2, <2>3
  <1> QED BY <1>2, <1>3

\* The slot of a fragment that does not make its packet malformed.
Put(p, f, r) ==
    /\ Entry(p, f).total = f.total /\ r = Filled(Entry(p, f), f)
    /\ Counted(r) /\ r.total = f.total /\ 0 < r.received
    /\ f.index \in DOMAIN r.chunks /\ DOMAIN r.chunks = DOMAIN Entry(p, f).chunks
    /\ r.chunks[f.index] # Missing
    /\ r.chunks[f.index] = f.chunk \/ r.chunks[f.index] = Entry(p, f).chunks[f.index]
    /\ \A i \in DOMAIN r.chunks : i # f.index => r.chunks[i] = Entry(p, f).chunks[i]

LEMMA PutThere ==
  ASSUME SlotsInv, NEW p \in Packet, NEW f, Frame(p, f), f.kind # "complete", ~Malformed(p, f),
         NEW r, r = Filled(Entry(p, f), f)
  PROVE  Put(p, f, r)
  <1>1. PICK s : s = Entry(p, f)
    OBVIOUS
  <1>2. Counted(s)
    BY <1>1, EntryFacts
  <1>3. s.total = f.total /\ ~TooLarge(s, f)
    BY <1>1 DEF Malformed
  <1>4. /\ f.index \in 0 .. s.total - 1
        /\ f.chunk \in Chunk /\ f.chunk # Missing /\ Length(f.chunk) \in Nat /\ MaxBytes \in Nat
    BY <1>3, LimitTypes DEF Frame
  <1>5. r = Filled(s, f)
    BY <1>1
  <1>6. /\ Counted(r) /\ r.total = s.total /\ 0 < r.received
        /\ DOMAIN r.chunks = DOMAIN s.chunks
        /\ r.chunks[f.index] = IF s.chunks[f.index] = Missing THEN f.chunk ELSE s.chunks[f.index]
        /\ \A i \in DOMAIN s.chunks : i # f.index => r.chunks[i] = s.chunks[i]
    BY <1>2, <1>3, <1>4, <1>5, FilledFacts
  <1>7. DOMAIN s.chunks = 0 .. s.total - 1
    BY <1>2, CountedFacts
  <1> QED BY <1>1, <1>3, <1>4, <1>5, <1>6, <1>7 DEF Put

\* What a fragment does to the slots, to what is handed on and to what is dropped.
Ingested(p, f, E) ==
    /\ E \subseteq DOMAIN slots /\ p \notin E
    /\ dropped' \subseteq dropped \cup E \cup {p} /\ dropped \cup E \subseteq dropped'
    /\ DOMAIN slots' \subseteq (DOMAIN slots \ E) \cup {p}
    /\ \A q \in DOMAIN slots \ E : q # p => q \in DOMAIN slots' /\ slots'[q] = slots[q]
    /\ \/ p \in dropped' /\ p \notin DOMAIN slots' /\ handed' = handed
       \/ \E r : /\ Put(p, f, r)
                 /\ \/ /\ p \notin DOMAIN slots' /\ r.received = r.total
                       /\ handed' = handed \cup {<<p, Joined(r)>>}
                    \/ /\ p \in DOMAIN slots' /\ slots'[p] = r /\ r.received < r.total
                       /\ handed' = handed

LEMMA IngestedThere ==
  ASSUME SlotsInv, NEW p \in Packet, NEW f, Frame(p, f), f.kind # "complete",
         ingest_fragment(p, f), NEW E, E = Evicted(p)
  PROVE  Ingested(p, f, E)
  <1>1. E \subseteq DOMAIN slots /\ p \notin E
    BY EvictedFacts
  <1>2. PICK room : room = Without(slots, E)
    OBVIOUS
  <1>3. DOMAIN room = DOMAIN slots \ E /\ \A q \in DOMAIN slots \ E : room[q] = slots[q]
    BY <1>2 DEF Without
  <1>4. PICK r : r = Filled(Entry(p, f), f)
    OBVIOUS
  <1>5. /\ slots' = IF Malformed(p, f) \/ HandsOn(p, f) THEN Without(room, {p})
                    ELSE With(room, p, r)
        /\ handed' = IF HandsOn(p, f) THEN handed \cup {<<p, Joined(r)>>} ELSE handed
        /\ dropped' = dropped \cup E \cup (IF Malformed(p, f) THEN {p} ELSE {})
    BY <1>2, <1>4 DEF ingest_fragment
  <1>6. dropped' \subseteq dropped \cup E \cup {p} /\ dropped \cup E \subseteq dropped'
    BY <1>5
  <1>7. CASE Malformed(p, f)
    <2>1. ~HandsOn(p, f)
      BY <1>7 DEF HandsOn
    <2>2. slots' = Without(room, {p}) /\ handed' = handed /\ p \in dropped'
      BY <1>5, <1>7, <2>1
    <2>3. /\ DOMAIN slots' = (DOMAIN slots \ E) \ {p}
          /\ \A q \in DOMAIN slots \ E : q # p => q \in DOMAIN slots' /\ slots'[q] = slots[q]
      BY <1>3, <2>2 DEF Without
    <2> QED BY <1>1, <1>6, <2>2, <2>3 DEF Ingested
  <1>8. CASE ~Malformed(p, f)
    <2>1. Put(p, f, r)
      BY <1>4, <1>8, PutThere
    <2>2. r.received \in Nat /\ r.received <= r.total /\ r.total \in Nat
      BY <2>1, CountedFacts DEF Put
    <2>3. HandsOn(p, f) <=> r.received = r.total
      BY <1>4, <1>8 DEF HandsOn, Complete
    <2>4. CASE HandsOn(p, f)
      <3>1. slots' = Without(room, {p}) /\ handed' = handed \cup {<<p, Joined(r)>>}
        BY <1>5, <2>4
      <3>2. /\ DOMAIN slots' = (DOMAIN slots \ E) \ {p}
            /\ \A q \in DOMAIN slots \ E : q # p => q \in DOMAIN slots' /\ slots'[q] = slots[q]
        BY <1>3, <3>1 DEF Without
      <3> QED BY <1>1, <1>6, <2>1, <2>3, <2>4, <3>1, <3>2 DEF Ingested
    <2>5. CASE ~HandsOn(p, f)
      <3>1. slots' = With(room, p, r) /\ handed' = handed
        BY <1>5, <1>8, <2>5
      <3>2. /\ DOMAIN slots' = (DOMAIN slots \ E) \cup {p} /\ slots'[p] = r
            /\ \A q \in DOMAIN slots \ E : q # p => q \in DOMAIN slots' /\ slots'[q] = slots[q]
        BY <1>3, <3>1 DEF With
      <3>3. r.received < r.total
        BY <2>2, <2>3, <2>5
      <3> QED BY <1>1, <1>6, <2>1, <3>1, <3>2, <3>3 DEF Ingested
    <2> QED BY <2>4, <2>5
  <1> QED BY <1>7, <1>8

\* The slots after a frame, a tick or time.
LEMMA SlotsFewer ==
  ASSUME SlotsInv, NEW D, IsFiniteSet(D), Cardinality(D) <= Slots, DOMAIN slots' \subseteq D,
         DOMAIN slots' \subseteq Packet, \A q \in DOMAIN slots' : Lacking(slots[q])',
         now' \in Nat, frames' \in Nat, dropped' \subseteq Packet, DOMAIN arrived' = Packet
  PROVE  SlotsInv'
  <1>1. IsFiniteSet(DOMAIN slots') /\ Cardinality(DOMAIN slots') <= Cardinality(D)
    <2>1. DOMAIN slots' \in SUBSET D
      OBVIOUS
    <2> QED BY <2>1, FS_Subset
  <1>2. /\ Cardinality(DOMAIN slots') \in Nat /\ Cardinality(D) \in Nat /\ Slots \in Nat
    BY <1>1, FS_CardinalityType, LimitTypes
  <1>3. Cardinality(DOMAIN slots') <= Slots
    BY <1>1, <1>2
  <1> QED BY <1>1, <1>3 DEF SlotsInv

LEMMA SlotsTick ==
  ASSUME SlotsInv, evict_expired
  PROVE  SlotsInv'
  <1>1. /\ slots' = Without(slots, Expired) /\ dropped' = dropped \cup Expired
        /\ UNCHANGED <<now, handed, frames, arrived>>
    BY DEF evict_expired
  <1>2. /\ DOMAIN slots' \subseteq DOMAIN slots
        /\ \A q \in DOMAIN slots' : slots'[q] = slots[q]
    BY <1>1 DEF Without
  <1>3. Expired \subseteq DOMAIN slots
    BY DEF Expired
  <1>4. \A q \in DOMAIN slots' : Lacking(slots[q])'
    BY <1>2 DEF SlotsInv, Lacking, Counted, HeldIn
  <1>5. /\ IsFiniteSet(DOMAIN slots) /\ Cardinality(DOMAIN slots) <= Slots
        /\ DOMAIN slots' \subseteq Packet /\ now' \in Nat /\ frames' \in Nat
        /\ dropped' \subseteq Packet /\ DOMAIN arrived' = Packet
    BY <1>1, <1>2, <1>3 DEF SlotsInv
  <1> QED BY <1>2, <1>4, <1>5, SlotsFewer

LEMMA SlotsIngest ==
  ASSUME SlotsInv, NEW p \in Packet, NEW f, Frame(p, f), ingest(p, f)
  PROVE  SlotsInv'
  <1>1. /\ now' = now /\ frames' = frames + 1 /\ arrived' = [arrived EXCEPT ![p] = @ \cup {f}]
    BY DEF ingest
  <1>2. now' \in Nat /\ frames' \in Nat /\ DOMAIN arrived' = Packet
    BY <1>1 DEF SlotsInv
  <1>3. CASE f.kind = "complete"
    <2>1. slots' = slots /\ dropped' = dropped
      BY <1>3 DEF ingest
    <2> QED BY <1>2, <2>1 DEF SlotsInv, Lacking, Counted, HeldIn
  <1>4. CASE f.kind # "complete"
    <2>1. ingest_fragment(p, f)
      BY <1>4 DEF ingest
    <2>2. PICK E : E = Evicted(p)
      OBVIOUS
    <2>3. Ingested(p, f, E)
      BY <1>4, <2>1, <2>2, IngestedThere
    <2>4. PICK D : D = (DOMAIN slots \ E) \cup {p}
      OBVIOUS
    <2>5. IsFiniteSet(D) /\ Cardinality(D) <= Slots
      BY <2>2, <2>4, EvictedFacts
    <2>6. /\ DOMAIN slots' \subseteq D /\ DOMAIN slots' \subseteq Packet
          /\ dropped' \subseteq Packet
      BY <2>3, <2>4 DEF Ingested, SlotsInv
    <2>7. ASSUME NEW q \in DOMAIN slots'
          PROVE  \E s : s = slots'[q] /\ Lacking(s)
      <3>1. CASE q # p
        <4>1. q \in DOMAIN slots /\ slots'[q] = slots[q]
          BY <2>3, <2>7, <3>1 DEF Ingested
        <4> QED BY <4>1 DEF SlotsInv
      <3>2. CASE q = p
        <4>1. PICK r : Put(p, f, r) /\ slots'[p] = r /\ r.received < r.total
          BY <2>3, <2>7, <3>2 DEF Ingested
        <4> QED BY <3>2, <4>1 DEF Put, Lacking
      <3> QED BY <3>1, <3>2
    <2>8. \A q \in DOMAIN slots' : Lacking(slots[q])'
      BY <2>7 DEF Lacking, Counted, HeldIn
    <2> QED BY <1>2, <2>5, <2>6, <2>8, SlotsFewer
  <1> QED BY <1>3, <1>4

LEMMA SlotsNext ==
  SlotsInv /\ [Next]_vars => SlotsInv'
  <1> SUFFICES ASSUME SlotsInv, [Next]_vars
               PROVE  SlotsInv'
    OBVIOUS
  <1>1. ASSUME NEW p \in Packet, NEW mtu \in Mtu, NEW f \in split(p, mtu), on_frame(p, f)
        PROVE  SlotsInv'
    <2>1. Frame(p, f) /\ ingest(p, f)
      BY <1>1, FrameFacts DEF on_frame
    <2> QED BY <2>1, SlotsIngest
  <1>2. CASE tick
    BY <1>2, SlotsTick DEF tick
  <1>3. CASE TimePasses
    BY <1>3 DEF TimePasses, Advance, SlotsInv, Lacking, Counted, HeldIn
  <1>4. CASE UNCHANGED vars
    BY <1>4 DEF vars, reassembly, SlotsInv, Lacking, Counted, HeldIn
  <1> QED BY <1>1, <1>2, <1>3, <1>4 DEF Next

LEMMA SlotsStart ==
  Init => SlotsInv
  <1> SUFFICES ASSUME Init
               PROVE  SlotsInv
    OBVIOUS
  <1>1. /\ now = 1 /\ frames = 0 /\ dropped = {} /\ slots = << >>
        /\ arrived = [p \in Packet |-> {}]
    BY DEF Init, Empty
  <1>2. DOMAIN slots = {} /\ DOMAIN arrived = Packet
    BY <1>1
  <1>3. IsFiniteSet(DOMAIN slots) /\ Cardinality(DOMAIN slots) = 0
    BY <1>2, FS_EmptySet
  <1> QED BY <1>1, <1>2, <1>3, LimitTypes DEF SlotsInv

\* The slots are never more than reassembly_slots and no bucket is overdrawn or
\* overfull (Reassembler::ingest, RateLimiter::allow).
THEOREM TypeCorrect == Spec => []TypeOK
  <1>1. SlotsInv => SlotsOK
    <2> SUFFICES ASSUME SlotsInv
                 PROVE  SlotsOK
      OBVIOUS
    <2>1. \A p \in DOMAIN slots :
             slots[p].total \in Nat \ {0} /\ slots[p] \in Partial(slots[p].total)
      BY DEF SlotsInv, Lacking, Counted
    <2> QED BY <2>1 DEF SlotsInv, SlotsOK
  <1>2. RateInv => \A s \in DOMAIN buckets :
           buckets[s] \in [tokens : 0 .. Burst * RefillTime, last : 0 .. now, until : Nat]
    BY DEF RateInv, Rated, Fits, Bucket, Full
  <1>3. SeenInv => DOMAIN seen \subseteq Packet
    BY DEF SeenInv
  <1>4. SlotsInv /\ RateInv /\ SeenInv => TypeOK
    BY <1>1, <1>2, <1>3 DEF TypeOK
  <1> QED BY <1>4, RateStart, RateNext, SeenStart, SeenNext, SlotsStart, SlotsNext, PTL DEF Spec

\* What a slot counts is what it holds, chunks and bytes: a complete packet never
\* lingers in it, and it never holds more than reassembly_max_bytes
\* (Reassembler::ingest).
THEOREM CountsTheorem == Spec => []CountsMatch
  <1>1. SlotsInv => CountsMatch
    BY DEF SlotsInv, Lacking, Counted, HeldIn, CountsMatch
  <1> QED BY <1>1, SlotsStart, SlotsNext, PTL DEF Spec

-----------------------------------------------------------------------------
(***************************************************************************)
(* A packet that was neither handed on nor dropped has all its fragments   *)
(* that came in its slot.                                                  *)
(***************************************************************************)
HandedOn(p) == \E h \in handed : h[1] = p

Present(p, f) ==
    /\ f.kind # "complete" /\ p \in DOMAIN slots /\ slots[p].total = f.total
    /\ f.index \in DOMAIN slots[p].chunks /\ slots[p].chunks[f.index] # Missing

CameInv ==
    \A p \in Packet : p \notin dropped /\ ~HandedOn(p) => \A f \in arrived[p] : Present(p, f)

LEMMA CameIngest ==
  ASSUME SlotsInv, CameInv, NEW p \in Packet, NEW f, Frame(p, f), ingest(p, f)
  PROVE  CameInv'
  <1>1. arrived' = [arrived EXCEPT ![p] = @ \cup {f}] /\ DOMAIN arrived = Packet
    BY DEF ingest, SlotsInv
  <1>2. /\ arrived'[p] = arrived[p] \cup {f}
        /\ \A q \in Packet : q # p => arrived'[q] = arrived[q]
    BY <1>1
  <1> SUFFICES ASSUME NEW q \in Packet, q \notin dropped', ~HandedOn(q)',
                      NEW g \in arrived'[q]
               PROVE  Present(q, g)'
    BY DEF CameInv
  <1>3. CASE f.kind = "complete"
    <2>1. /\ handed' = handed \cup {<<p, <<f.chunk>>>>} /\ slots' = slots /\ dropped' = dropped
      BY <1>3 DEF ingest
    <2>2. HandedOn(p)'
      <3>1. PICK h : h = <<p, <<f.chunk>>>>
        OBVIOUS
      <3>2. h \in handed' /\ h[1] = p
        BY <2>1, <3>1
      <3> QED BY <3>2 DEF HandedOn
    <2>3. q # p /\ ~HandedOn(q) /\ q \notin dropped
      BY <2>1, <2>2 DEF HandedOn
    <2>4. Present(q, g)
      BY <1>2, <2>3 DEF CameInv
    <2> QED BY <2>1, <2>4 DEF Present
  <1>4. CASE f.kind # "complete"
    <2>1. PICK E : E = Evicted(p)
      OBVIOUS
    <2>2. Ingested(p, f, E)
      <3>1. ingest_fragment(p, f)
        BY <1>4 DEF ingest
      <3> QED BY <1>4, <2>1, <3>1, IngestedThere
    <2>3. q \notin dropped /\ q \notin E /\ handed \subseteq handed'
      BY <2>2 DEF Ingested
    <2>4. ~HandedOn(q)
      BY <2>3 DEF HandedOn
    <2>5. \A h \in arrived[q] : Present(q, h)
      BY <2>3, <2>4 DEF CameInv
    <2>6. CASE q # p
      <3>1. Present(q, g)
        BY <1>2, <2>5, <2>6
      <3>2. q \in DOMAIN slots' /\ slots'[q] = slots[q]
        BY <2>2, <2>3, <2>6, <3>1 DEF Ingested, Present
      <3> QED BY <3>1, <3>2 DEF Present
    <2>7. CASE q = p
      <3>1. PICK r : Put(p, f, r) /\ p \in DOMAIN slots' /\ slots'[p] = r
        <4>1. ~HandedOn(p)' /\ p \notin dropped'
          BY <2>7
        <4>2. \A c : <<p, c>> \notin handed'
          BY <4>1 DEF HandedOn
        <4> QED BY <2>2, <4>1, <4>2 DEF Ingested
      <3>2. CASE g = f
        BY <1>4, <2>7, <3>1, <3>2 DEF Present, Put
      <3>3. CASE g # f
        <4>1. Present(p, g)
          BY <1>2, <2>5, <2>7, <3>3
        <4>2. Entry(p, f) = slots[p]
          BY <4>1 DEF Present, Entry
        <4>3. /\ r.total = g.total /\ g.index \in DOMAIN r.chunks
              /\ r.chunks[g.index] # Missing
          BY <3>1, <4>1, <4>2 DEF Present, Put
        <4> QED BY <2>7, <3>1, <4>1, <4>3 DEF Present
      <3> QED BY <3>2, <3>3
    <2> QED BY <2>6, <2>7
  <1> QED BY <1>3, <1>4

LEMMA CameNext ==
  SlotsInv /\ CameInv /\ [Next]_vars => CameInv'
  <1> SUFFICES ASSUME SlotsInv, CameInv, [Next]_vars
               PROVE  CameInv'
    OBVIOUS
  <1>1. ASSUME NEW p \in Packet, NEW mtu \in Mtu, NEW f \in split(p, mtu), on_frame(p, f)
        PROVE  CameInv'
    <2>1. Frame(p, f) /\ ingest(p, f)
      BY <1>1, FrameFacts DEF on_frame
    <2> QED BY <2>1, CameIngest
  <1>2. CASE tick
    <2>1. /\ slots' = Without(slots, Expired) /\ dropped' = dropped \cup Expired
          /\ handed' = handed /\ arrived' = arrived
      BY <1>2 DEF tick, evict_expired
    <2>2. \A q \in DOMAIN slots : q \notin Expired => q \in DOMAIN slots' /\ slots'[q] = slots[q]
      BY <2>1 DEF Without
    <2> QED BY <2>1, <2>2 DEF CameInv, HandedOn, Present
  <1>3. CASE TimePasses
    BY <1>3 DEF TimePasses, Advance, CameInv, HandedOn, Present
  <1>4. CASE UNCHANGED vars
    BY <1>4 DEF vars, reassembly, CameInv, HandedOn, Present
  <1> QED BY <1>1, <1>2, <1>3, <1>4 DEF Next

\* A slot that has a fragment of every index would be complete.
LEMMA CameMeans ==
  SlotsInv /\ CameInv => HandedWhenAllCame
  <1> SUFFICES ASSUME SlotsInv, CameInv, NEW p \in Packet, NEW mtu \in Mtu,
                      split(p, mtu) # {}, split(p, mtu) \subseteq arrived[p],
                      p \notin dropped, ~HandedOn(p)
               PROVE  FALSE
    BY DEF HandedWhenAllCame, HandedOn
  <1>1. \A f \in split(p, mtu) : Present(p, f)
    BY DEF CameInv
  <1>2. ~(mtu <= FragHeader)
    BY DEF split
  <1>3. ~(Size[p] < mtu)
    BY <1>1, <1>2 DEF split, Present
  <1>4. PICK T : T = total_of(p, mtu)
    OBVIOUS
  <1>5. split(p, mtu) = {[kind |-> "fragment", index |-> i, total |-> T,
                          chunk |-> chunk(p, mtu, i)] : i \in 0 .. T - 1}
    BY <1>2, <1>3, <1>4 DEF split
  <1>6. ASSUME NEW i \in 0 .. T - 1
        PROVE  /\ p \in DOMAIN slots /\ slots[p].total = T
               /\ i \in DOMAIN slots[p].chunks /\ slots[p].chunks[i] # Missing
    <2>1. PICK f : f = [kind |-> "fragment", index |-> i, total |-> T, chunk |-> chunk(p, mtu, i)]
      OBVIOUS
    <2>2. f \in split(p, mtu)
      BY <1>5, <2>1
    <2>3. f.index = i /\ f.total = T
      BY <2>1
    <2> QED BY <1>1, <2>2, <2>3 DEF Present
  <1>7. \E i : i \in 0 .. T - 1
    BY <1>5
  <1>8. p \in DOMAIN slots /\ slots[p].total = T
    BY <1>6, <1>7
  <1>9. PICK s : s = slots[p]
    OBVIOUS
  <1>10. Counted(s) /\ s.received < s.total /\ s.total = T
    BY <1>8, <1>9 DEF SlotsInv, Lacking
  <1>11. /\ HeldIn(s) \subseteq 0 .. s.total - 1
         /\ HeldIn(s) = 0 .. s.total - 1 <=> s.received = s.total
         /\ s.received \in Nat /\ s.total \in Nat
    BY <1>10, CountedFacts
  <1>12. 0 .. T - 1 \subseteq HeldIn(s)
    BY <1>6, <1>9 DEF HeldIn
  <1>13. HeldIn(s) = 0 .. s.total - 1
    BY <1>10, <1>11, <1>12
  <1>14. s.received = s.total
    BY <1>11, <1>13
  <1> QED BY <1>10, <1>11, <1>14

LEMMA CameStart ==
  Init => CameInv
  BY DEF Init, Empty, CameInv

\* A packet whose frames have all come over one link is handed on unless its slot was
\* taken, timed out or refused, whatever else came between them and in whatever
\* order (Reassembler::ingest).
THEOREM HandedWhenAllCameTheorem == Spec => []HandedWhenAllCame
  BY CameStart, CameNext, CameMeans, SlotsStart, SlotsNext, PTL DEF Spec

-----------------------------------------------------------------------------
(***************************************************************************)
(* What is handed on is the packet, if copies that are cut into as many    *)
(* fragments are cut at the same places: the slot knows only the number.   *)
(***************************************************************************)
CutAlike ==
    \A p \in Packet : \A m, n \in Mtu :
        Cut(p, m) /\ Cut(p, n) /\ total_of(p, m) = total_of(p, n) => m = n

OfOneCut(p, s, m) ==
    /\ Cut(p, m) /\ s.total = total_of(p, m)
    /\ \A i \in DOMAIN s.chunks : s.chunks[i] # Missing => s.chunks[i] = chunk(p, m, i)

CutInv == /\ \A p \in DOMAIN slots : \E m \in Mtu : OfOneCut(p, slots[p], m)
          /\ HandedWhole

LEMMA JoinedWhole ==
  ASSUME NEW p \in Packet, NEW s, NEW m \in Mtu, OfOneCut(p, s, m), Counted(s), s.received = s.total
  PROVE  Whole(p, Joined(s))
  <1>1. PICK T : T = total_of(p, m)
    OBVIOUS
  <1>2. Cut(p, m) /\ s.total = T
    BY <1>1 DEF OfOneCut
  <1>3. T \in Nat \ {0} /\ DOMAIN s.chunks = 0 .. T - 1 /\ HeldIn(s) = 0 .. T - 1
    BY <1>1, <1>2, CutFacts, CountedFacts
  <1>4. \A i \in 0 .. T - 1 : s.chunks[i] = chunk(p, m, i)
    BY <1>3 DEF HeldIn, OfOneCut
  <1>5. PICK c : c = chunk_size(m)
    OBVIOUS
  <1>6. \A i \in 0 .. T - 1 :
               /\ s.chunks[i][1] = i * c
               /\ i < T - 1 => s.chunks[i][2] = (i + 1) * c
               /\ i = T - 1 => s.chunks[i][2] = Size[p]
    BY <1>1, <1>2, <1>4, <1>5, CutFacts
  <1>7. Joined(s) = [k \in 1 .. T |-> s.chunks[k - 1]]
    BY <1>2 DEF Joined
  <1>8. Len(Joined(s)) = T /\ \A k \in 1 .. T : Joined(s)[k] = s.chunks[k - 1] /\ k - 1 \in 0 .. T - 1
    BY <1>3, <1>7
  <1>9. Joined(s)[1][1] = 0
    <2>1. 1 \in 1 .. T /\ 1 - 1 = 0 /\ 0 \in 0 .. T - 1
      BY <1>3
    <2>2. Joined(s)[1] = s.chunks[0] /\ s.chunks[0][1] = 0 * c
      BY <1>6, <1>8, <2>1
    <2>3. c \in Nat
      BY <1>2, <1>5, Sizes DEF Cut
    <2> QED BY <2>2, <2>3
  <1>10. Joined(s)[T][2] = Size[p]
    <2>1. T \in 1 .. T /\ T - 1 \in 0 .. T - 1
      BY <1>3
    <2> QED BY <1>6, <1>8, <2>1
  <1>11. ASSUME NEW k \in 1 .. T - 1
         PROVE  Joined(s)[k][2] = Joined(s)[k + 1][1]
    <2>1. /\ k \in 1 .. T /\ k + 1 \in 1 .. T /\ k - 1 \in 0 .. T - 1 /\ k \in 0 .. T - 1
          /\ (k + 1) - 1 = k /\ (k - 1) + 1 = k /\ k - 1 < T - 1
      BY <1>3
    <2>2. Joined(s)[k][2] = k * c
      <3>1. Joined(s)[k] = s.chunks[k - 1]
        BY <1>8, <2>1
      <3>2. s.chunks[k - 1][2] = ((k - 1) + 1) * c
        BY <1>6, <2>1
      <3> QED BY <2>1, <3>1, <3>2
    <2>3. Joined(s)[k + 1][1] = k * c
      BY <1>6, <1>8, <2>1
    <2> QED BY <2>2, <2>3
  <1> QED BY <1>8, <1>9, <1>10, <1>11 DEF Whole

LEMMA CutIngest ==
  ASSUME CutAlike, SlotsInv, CutInv, NEW p \in Packet, NEW f, Frame(p, f), ingest(p, f)
  PROVE  CutInv'
  <1>1. CASE f.kind = "complete"
    <2>1. slots' = slots /\ handed' = handed \cup {<<p, <<f.chunk>>>>}
      BY <1>1 DEF ingest
    <2>2. f.chunk = <<0, Size[p]>>
      BY <1>1 DEF Frame
    <2>3. Whole(p, <<f.chunk>>)
      BY <2>2 DEF Whole
    <2>4. HandedWhole'
      BY <2>1, <2>3 DEF HandedWhole, CutInv
    <2> QED BY <2>1, <2>4 DEF CutInv, OfOneCut
  <1>2. CASE f.kind # "complete"
    <2>1. PICK E : E = Evicted(p)
      OBVIOUS
    <2>2. Ingested(p, f, E)
      <3>1. ingest_fragment(p, f)
        BY <1>2 DEF ingest
      <3> QED BY <1>2, <2>1, <3>1, IngestedThere
    <2>3. PICK m \in Mtu :
             Cut(p, m) /\ f.total = total_of(p, m) /\ f.chunk = chunk(p, m, f.index)
      BY <1>2 DEF Frame
    <2>4. ASSUME NEW r, Put(p, f, r)
          PROVE  OfOneCut(p, r, m)
      <3>1. PICK s : s = Entry(p, f)
        OBVIOUS
      <3>2. /\ s.total = f.total /\ r.total = f.total /\ DOMAIN r.chunks = DOMAIN s.chunks
            /\ f.index \in DOMAIN r.chunks /\ r.chunks[f.index] # Missing
            /\ r.chunks[f.index] = f.chunk \/ r.chunks[f.index] = s.chunks[f.index]
            /\ \A i \in DOMAIN r.chunks : i # f.index => r.chunks[i] = s.chunks[i]
        BY <2>4, <3>1 DEF Put
      <3>3. \A i \in DOMAIN s.chunks : s.chunks[i] # Missing => s.chunks[i] = chunk(p, m, i)
        <4>1. CASE p \in DOMAIN slots
          <5>1. s = slots[p]
            BY <3>1, <4>1 DEF Entry
          <5>2. PICK n \in Mtu : OfOneCut(p, s, n)
            BY <4>1, <5>1 DEF CutInv
          <5>3. Cut(p, n) /\ s.total = total_of(p, n)
            BY <5>2 DEF OfOneCut
          <5>4. m = n
            BY <2>3, <3>2, <5>3 DEF CutAlike
          <5> QED BY <5>2, <5>4 DEF OfOneCut
        <4>2. CASE p \notin DOMAIN slots
          BY <1>2, <3>1, <4>2, EntryFacts
        <4> QED BY <4>1, <4>2
      <3> QED BY <2>3, <3>2, <3>3 DEF OfOneCut
    <2>5. ASSUME NEW q \in DOMAIN slots'
          PROVE  \E n \in Mtu : OfOneCut(q, slots'[q], n)
      <3>1. CASE q # p
        <4>1. q \in DOMAIN slots /\ slots'[q] = slots[q]
          BY <2>2, <2>5, <3>1 DEF Ingested
        <4> QED BY <4>1 DEF CutInv
      <3>2. CASE q = p
        <4>1. PICK r : Put(p, f, r) /\ slots'[p] = r
          BY <2>2, <2>5, <3>2 DEF Ingested
        <4> QED BY <2>4, <3>2, <4>1
      <3> QED BY <3>1, <3>2
    <2>6. HandedWhole'
      <3>1. CASE handed' = handed
        BY <3>1 DEF HandedWhole, CutInv
      <3>2. CASE handed' # handed
        <4>1. PICK r : /\ Put(p, f, r) /\ r.received = r.total
                       /\ handed' = handed \cup {<<p, Joined(r)>>}
          BY <2>2, <3>2 DEF Ingested
        <4>2. Whole(p, Joined(r))
          BY <2>4, <4>1, JoinedWhole DEF Put
        <4> QED BY <4>1, <4>2 DEF HandedWhole, CutInv
      <3> QED BY <3>1, <3>2
    <2>7. (\A q \in DOMAIN slots : \E n \in Mtu : OfOneCut(q, slots[q], n))'
      BY <2>5 DEF OfOneCut
    <2> QED BY <2>6, <2>7 DEF CutInv
  <1> QED BY <1>1, <1>2

LEMMA CutNext ==
  CutAlike /\ SlotsInv /\ CutInv /\ [Next]_vars => CutInv'
  <1> SUFFICES ASSUME CutAlike, SlotsInv, CutInv, [Next]_vars
               PROVE  CutInv'
    OBVIOUS
  <1>1. ASSUME NEW p \in Packet, NEW mtu \in Mtu, NEW f \in split(p, mtu), on_frame(p, f)
        PROVE  CutInv'
    <2>1. Frame(p, f) /\ ingest(p, f)
      BY <1>1, FrameFacts DEF on_frame
    <2> QED BY <2>1, CutIngest
  <1>2. CASE tick
    <2>1. slots' = Without(slots, Expired) /\ handed' = handed
      BY <1>2 DEF tick, evict_expired
    <2>2. \A q \in DOMAIN slots' : q \in DOMAIN slots /\ slots'[q] = slots[q]
      BY <2>1 DEF Without
    <2> QED BY <2>1, <2>2 DEF CutInv, OfOneCut, HandedWhole
  <1>3. CASE TimePasses
    BY <1>3 DEF TimePasses, Advance, CutInv, OfOneCut, HandedWhole
  <1>4. CASE UNCHANGED vars
    BY <1>4 DEF vars, reassembly, CutInv, OfOneCut, HandedWhole
  <1> QED BY <1>1, <1>2, <1>3, <1>4 DEF Next

\* What the Reassembler hands on is the packet, from its first byte to its last,
\* however its fragments are reordered, repeated and mixed with those of others
\* (Reassembler::ingest), as long as no two MTUs cut a packet into equally many
\* fragments, as when all links have one MTU.
THEOREM HandedWholeTheorem ==
  ASSUME CutAlike
  PROVE  Spec => []HandedWhole
  <1>1. Init => CutInv
    BY DEF Init, Empty, CutInv, HandedWhole
  <1>2. CutInv => HandedWhole
    BY DEF CutInv
  <1>3. SlotsInv /\ CutInv /\ [Next]_vars => CutInv'
    BY CutNext
  <1> QED BY <1>1, <1>2, <1>3, SlotsStart, SlotsNext, PTL DEF Spec

=============================================================================

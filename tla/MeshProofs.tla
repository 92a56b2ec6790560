---------------------------- MODULE MeshProofs ----------------------------
(***************************************************************************)
(* Proofs about ChannelMesh, for any graph of links and any constants: as  *)
(* long as no entry has left a SeenCache, nobody is shown a message twice  *)
(* or its own, only an originator of more packets than a burst is          *)
(* greylisted, and what a node has seen it has stored, up to the rate and  *)
(* the limits of the store.                                                *)
(***************************************************************************)
EXTENDS ChannelMesh, FiniteSetTheorems, TLAPS

LEMMA Tunables ==
  /\ Burst \in Nat /\ Burst > 0 /\ SeenCapacity \in Nat /\ SeenCapacity > 0
  /\ Ttl \in [Flooded -> Nat \ {0}] /\ TtlDense \in [Flooded -> Nat \ {0}]
  /\ HistoryMax \in Nat /\ HistoryMs \in Nat /\ Times \in [Node -> SUBSET Nat]
  BY TunableAssumption

LEMMA EndsAreNodes == \A l \in Link : Ends[l] \subseteq Node
  BY LinkAssumption

-----------------------------------------------------------------------------
(***************************************************************************)
(* Types.  The domains of the functions, and finite sets where SetToSeq    *)
(* is applied, complete TypeOK.                                            *)
(***************************************************************************)
Way == {e \in Link \X Node : e[2] \in Ends[e[1]]}
Entry == [pkt : Packet, heard : Nat \ {0}]
Waiting == [pkt : Packet, ttl : Nat, link : Link]
Stored == [pkt : Packet, ttl : Nat]
Bucket == [tokens : 0 .. Burst, grey : BOOLEAN]

ChanOK(c) == c \in [Way -> Seq(Hop)]

TypeInv ==
    /\ conn \subseteq Link
    /\ links \in [Node -> SUBSET Link]
    /\ \A n \in Node : links[n] \subseteq Incident(n)
    /\ ChanOK(chan)
    /\ seen \in [Node -> Seq(Entry)]
    /\ pend \in [Node -> SUBSET Waiting]
    /\ bucket \in [Node -> [Node -> Bucket]]
    /\ store \in [Node -> SUBSET Stored]
    /\ \A n \in Node : IsFiniteSet(pend[n]) /\ IsFiniteSet(store[n])
    /\ sub \subseteq Node
    /\ shown \in [Node -> SUBSET Packet]
    /\ again \in [Node -> SUBSET Packet]
    /\ \A n \in Node : again[n] \subseteq shown[n]
    /\ made \in [Node -> Nat]
    /\ used \in [Event -> Nat]

LEMMA TypeMeans == TypeInv => TypeOK
  <1> SUFFICES ASSUME TypeInv PROVE TypeOK
    OBVIOUS
  <1>1. \A n \in Node : /\ links[n] \subseteq Incident(n)
                        /\ seen[n] \in Seq([pkt : Packet, heard : Nat \ {0}])
                        /\ pend[n] \subseteq [pkt : Packet, ttl : Nat, link : Link]
                        /\ bucket[n] \in [Node -> [tokens : 0 .. Burst, grey : BOOLEAN]]
    BY DEF TypeInv, Entry, Waiting, Bucket
  <1>2. \A n \in Node : /\ store[n] \subseteq [pkt : Packet, ttl : Nat]
                        /\ again[n] \subseteq shown[n] /\ shown[n] \subseteq Packet
                        /\ made[n] \in Nat
    BY DEF TypeInv, Stored
  <1>3. \A e \in DOMAIN chan : chan[e] \in Seq(Hop)
    BY DEF TypeInv, ChanOK
  <1> QED BY <1>1, <1>2, <1>3 DEF TypeInv, TypeOK

LEMMA TypeInit == Init => TypeInv
  <1> SUFFICES ASSUME Init PROVE TypeInv
    OBVIOUS
  <1>1. IsFiniteSet({})
    BY FS_EmptySet
  <1>2. FullBucket \in Bucket
    BY Tunables DEF FullBucket, Bucket
  <1>3. bucket \in [Node -> [Node -> Bucket]]
    BY <1>2 DEF Init
  <1>4. /\ conn \subseteq Link /\ links \in [Node -> SUBSET Link]
        /\ \A n \in Node : links[n] \subseteq Incident(n)
        /\ sub \subseteq Node
    BY LinkAssumption, SubscriberAssumption DEF Init, Incident
  <1>5. ChanOK(chan) /\ seen \in [Node -> Seq(Entry)]
    BY DEF Init, ChanOK, Way
  <1>6. /\ pend \in [Node -> SUBSET Waiting] /\ store \in [Node -> SUBSET Stored]
        /\ \A n \in Node : IsFiniteSet(pend[n]) /\ IsFiniteSet(store[n])
    BY <1>1 DEF Init
  <1>7. /\ shown \in [Node -> SUBSET Packet] /\ again \in [Node -> SUBSET Packet]
        /\ \A n \in Node : again[n] \subseteq shown[n]
        /\ made \in [Node -> Nat] /\ used \in [Event -> Nat]
    BY DEF Init
  <1> QED BY <1>3, <1>4, <1>5, <1>6, <1>7 DEF TypeInv

-----------------------------------------------------------------------------
(***************************************************************************)
(* The SeenCache.                                                          *)
(***************************************************************************)
\* What observing pkt makes of the cache q: until it is full, one more packet.
Observed(q, pkt, r) ==
    /\ r \in Seq(Entry)
    /\ PktsOf(r) \subseteq PktsOf(q) \cup {pkt}
    /\ Len(r) < SeenCapacity =>
          Len(q) < SeenCapacity /\ PktsOf(r) = PktsOf(q) \cup {pkt}

LEMMA ObserveFacts ==
  ASSUME NEW n \in Node, seen[n] \in Seq(Entry), NEW pkt \in Packet
  PROVE  Observed(seen[n], pkt, observe(n, pkt))
  <1> PICK q \in Seq(Entry) : q = seen[n]
    OBVIOUS
  <1> PICK N \in Nat : N = Len(q) /\ DOMAIN q = 1 .. N
    OBVIOUS
  <1>0. \A k \in 1 .. N : q[k] \in Entry
    OBVIOUS
  <1>1. CASE IsSeen(n, pkt)
    <2> DEFINE r == [k \in 1 .. N |->
                [q[k] EXCEPT !.heard = IF q[k].pkt = pkt THEN @ + 1 ELSE @]]
    <2>1. observe(n, pkt) = r
      BY <1>1 DEF observe
    <2>2. ASSUME NEW k \in 1 .. N
          PROVE  r[k] \in Entry /\ r[k].pkt = q[k].pkt
      <3>1. q[k] \in [pkt : Packet, heard : Nat \ {0}]
        BY <1>0 DEF Entry
      <3>2. q[k].heard + 1 \in Nat \ {0}
        BY <3>1
      <3> QED BY <3>1, <3>2 DEF Entry
    <2>3. r \in Seq(Entry) /\ Len(r) = N /\ DOMAIN r = 1 .. N
      <3>1. r \in [1 .. N -> Entry]
        BY <2>2
      <3> QED BY <3>1
    <2>4. PktsOf(r) = PktsOf(q)
      <3> HIDE DEF r
      <3> QED BY <2>2, <2>3 DEF PktsOf
    <2>5. pkt \in PktsOf(q)
      BY <1>1 DEF IsSeen, PktsOf
    <2> HIDE DEF r
    <2> QED BY <2>1, <2>3, <2>4, <2>5, Tunables DEF Observed
  <1>2. CASE ~IsSeen(n, pkt)
    <2> DEFINE e == [pkt |-> pkt, heard |-> 1]
               room == IF N >= SeenCapacity THEN Tail(q) ELSE q
    <2>1. observe(n, pkt) = Append(room, e)
      BY <1>2 DEF observe, evict_oldest
    <2>2. e \in Entry /\ e.pkt = pkt
      BY DEF Entry
    <2>3. room \in Seq(Entry) /\ (N < SeenCapacity => room = q)
          /\ (N >= SeenCapacity => Len(room) = N - 1)
      BY Tunables
    <2>4. \A k \in 1 .. Len(room) : \E j \in 1 .. N : room[k] = q[j]
      <3>1. CASE N >= SeenCapacity
        <4>1. q # << >> /\ room = Tail(q)
          BY <3>1, Tunables
        <4>2. \A k \in 1 .. N - 1 : Tail(q)[k] = q[k + 1] /\ k + 1 \in 1 .. N
          BY <4>1
        <4>3. Len(room) = N - 1
          BY <3>1, <2>3
        <4> QED BY <4>1, <4>2, <4>3
      <3>2. CASE N < SeenCapacity
        BY <3>2, <2>3
      <3> QED BY <3>1, <3>2, Tunables
    <2> HIDE DEF room, e
    <2> DEFINE r == Append(room, e)
    <2> PICK M \in Nat : M = Len(room)
      BY <2>3
    <2>5. r \in Seq(Entry) /\ Len(r) = M + 1 /\ DOMAIN r = 1 .. M + 1
          /\ r[M + 1] = e /\ \A k \in 1 .. M : r[k] = room[k]
      BY <2>2, <2>3
    <2> HIDE DEF r
    <2>6. PktsOf(r) \subseteq PktsOf(q) \cup {pkt}
      <3>1. \A k \in 1 .. M + 1 : k = M + 1 \/ k \in 1 .. M
        OBVIOUS
      <3>2. \A k \in 1 .. M + 1 : r[k].pkt = pkt \/ \E j \in 1 .. N : r[k].pkt = q[j].pkt
        BY <2>2, <2>4, <2>5, <3>1
      <3>3. ASSUME NEW y \in PktsOf(r)
            PROVE  y \in PktsOf(q) \cup {pkt}
        <4>1. PICK k \in 1 .. M + 1 : y = r[k].pkt
          BY <2>5 DEF PktsOf
        <4>2. CASE \E j \in 1 .. N : r[k].pkt = q[j].pkt
          <5>1. PICK j \in 1 .. N : y = q[j].pkt
            BY <4>1, <4>2
          <5> QED BY <5>1 DEF PktsOf
        <4> QED BY <3>2, <4>1, <4>2
      <3> QED BY <3>3
    <2>7. ASSUME Len(r) < SeenCapacity
          PROVE  Len(q) < SeenCapacity /\ PktsOf(r) = PktsOf(q) \cup {pkt}
      <3>1. N < SeenCapacity
        BY <2>3, <2>5, <2>7, Tunables
      <3>2. room = q /\ M = N
        BY <3>1, <2>3
      <3>3. PktsOf(q) \cup {pkt} \subseteq PktsOf(r)
        BY <2>2, <2>5, <3>2 DEF PktsOf
      <3> QED BY <2>6, <3>1, <3>3
    <2>8. observe(n, pkt) = r
      BY <2>1 DEF r
    <2> QED BY <2>5, <2>6, <2>7, <2>8 DEF Observed
  <1> QED BY <1>1, <1>2

-----------------------------------------------------------------------------
(***************************************************************************)
(* Frames on their way.                                                    *)
(***************************************************************************)
Carries(c, p) == \E e \in Way : \E k \in 1 .. Len(c[e]) : c[e][k].pkt = p
In(fs, p) == \E k \in 1 .. Len(fs) : fs[k].pkt = p

\* c is well formed and carries only what d does, or fs.
FromOrNew(c, d, fs) ==
    ChanOK(c) /\ \A p : Carries(c, p) => Carries(d, p) \/ In(fs, p)

LEMMA JoinedIn ==
  ASSUME NEW q \in Seq(Hop), NEW fs \in Seq(Hop)
  PROVE  /\ q \o fs \in Seq(Hop)
         /\ \A k \in 1 .. Len(q \o fs) :
               \/ \E j \in 1 .. Len(q) : (q \o fs)[k] = q[j]
               \/ \E j \in 1 .. Len(fs) : (q \o fs)[k] = fs[j]
  <1> PICK N \in Nat : N = Len(q)
    OBVIOUS
  <1> PICK M \in Nat : M = Len(fs)
    OBVIOUS
  <1>1. q \o fs \in Seq(Hop) /\ Len(q \o fs) = N + M
    OBVIOUS
  <1>2. ASSUME NEW k \in 1 .. N + M
        PROVE  \/ \E j \in 1 .. N : (q \o fs)[k] = q[j]
               \/ \E j \in 1 .. M : (q \o fs)[k] = fs[j]
    <2>1. CASE k <= N
      <3>1. (q \o fs)[k] = q[k] /\ k \in 1 .. N
        BY <2>1
      <3> QED BY <3>1
    <2>2. CASE k > N
      <3>1. (q \o fs)[k] = fs[k - N] /\ k - N \in 1 .. M
        BY <2>2
      <3> QED BY <3>1
    <2> QED BY <2>1, <2>2
  <1> QED BY <1>1, <1>2

LEMMA TransmitFacts ==
  ASSUME NEW c, ChanOK(c), NEW n, NEW ls, NEW fs \in Seq(Hop)
  PROVE  FromOrNew(Transmit(c, n, ls, fs), c, fs)
  <1> DEFINE d == Transmit(c, n, ls, fs)
  <1>1. DOMAIN c = Way /\ \A e \in Way : c[e] \in Seq(Hop)
    BY DEF ChanOK
  <1>2. d = [e \in Way |->
              IF e[1] \in ls \cap conn /\ e[2] # n THEN c[e] \o fs ELSE c[e]]
    BY <1>1 DEF Transmit
  <1>3. \A e \in Way : d[e] = c[e] \o fs \/ d[e] = c[e]
    BY <1>2
  <1>4. \A e \in Way : d[e] \in Seq(Hop)
    BY <1>1, <1>3, JoinedIn
  <1>5. ChanOK(d)
    BY <1>2, <1>4 DEF ChanOK
  <1> HIDE DEF d
  <1>6. ASSUME NEW p, NEW e \in Way, NEW k \in 1 .. Len(d[e]), d[e][k].pkt = p
        PROVE  Carries(c, p) \/ In(fs, p)
    <2>1. CASE d[e] = c[e]
      BY <1>6, <2>1 DEF Carries
    <2>2. CASE d[e] = c[e] \o fs
      <3>1. \/ \E j \in 1 .. Len(c[e]) : d[e][k] = c[e][j]
            \/ \E j \in 1 .. Len(fs) : d[e][k] = fs[j]
        BY <1>1, <1>6, <2>2, JoinedIn
      <3> QED BY <1>6, <3>1 DEF Carries, In
    <2> QED BY <1>3, <2>1, <2>2
  <1>7. \A p : Carries(d, p) => Carries(c, p) \/ In(fs, p)
    BY <1>6 DEF Carries
  <1> QED BY <1>5, <1>7 DEF FromOrNew, d

LEMMA RestFacts ==
  ASSUME ChanOK(chan), NEW l \in Link, NEW n \in Ends[l], Arrived(l, n)
  PROVE  /\ FromOrNew(Rest(l, n), chan, << >>)
         /\ First(l, n) \in Hop /\ Carries(chan, First(l, n).pkt)
  <1>1. <<l, n>> \in Way
    BY EndsAreNodes DEF Way
  <1>2. DOMAIN chan = Way /\ \A e \in Way : chan[e] \in Seq(Hop)
    BY DEF ChanOK
  <1> PICK q \in Seq(Hop) : q = chan[<<l, n>>]
    BY <1>1, <1>2
  <1> PICK N \in Nat : N = Len(q)
    OBVIOUS
  <1>3. q # << >> /\ N > 0
    BY DEF Arrived
  <1>4. Head(q) \in Hop /\ Head(q) = q[1] /\ 1 \in 1 .. N
    BY <1>3
  <1>5. First(l, n) \in Hop /\ Carries(chan, First(l, n).pkt)
    BY <1>1, <1>4 DEF First, Carries
  <1>6. /\ Tail(q) \in Seq(Hop) /\ Len(Tail(q)) = N - 1
        /\ \A k \in 1 .. N - 1 : Tail(q)[k] = q[k + 1] /\ k + 1 \in 1 .. N
    BY <1>3
  <1> DEFINE d == Rest(l, n)
  <1>7. d = [chan EXCEPT ![<<l, n>>] = Tail(q)]
    BY DEF Rest
  <1>8. ChanOK(d)
    BY <1>1, <1>2, <1>6, <1>7 DEF ChanOK
  <1>9. d[<<l, n>>] = Tail(q) /\ \A e \in Way : e # <<l, n>> => d[e] = chan[e]
    BY <1>1, <1>2, <1>7
  <1> HIDE DEF d
  <1>10. ASSUME NEW p, NEW e \in Way, NEW k \in 1 .. Len(d[e]), d[e][k].pkt = p
         PROVE  Carries(chan, p)
    <2>1. CASE e = <<l, n>>
      <3>1. d[e][k] = q[k + 1] /\ k + 1 \in 1 .. N
        BY <1>6, <1>9, <1>10, <2>1
      <3> QED BY <1>1, <1>10, <3>1 DEF Carries
    <2>2. CASE e # <<l, n>>
      BY <1>9, <1>10, <2>2 DEF Carries
    <2> QED BY <2>1, <2>2
  <1>11. \A p : Carries(d, p) => Carries(chan, p)
    BY <1>10 DEF Carries
  <1>12. FromOrNew(d, chan, << >>)
    BY <1>8, <1>11 DEF FromOrNew
  <1> QED BY <1>5, <1>12 DEF d

\* A finite set in some order.
LEMMA SetToSeqFacts ==
  ASSUME NEW S, IsFiniteSet(S)
  PROVE  SetToSeq(S) \in [1 .. Cardinality(S) -> S] /\ Cardinality(S) \in Nat
  <1>1. Cardinality(S) \in Nat /\ ExistsBijection(1 .. Cardinality(S), S)
    BY FS_CardinalityType
  <1>2. PICK f \in Bijection(1 .. Cardinality(S), S) : TRUE
    BY <1>1 DEF ExistsBijection
  <1>3. f \in [1 .. Cardinality(S) -> S] /\ IsInjective(f)
    BY <1>2 DEF Bijection, Injection, IsInjective
  <1>4. \E g \in [1 .. Cardinality(S) -> S] : IsInjective(g)
    BY <1>3
  <1> QED BY <1>1, <1>4 DEF SetToSeq

\* The frames of a finite set of stored or waiting packets.
LEMMA FramesOf ==
  ASSUME NEW S, IsFiniteSet(S), \A m \in S : m.pkt \in Packet /\ m.ttl \in Nat,
         NEW fs, fs = [k \in DOMAIN SetToSeq(S) |->
                         Frame(SetToSeq(S)[k].pkt, SetToSeq(S)[k].ttl, {})]
  PROVE  fs \in Seq(Hop) /\ \A p : In(fs, p) => \E m \in S : m.pkt = p
  <1> PICK ms : ms = SetToSeq(S)
    OBVIOUS
  <1> PICK N \in Nat : N = Cardinality(S)
    BY SetToSeqFacts
  <1>1. ms \in [1 .. N -> S]
    BY SetToSeqFacts
  <1>2. \A k \in 1 .. N : Frame(ms[k].pkt, ms[k].ttl, {}) \in Hop
    BY <1>1 DEF Frame, Hop
  <1>3. fs = [k \in 1 .. N |-> Frame(ms[k].pkt, ms[k].ttl, {})]
    BY <1>1
  <1>4. fs \in [1 .. N -> Hop]
    BY <1>2, <1>3
  <1>5. fs \in Seq(Hop) /\ Len(fs) = N
    BY <1>4
  <1>6. \A k \in 1 .. N : fs[k].pkt = ms[k].pkt /\ ms[k] \in S
    BY <1>1, <1>3 DEF Frame
  <1> QED BY <1>5, <1>6 DEF In

-----------------------------------------------------------------------------
(***************************************************************************)
(* Numbers.  Every packet that is about has a number below what its        *)
(* originator has made, and the number and the originator tell packets     *)
(* apart.                                                                  *)
(***************************************************************************)
Known(p) == \/ Carries(chan, p)
            \/ \E n \in Node : \/ p \in PktsOf(seen[n])
                               \/ \E r \in pend[n] : r.pkt = p
                               \/ \E m \in store[n] : m.pkt = p

Numbered(p) == p.src \in Node /\ p.k \in Nat /\ p.k < made[p.src]
NumInv == /\ \A p : Known(p) => p \in Packet /\ Numbered(p)
          /\ \A p, q : Known(p) /\ Known(q) /\ p.src = q.src /\ p.k = q.k => p = q

\* The packets that node n makes in a step: numbered from made[n] on.
Fresh(n, S) ==
    /\ \A p \in S : /\ p \in Packet /\ p.src = n
                    /\ made[n] <= p.k /\ p.k < made'[n]
    /\ \A p, q \in S : p.k = q.k => p = q

LEMMA NumStep ==
  ASSUME NumInv, made \in [Node -> Nat], made' \in [Node -> Nat],
         NEW n \in Node, NEW S, Fresh(n, S),
         \A s \in Node : made[s] <= made'[s],
         \A p : Known(p)' => Known(p) \/ p \in S
  PROVE  NumInv'
  <1>1. ASSUME NEW p, Known(p)'
        PROVE  p \in Packet /\ Numbered(p)'
    <2>1. CASE Known(p)
      <3>1. p \in Packet /\ p.src \in Node /\ p.k \in Nat /\ p.k < made[p.src]
        BY <2>1 DEF NumInv, Numbered
      <3>2. made[p.src] \in Nat /\ made'[p.src] \in Nat /\ made[p.src] <= made'[p.src]
        BY <3>1
      <3> QED BY <3>1, <3>2 DEF Numbered
    <2>2. CASE p \in S
      BY <2>2 DEF Fresh, Numbered, Packet
    <2> QED BY <1>1, <2>1, <2>2
  <1>2. ASSUME NEW p, NEW q, Known(p)', Known(q)', p.src = q.src, p.k = q.k
        PROVE  p = q
    <2>1. ASSUME NEW x, NEW y, Known(x), y \in S, x.src = y.src
          PROVE  x.k # y.k
      <3>1. x.src = n /\ x.k \in Nat /\ x.k < made[n] /\ made[n] <= y.k
        BY <2>1 DEF NumInv, Numbered, Fresh
      <3>2. y.k \in Nat /\ made[n] \in Nat
        BY <2>1 DEF Fresh, Packet
      <3> QED BY <3>1, <3>2
    <2>2. CASE Known(p) /\ Known(q)
      BY <1>2, <2>2 DEF NumInv
    <2>3. CASE p \in S /\ q \in S
      BY <1>2, <2>3 DEF Fresh
    <2>4. CASE Known(p) /\ q \in S
      BY <1>2, <2>1, <2>4
    <2>5. CASE p \in S /\ Known(q)
      BY <1>2, <2>1, <2>5
    <2> QED BY <1>2, <2>2, <2>3, <2>4, <2>5
  <1> QED BY <1>1, <1>2 DEF NumInv

-----------------------------------------------------------------------------
(***************************************************************************)
(* The rate limiter.  A bucket that is not greylisted has lost no more     *)
(* tokens than packets of the originator have been seen.                   *)
(***************************************************************************)
HeardOf(S, s) == {p \in S : p.src = s}

Charged(b, S, s, m) ==
    IF b.grey THEN m > Burst ELSE Burst <= b.tokens + Cardinality(HeardOf(S, s))

LEMMA ElapsedFacts ==
  ASSUME NEW a \in Bucket, NEW b \in Elapsed(a)
  PROVE  /\ b \in Bucket
         /\ b.grey => a.grey
         /\ ~b.grey => b.tokens = Burst \/ (~a.grey /\ a.tokens <= b.tokens)
  <1>1. FullBucket \in Bucket /\ FullBucket.grey = FALSE /\ FullBucket.tokens = Burst
    BY Tunables DEF FullBucket, Bucket
  <1>2. \/ b = a \/ b = FullBucket
        \/ ~a.grey /\ \E t \in a.tokens .. Burst : b = [a EXCEPT !.tokens = t]
    BY TunableAssumption DEF Elapsed
  <1>3. a.tokens \in 0 .. Burst /\ a.grey \in BOOLEAN
    BY DEF Bucket
  <1>4. CASE b = a
    BY <1>3, <1>4, Tunables
  <1>5. CASE b = FullBucket
    BY <1>1, <1>5
  <1>6. ASSUME ~a.grey, NEW t \in a.tokens .. Burst, b = [a EXCEPT !.tokens = t]
        PROVE  b \in Bucket /\ b.grey = a.grey /\ b.tokens = t /\ a.tokens <= t
    <2>1. t \in 0 .. Burst /\ a.tokens <= t
      BY <1>3, <1>6, Tunables
    <2> QED BY <1>6, <2>1 DEF Bucket
  <1> QED BY <1>2, <1>4, <1>5, <1>6

LEMMA AllowFacts ==
  ASSUME NEW b \in Bucket
  PROVE  /\ allow(b) \in Bucket
         /\ Allowed(b) => allow(b).grey = FALSE /\ ~b.grey /\ allow(b).tokens = b.tokens - 1
         /\ ~Allowed(b) => allow(b).grey = TRUE /\ (b.grey \/ b.tokens = 0)
  <1>1. b.tokens \in 0 .. Burst /\ b.grey \in BOOLEAN
    BY DEF Bucket
  <1>2. CASE Allowed(b)
    <2>1. b.tokens - 1 \in 0 .. Burst
      BY <1>1, <1>2, Tunables DEF Allowed
    <2>2. allow(b) = [b EXCEPT !.tokens = b.tokens - 1]
      BY <1>2 DEF allow
    <2> QED BY <1>1, <1>2, <2>1, <2>2 DEF Allowed, Bucket
  <1>3. CASE ~Allowed(b)
    <2>1. allow(b) = [b EXCEPT !.grey = TRUE]
      BY <1>3 DEF allow
    <2>2. b.grey \/ b.tokens = 0
      BY <1>1, <1>3, Tunables DEF Allowed
    <2> QED BY <1>3, <2>1, <2>2 DEF Bucket
  <1> QED BY <1>2, <1>3

\* Packets of one originator with different numbers below m are at most m.
LEMMA FewPackets ==
  ASSUME NEW H, NEW m \in Nat,
         \A p \in H : p.k \in Nat /\ p.k < m,
         \A p, q \in H : p.k = q.k => p = q
  PROVE  IsFiniteSet(H) /\ Cardinality(H) \in Nat /\ Cardinality(H) <= m
  <1> DEFINE f == [p \in H |-> p.k]
  <1>1. IsFiniteSet(0 .. m - 1) /\ Cardinality(0 .. m - 1) = m
    BY FS_Interval
  <1>2. f \in Injection(H, 0 .. m - 1)
    BY DEF Injection, IsInjective
  <1> HIDE DEF f
  <1>3. IsFiniteSet(H) /\ Cardinality(H) <= Cardinality(0 .. m - 1)
    BY <1>1, <1>2, FS_Injection
  <1> QED BY <1>1, <1>3, FS_CardinalityType

LEMMA HeardMore ==
  ASSUME NEW S, NEW T, NEW s, S \subseteq T, IsFiniteSet(T)
  PROVE  /\ Cardinality(HeardOf(S, s)) \in Nat /\ Cardinality(HeardOf(T, s)) \in Nat
         /\ Cardinality(HeardOf(S, s)) <= Cardinality(HeardOf(T, s))
  <1>1. IsFiniteSet(HeardOf(T, s))
    BY FS_Subset DEF HeardOf
  <1>2. HeardOf(S, s) \in SUBSET HeardOf(T, s)
    BY DEF HeardOf
  <1>3. IsFiniteSet(HeardOf(S, s)) /\ Cardinality(HeardOf(S, s)) <= Cardinality(HeardOf(T, s))
    BY <1>1, <1>2, FS_Subset
  <1> QED BY <1>1, <1>3, FS_CardinalityType

LEMMA ChargedKept ==
  ASSUME NEW b \in Bucket, NEW S, NEW T, NEW s, NEW m \in Nat, NEW k \in Nat,
         S \subseteq T, IsFiniteSet(T), m <= k, Charged(b, S, s, m)
  PROVE  Charged(b, T, s, k)
  <1>1. b.tokens \in Nat /\ b.grey \in BOOLEAN
    BY Tunables DEF Bucket
  <1>2. /\ Cardinality(HeardOf(S, s)) \in Nat /\ Cardinality(HeardOf(T, s)) \in Nat
        /\ Cardinality(HeardOf(S, s)) <= Cardinality(HeardOf(T, s))
    BY HeardMore
  <1> QED BY <1>1, <1>2, Tunables DEF Charged

LEMMA OneMoreHeard ==
  ASSUME NEW S, IsFiniteSet(S), NEW p, p \notin S
  PROVE  /\ Cardinality(HeardOf(S, p.src)) \in Nat
         /\ Cardinality(HeardOf(S \cup {p}, p.src)) = Cardinality(HeardOf(S, p.src)) + 1
  <1>1. IsFiniteSet(HeardOf(S, p.src)) /\ p \notin HeardOf(S, p.src)
    BY FS_Subset DEF HeardOf
  <1>2. HeardOf(S \cup {p}, p.src) = HeardOf(S, p.src) \cup {p}
    BY DEF HeardOf
  <1> QED BY <1>1, <1>2, FS_AddElement, FS_CardinalityType

LEMMA ChargedTaken ==
  ASSUME NEW a \in Bucket, NEW S, NEW p, NEW m \in Nat, IsFiniteSet(S), p \notin S,
         Charged(a, S, p.src, m), NEW b \in Elapsed(a), Allowed(b)
  PROVE  Charged(allow(b), S \cup {p}, p.src, m)
  <1>1. /\ b \in Bucket
        /\ ~b.grey => b.tokens = Burst \/ (~a.grey /\ a.tokens <= b.tokens)
    BY ElapsedFacts
  <1>2. allow(b).grey = FALSE /\ ~b.grey /\ allow(b).tokens = b.tokens - 1
    BY <1>1, AllowFacts
  <1> PICK c : c = Cardinality(HeardOf(S, p.src))
    OBVIOUS
  <1>3. c \in Nat /\ Cardinality(HeardOf(S \cup {p}, p.src)) = c + 1
    BY OneMoreHeard
  <1>4. a.tokens \in Nat /\ b.tokens \in Nat
    BY <1>1, Tunables DEF Bucket
  <1>5. Burst <= b.tokens + c
    <2>1. CASE b.tokens = Burst
      BY <2>1, <1>3, Tunables
    <2>2. CASE ~a.grey /\ a.tokens <= b.tokens
      BY <2>2, <1>3, <1>4, Tunables DEF Charged
    <2> QED BY <1>1, <1>2, <2>1, <2>2
  <1>6. Burst <= (b.tokens - 1) + (c + 1)
    BY <1>3, <1>4, <1>5, Tunables
  <1> QED BY <1>2, <1>3, <1>6 DEF Charged

LEMMA ChargedRefused ==
  ASSUME NEW a \in Bucket, NEW S, NEW p, NEW m \in Nat, IsFiniteSet(S), p \notin S,
         \A x \in HeardOf(S \cup {p}, p.src) : x.k \in Nat /\ x.k < m,
         \A x, y \in HeardOf(S \cup {p}, p.src) : x.k = y.k => x = y,
         Charged(a, S, p.src, m), NEW b \in Elapsed(a), ~Allowed(b)
  PROVE  m > Burst /\ Charged(allow(b), S \cup {p}, p.src, m)
  <1>1. /\ b \in Bucket
        /\ b.grey => a.grey
        /\ ~b.grey => b.tokens = Burst \/ (~a.grey /\ a.tokens <= b.tokens)
    BY ElapsedFacts
  <1>2. allow(b).grey = TRUE /\ (b.grey \/ b.tokens = 0)
    BY <1>1, AllowFacts
  <1> PICK c : c = Cardinality(HeardOf(S, p.src))
    OBVIOUS
  <1>3. c \in Nat /\ Cardinality(HeardOf(S \cup {p}, p.src)) = c + 1
    BY OneMoreHeard
  <1>4. c + 1 <= m
    BY <1>3, FewPackets
  <1>5. a.tokens \in Nat /\ b.tokens \in Nat
    BY <1>1, Tunables DEF Bucket
  <1>6. m > Burst
    <2>1. CASE b.grey
      BY <1>1, <2>1 DEF Charged
    <2>2. CASE ~b.grey
      <3>1. b.tokens = 0 /\ ~a.grey /\ a.tokens <= b.tokens
        BY <1>1, <1>2, <2>2, Tunables
      <3>2. Burst <= c
        BY <3>1, <1>3, <1>5, Tunables DEF Charged
      <3> QED BY <3>2, <1>3, <1>4, Tunables
    <2> QED BY <2>1, <2>2
  <1> QED BY <1>2, <1>6 DEF Charged

-----------------------------------------------------------------------------
(***************************************************************************)
(* The invariant of a node whose SeenCache has not forgotten anything:     *)
(* nothing has expired and it is not full, so nothing has been evicted.    *)
(***************************************************************************)
Remember(n) == used["expire"] = 0 /\ Len(seen[n]) < SeenCapacity

RowShown(n, S, sh, ag) == sh \subseteq S /\ ag = {} /\ \A p \in sh : p.src # n
RowRate(S, bk, mk) == \A s \in Node : Charged(bk[s], S, s, mk[s])
Messages(D, S) == \A q \in D : q \in S /\ q.kind = "chan"
RowStored(S, D, mk, w) ==
    /\ Messages(D, S)
    /\ w = 0 => \A p \in S : p.kind = "chan" =>
                    \/ p \in D
                    \/ mk[p.src] > Burst
                    \/ Outlived(p, S)

\* What a node has made and flooded it has seen.
OwnSeen(n) ==
    \A p : Known(p) /\ p.src = n /\ p.kind \in Flooded => p \in PktsOf(seen[n])

NodeInv(n) ==
    Remember(n) => /\ RowShown(n, PktsOf(seen[n]), shown[n], again[n])
                   /\ RowRate(PktsOf(seen[n]), bucket[n], made)
                   /\ RowStored(PktsOf(seen[n]), channel_digests(n), made, used["wipe"])
                   /\ OwnSeen(n)

MeshInv == TypeInv /\ NumInv /\ \A n \in Node : NodeInv(n)

LEMMA PktsFinite ==
  ASSUME NEW q \in Seq(Entry)
  PROVE  IsFiniteSet(PktsOf(q)) /\ PktsOf(q) \subseteq Packet
  <1> PICK N \in Nat : N = Len(q) /\ DOMAIN q = 1 .. N
    OBVIOUS
  <1>0. \A k \in 1 .. N : q[k] \in Entry
    OBVIOUS
  <1>1. \A k \in 1 .. N : q[k].pkt \in Packet
    BY <1>0 DEF Entry
  <1> DEFINE f == [k \in 1 .. N |-> q[k].pkt]
  <1>2. f \in Surjection(1 .. N, PktsOf(q))
    BY DEF Surjection, PktsOf
  <1>3. IsFiniteSet(1 .. N)
    BY FS_Interval
  <1> HIDE DEF f
  <1>4. IsFiniteSet(PktsOf(q))
    BY <1>2, <1>3, FS_Surjection
  <1> QED BY <1>1, <1>4 DEF PktsOf

LEMMA RateKept ==
  ASSUME NEW S, NEW T, S \subseteq T, IsFiniteSet(T), NEW bk \in [Node -> Bucket],
         NEW mk \in [Node -> Nat], NEW mk2 \in [Node -> Nat],
         \A s \in Node : mk[s] <= mk2[s], RowRate(S, bk, mk)
  PROVE  RowRate(T, bk, mk2)
  <1> SUFFICES ASSUME NEW s \in Node PROVE Charged(bk[s], T, s, mk2[s])
    BY DEF RowRate
  <1>1. bk[s] \in Bucket /\ mk[s] \in Nat /\ mk2[s] \in Nat /\ mk[s] <= mk2[s]
    OBVIOUS
  <1>2. Charged(bk[s], S, s, mk[s])
    BY DEF RowRate
  <1> QED BY <1>1, <1>2, ChargedKept

\* The more messages there are, the more room they need.
LEMMA OutlivedMore ==
  ASSUME NEW S, NEW T, S \subseteq T, IsFiniteSet(T), NEW p, Outlived(p, S)
  PROVE  Outlived(p, T)
  <1> DEFINE L(U) == {q \in U : q.kind = "chan" /\ q # p /\ q.at >= p.at}
  <1>1. /\ L(S) \subseteq L(T) /\ L(T) \subseteq T
        /\ \/ Cardinality(L(S)) >= HistoryMax
           \/ HistoryMs > 0 /\ \E q \in L(S) : q.at - p.at >= HistoryMs
    BY DEF Outlived
  <1>2. Outlived(p, T) <=>
           \/ Cardinality(L(T)) >= HistoryMax
           \/ HistoryMs > 0 /\ \E q \in L(T) : q.at - p.at >= HistoryMs
    BY DEF Outlived
  <1> HIDE DEF L
  <1>3. IsFiniteSet(L(T))
    BY <1>1, FS_Subset
  <1>4. Cardinality(L(S)) \in Nat /\ Cardinality(L(T)) \in Nat
        /\ Cardinality(L(S)) <= Cardinality(L(T))
    BY <1>1, <1>3, FS_Subset, FS_CardinalityType
  <1> QED BY <1>1, <1>2, <1>4, Tunables

\* What putting the row m leaves of a store, whose messages and m are in T: what
\* it does not leave has been outlived by messages of T.
LEMMA PutFacts ==
  ASSUME NEW stored \in SUBSET Stored, NEW m \in Stored,
         NEW kept \in put_channel_message(stored, m),
         NEW T, IsFiniteSet(T), T \subseteq Packet,
         \A q \in Digests(stored) \cup {m.pkt} : q \in T /\ q.kind = "chan"
  PROVE  /\ kept \subseteq stored \cup {m}
         /\ \A p \in Digests(stored) \cup {m.pkt} : p \in Digests(kept) \/ Outlived(p, T)
  <1> PICK all : all = IF m.pkt \in Digests(stored) THEN stored ELSE stored \cup {m}
    OBVIOUS
  <1> PICK young : young = {x \in all : HistoryMs > 0 => m.pkt.at - x.pkt.at < HistoryMs}
    OBVIOUS
  <1>1. PICK K \in Newest(Digests(young)) : kept = {x \in young : x.pkt \in K}
    BY DEF put_channel_message
  <1>2. all \subseteq stored \cup {m} /\ kept \subseteq young /\ young \subseteq all
    BY <1>1
  <1>3. \A q \in Digests(all) : q \in T /\ q.kind = "chan"
    BY <1>2 DEF Digests
  <1>4. /\ K \subseteq Digests(young)
        /\ K = Digests(young) \/ Cardinality(K) = HistoryMax
        /\ \A q \in K, p \in Digests(young) \ K : p.at <= q.at
    BY DEF Newest
  <1>5. ASSUME NEW p \in Digests(stored) \cup {m.pkt}, p \notin Digests(kept)
        PROVE  Outlived(p, T)
    <2> DEFINE L == {q \in T : q.kind = "chan" /\ q # p /\ q.at >= p.at}
    <2>1. PICK x \in all : x.pkt = p
      BY DEF Digests
    <2>2. p \in Packet /\ m.pkt \in Packet /\ p.at \in Nat /\ m.pkt.at \in Nat
      BY <1>5 DEF Packet
    <2>3. Outlived(p, T) <=>
             \/ Cardinality(L) >= HistoryMax
             \/ HistoryMs > 0 /\ \E q \in L : q.at - p.at >= HistoryMs
      BY DEF Outlived
    <2>4. CASE x \notin young
      <3>1. HistoryMs > 0 /\ ~(m.pkt.at - p.at < HistoryMs)
        BY <2>1, <2>4
      <3>2. m.pkt.at - p.at >= HistoryMs /\ m.pkt.at >= p.at /\ m.pkt.at # p.at
        BY <2>2, <3>1, Tunables
      <3>3. m.pkt \in L
        BY <3>2
      <3> QED BY <2>3, <3>1, <3>2, <3>3
    <2>5. CASE x \in young
      <3>1. p \in Digests(young) \ K
        <4>1. p \in Digests(young)
          BY <2>1, <2>5 DEF Digests
        <4>2. p \notin K
          BY <1>1, <1>5, <2>1, <2>5 DEF Digests
        <4> QED BY <4>1, <4>2
      <3>2. Cardinality(K) = HistoryMax /\ \A q \in K : p.at <= q.at
        BY <1>4, <3>1
      <3>3. \A q \in K : q \in T /\ q.kind = "chan" /\ q # p
        BY <1>2, <1>3, <1>4, <3>1 DEF Digests
      <3>4. \A q \in K : q.at \in Nat
        BY <3>3 DEF Packet
      <3>5. K \subseteq L /\ L \subseteq T
        BY <2>2, <3>2, <3>3, <3>4
      <3> HIDE DEF L
      <3>6. IsFiniteSet(L)
        BY <3>5, FS_Subset
      <3>7. /\ Cardinality(K) \in Nat /\ Cardinality(L) \in Nat
            /\ Cardinality(K) <= Cardinality(L)
        BY <3>5, <3>6, FS_Subset, FS_CardinalityType
      <3> QED BY <2>3, <3>2, <3>7
    <2> QED BY <2>4, <2>5
  <1> QED BY <1>2, <1>5

\* When a node has come to see T instead of S, the messages E are left of those
\* that are new and of D, which were stored; the others are accounted for.
Left(S, T, D, E, mk) ==
    /\ Messages(E, T)
    /\ \A p \in T : p.kind = "chan" /\ (p \notin S \/ p \in D)
                     => p \in E \/ mk[p.src] > Burst \/ Outlived(p, T)

LEMMA StoredKept ==
  ASSUME NEW S, NEW T, NEW D, NEW E, S \subseteq T, IsFiniteSet(T), T \subseteq Packet,
         NEW mk \in [Node -> Nat], NEW mk2 \in [Node -> Nat],
         \A s \in Node : mk[s] <= mk2[s],
         NEW w \in Nat, NEW w2 \in Nat, w <= w2, RowStored(S, D, mk, w),
         Left(S, T, D, E, mk2)
  PROVE  RowStored(T, E, mk2, w2)
  <1> SUFFICES ASSUME w2 = 0, NEW p \in T, p.kind = "chan"
               PROVE  p \in E \/ mk2[p.src] > Burst \/ Outlived(p, T)
    BY DEF RowStored, Left
  <1>1. p.src \in Node
    BY DEF Packet
  <1>2. CASE p \in S /\ p \notin D
    <2>1. mk[p.src] > Burst \/ Outlived(p, S)
      BY <1>2 DEF RowStored
    <2>2. mk[p.src] \in Nat /\ mk2[p.src] \in Nat /\ mk[p.src] <= mk2[p.src]
      BY <1>1
    <2>3. mk[p.src] > Burst => mk2[p.src] > Burst
      BY <2>2, Tunables
    <2> QED BY <2>1, <2>3, OutlivedMore
  <1>3. CASE p \notin S \/ p \in D
    BY <1>3 DEF Left
  <1> QED BY <1>2, <1>3

\* The message pkt, if it is one, is put into the store of n.
Puts(n, pkt) ==
    \/ pkt.kind # "chan" /\ store'[n] = store[n]
    \/ pkt.kind = "chan" /\ \E row \in Stored :
          row.pkt = pkt /\ store'[n] \in put_channel_message(store[n], row)

\* It is then stored, or outlived, as all that were stored.
LEMMA PutsFacts ==
  ASSUME NEW n, store[n] \in SUBSET Stored, NEW pkt \in Packet, Puts(n, pkt),
         NEW S, NEW T, T = S \cup {pkt}, IsFiniteSet(T), T \subseteq Packet,
         Messages(channel_digests(n), S), NEW mk
  PROVE  Left(S, T, channel_digests(n), channel_digests(n)', mk)
  <1>1. channel_digests(n) = Digests(store[n]) /\ channel_digests(n)' = Digests(store'[n])
    BY DEF channel_digests, Digests
  <1>2. CASE pkt.kind # "chan" /\ store'[n] = store[n]
    BY <1>1, <1>2 DEF Left, Messages
  <1>3. ASSUME pkt.kind = "chan",
               NEW row \in Stored, row.pkt = pkt,
               store'[n] \in put_channel_message(store[n], row)
        PROVE  /\ \A q \in Digests(store'[n]) : q \in T /\ q.kind = "chan"
               /\ \A p \in T : p \notin S \/ p \in Digests(store[n])
                                => p \in Digests(store'[n]) \/ Outlived(p, T)
    <2>1. \A q \in Digests(store[n]) \cup {row.pkt} : q \in T /\ q.kind = "chan"
      BY <1>1, <1>3 DEF Messages
    <2>2. /\ store'[n] \subseteq store[n] \cup {row}
          /\ \A p \in Digests(store[n]) \cup {row.pkt} :
                p \in Digests(store'[n]) \/ Outlived(p, T)
      BY <1>3, <2>1, PutFacts
    <2>3. Digests(store'[n]) \subseteq Digests(store[n]) \cup {row.pkt}
      BY <2>2 DEF Digests
    <2> QED BY <1>3, <2>1, <2>2, <2>3
  <1> QED BY <1>1, <1>2, <1>3 DEF Puts, Left, Messages

\* The types of what is put.
LEMMA PutsTypes ==
  ASSUME NEW n, store[n] \in SUBSET Stored, IsFiniteSet(store[n]), NEW pkt, Puts(n, pkt)
  PROVE  /\ store'[n] \in SUBSET Stored /\ IsFiniteSet(store'[n])
         /\ \A x \in store'[n] : x \in store[n] \/ x.pkt = pkt
  <1>1. CASE store'[n] = store[n]
    BY <1>1
  <1>2. ASSUME NEW row \in Stored, row.pkt = pkt,
               store'[n] \in put_channel_message(store[n], row)
        PROVE  /\ store'[n] \in SUBSET Stored /\ IsFiniteSet(store'[n])
               /\ \A x \in store'[n] : x \in store[n] \/ x.pkt = pkt
    <2>1. store'[n] \subseteq store[n] \cup {row}
      BY <1>2 DEF put_channel_message
    <2>2. IsFiniteSet(store[n] \cup {row})
      BY FS_AddElement
    <2>3. IsFiniteSet(store'[n])
      BY <2>1, <2>2, FS_Subset
    <2> QED BY <1>2, <2>1, <2>3
  <1> QED BY <1>1, <1>2 DEF Puts

\* No count of events goes down.
UsedMore == \A ev \in Event : used[ev] <= used'[ev]

LEMMA UsedFacts ==
  ASSUME used \in [Event -> Nat], UNCHANGED used \/ \E ev \in Event : Spend(ev)
  PROVE  UsedMore /\ used' \in [Event -> Nat]
  BY DEF UsedMore, Spend

\* A step that leaves the row of a node alone.
LEMMA NodeKept ==
  ASSUME MeshInv, TypeInv', NEW m \in Node, UsedMore,
         seen'[m] = seen[m], bucket'[m] = bucket[m], store'[m] = store[m],
         shown'[m] = shown[m], again'[m] = again[m],
         \A s \in Node : made[s] <= made'[s],
         \A p : Known(p)' /\ p.src = m /\ p.kind \in Flooded => Known(p)
  PROVE  NodeInv(m)'
  <1> SUFFICES ASSUME Remember(m)'
               PROVE  /\ RowShown(m, PktsOf(seen[m]), shown[m], again[m])'
                      /\ RowRate(PktsOf(seen[m]), bucket[m], made)'
                      /\ RowStored(PktsOf(seen[m]), channel_digests(m), made, used["wipe"])'
                      /\ OwnSeen(m)'
    BY DEF NodeInv
  <1>1. /\ used \in [Event -> Nat] /\ used' \in [Event -> Nat]
        /\ made \in [Node -> Nat] /\ made' \in [Node -> Nat]
        /\ bucket[m] \in [Node -> Bucket] /\ seen[m] \in Seq(Entry)
    BY DEF MeshInv, TypeInv
  <1>2. used["expire"] <= used'["expire"] /\ used["wipe"] <= used'["wipe"]
        /\ used["expire"] \in Nat /\ used["wipe"] \in Nat /\ used'["wipe"] \in Nat
    BY <1>1 DEF UsedMore, Event
  <1>3. Remember(m)
    BY <1>1, <1>2 DEF Remember, Event
  <1>4. /\ RowShown(m, PktsOf(seen[m]), shown[m], again[m])
        /\ RowRate(PktsOf(seen[m]), bucket[m], made)
        /\ RowStored(PktsOf(seen[m]), channel_digests(m), made, used["wipe"])
        /\ OwnSeen(m)
    BY <1>3 DEF MeshInv, NodeInv
  <1>5. IsFiniteSet(PktsOf(seen[m])) /\ PktsOf(seen[m]) \subseteq Packet
    BY <1>1, PktsFinite
  <1>6. RowRate(PktsOf(seen[m]), bucket[m], made')
    BY <1>1, <1>4, <1>5, RateKept
  <1>7. RowStored(PktsOf(seen[m]), channel_digests(m), made', used'["wipe"])
    <2>1. Left(PktsOf(seen[m]), PktsOf(seen[m]), channel_digests(m), channel_digests(m), made')
      BY <1>4 DEF RowStored, Left
    <2> QED BY <1>1, <1>2, <1>4, <1>5, <2>1, StoredKept
  <1>8. channel_digests(m)' = channel_digests(m)
    BY DEF channel_digests, Digests
  <1>9. OwnSeen(m)'
    BY <1>4 DEF OwnSeen
  <1> QED BY <1>4, <1>6, <1>7, <1>8, <1>9

-----------------------------------------------------------------------------
(***************************************************************************)
(* The steps.  First those that change no cache, store or bucket.          *)
(***************************************************************************)
\* What is known after a step was known, or is one of the packets S.
KnownFrom(S) ==
    /\ \A p : Carries(chan', p) => Known(p) \/ p \in S
    /\ \A m \in Node : /\ \A p \in PktsOf(seen'[m]) : Known(p) \/ p \in S
                       /\ \A r \in pend'[m] : Known(r.pkt) \/ r.pkt \in S
                       /\ \A x \in store'[m] : Known(x.pkt) \/ x.pkt \in S

LEMMA KnownStep ==
  ASSUME NEW S, KnownFrom(S), NEW p, Known(p)'
  PROVE  Known(p) \/ p \in S
  <1>1. \/ Carries(chan', p)
        \/ \E n \in Node : \/ p \in PktsOf(seen'[n])
                           \/ \E r \in pend'[n] : r.pkt = p
                           \/ \E m \in store'[n] : m.pkt = p
    BY DEF Known
  <1> QED BY <1>1 DEF KnownFrom

LEMMA KnownHere ==
  ASSUME NEW n \in Node
  PROVE  /\ \A p \in PktsOf(seen[n]) : Known(p)
         /\ \A r \in pend[n] : Known(r.pkt)
         /\ \A x \in store[n] : Known(x.pkt)
         /\ \A p : Carries(chan, p) => Known(p)
  BY DEF Known

\* Nothing is made: numbers stay, and each node is looked at by itself.
LEMMA NothingMade ==
  ASSUME MeshInv, UNCHANGED made, KnownFrom({})
  PROVE  NumInv' /\ \A p : Known(p)' => Known(p)
  <1>1. \A p : Known(p)' => Known(p)
    BY KnownStep
  <1>2. NumInv'
    BY <1>1 DEF MeshInv, NumInv, Numbered
  <1> QED BY <1>1, <1>2

LEMMA QuietStep ==
  ASSUME MeshInv, TypeInv', UsedMore,
         UNCHANGED <<seen, bucket, store, shown, again, made>>, KnownFrom({})
  PROVE  MeshInv'
  <1>1. NumInv' /\ \A p : Known(p)' => Known(p)
    BY NothingMade
  <1>2. \A s \in Node : made[s] <= made'[s]
    BY DEF MeshInv, TypeInv
  <1>3. \A m \in Node : NodeInv(m)'
    BY <1>1, <1>2, NodeKept
  <1> QED BY <1>1, <1>3 DEF MeshInv

LEMMA FramesOnly ==
  ASSUME MeshInv, UNCHANGED <<seen, store, pend>>,
         \A p : Carries(chan', p) => Carries(chan, p)
  PROVE  KnownFrom({})
  <1>1. \A p : Carries(chan', p) => Known(p)
    BY DEF Known
  <1>2. ASSUME NEW m \in Node
        PROVE  /\ \A p \in PktsOf(seen'[m]) : Known(p)
               /\ \A r \in pend'[m] : Known(r.pkt)
               /\ \A x \in store'[m] : Known(x.pkt)
    BY KnownHere
  <1> QED BY <1>1, <1>2 DEF KnownFrom

LEMMA JoinStep ==
  ASSUME MeshInv, NEW n \in Node, join_channel(n)
  PROVE  MeshInv'
  <1>1. /\ UNCHANGED <<conn, links, chan, seen, pend, bucket, store, shown, again, made>>
        /\ sub' = sub \cup {n} /\ Spend("join")
    BY DEF join_channel
  <1>2. UsedMore /\ used' \in [Event -> Nat]
    BY <1>1, UsedFacts DEF Event, MeshInv, TypeInv
  <1>3. TypeInv'
    BY <1>1, <1>2 DEF MeshInv, TypeInv, ChanOK, Incident
  <1>4. KnownFrom({})
    BY <1>1, FramesOnly
  <1> QED BY <1>1, <1>2, <1>3, <1>4, QuietStep

LEMMA LinkDownStep ==
  ASSUME MeshInv, NEW l \in Link, NEW n \in Ends[l], LinkDown(n, l)
  PROVE  MeshInv'
  <1>0. n \in Node
    BY EndsAreNodes
  <1>1. /\ UNCHANGED <<conn, chan, seen, pend, bucket, store, sub, shown, again, made, used>>
        /\ links' = [links EXCEPT ![n] = @ \ {l}]
    BY DEF LinkDown
  <1>2. UsedMore
    BY <1>1 DEF UsedMore, MeshInv, TypeInv
  <1>3. links' \in [Node -> SUBSET Link] /\ \A m \in Node : links'[m] \subseteq Incident(m)
    BY <1>0, <1>1 DEF MeshInv, TypeInv
  <1>4. TypeInv'
    BY <1>1, <1>3 DEF MeshInv, TypeInv, ChanOK, Incident
  <1>5. KnownFrom({})
    BY <1>1, FramesOnly
  <1> QED BY <1>1, <1>2, <1>4, <1>5, QuietStep

LEMMA ConnectStep ==
  ASSUME MeshInv, NEW l \in Link, Connect(l)
  PROVE  MeshInv'
  <1>1. /\ UNCHANGED <<links, chan, seen, pend, bucket, store, sub, shown, again, made>>
        /\ conn' = conn \cup {l} /\ Spend("connect")
    BY DEF Connect
  <1>2. UsedMore /\ used' \in [Event -> Nat]
    BY <1>1, UsedFacts DEF Event, MeshInv, TypeInv
  <1>3. TypeInv'
    BY <1>1, <1>2 DEF MeshInv, TypeInv, ChanOK, Incident
  <1>4. KnownFrom({})
    BY <1>1, FramesOnly
  <1> QED BY <1>1, <1>2, <1>3, <1>4, QuietStep

LEMMA DisconnectStep ==
  ASSUME MeshInv, NEW l \in Link, Disconnect(l)
  PROVE  MeshInv'
  <1>1. /\ UNCHANGED <<links, seen, pend, bucket, store, sub, shown, again, made>>
        /\ conn' = conn \ {l} /\ Spend("disconnect")
        /\ chan' = [e \in DOMAIN chan |-> IF e[1] = l THEN << >> ELSE chan[e]]
    BY DEF Disconnect
  <1>2. UsedMore /\ used' \in [Event -> Nat]
    BY <1>1, UsedFacts DEF Event, MeshInv, TypeInv
  <1>3. DOMAIN chan = Way /\ \A e \in Way : chan[e] \in Seq(Hop)
    BY DEF MeshInv, TypeInv, ChanOK
  <1>4. \A e \in Way : chan'[e] = << >> \/ chan'[e] = chan[e]
    BY <1>1, <1>3
  <1>5. ChanOK(chan')
    BY <1>1, <1>3 DEF ChanOK
  <1>6. \A p : Carries(chan', p) => Carries(chan, p)
    BY <1>4 DEF Carries
  <1>7. TypeInv'
    BY <1>1, <1>2, <1>5 DEF MeshInv, TypeInv, ChanOK, Incident
  <1>8. KnownFrom({})
    BY <1>1, <1>6, FramesOnly
  <1> QED BY <1>1, <1>2, <1>7, <1>8, QuietStep

\* A frame that is lost, on the way or before the link was reported.
LEMMA FrameGone ==
  ASSUME MeshInv, NEW l \in Link, NEW n \in Ends[l], Lose(l, n) \/ DropEarly(l, n)
  PROVE  MeshInv'
  <1>1. /\ UNCHANGED <<conn, links, seen, pend, bucket, store, sub, shown, again, made>>
        /\ Arrived(l, n) /\ chan' = Rest(l, n)
        /\ UNCHANGED used \/ Spend("lose")
    BY DEF Lose, DropEarly
  <1>2. UsedMore /\ used' \in [Event -> Nat]
    BY <1>1, UsedFacts DEF Event, MeshInv, TypeInv
  <1>3. FromOrNew(chan', chan, << >>)
    BY <1>1, RestFacts DEF MeshInv, TypeInv
  <1>4. TypeInv'
    BY <1>1, <1>2, <1>3 DEF MeshInv, TypeInv, ChanOK, Incident, FromOrNew
  <1>5. \A p : Carries(chan', p) => Carries(chan, p)
    BY <1>3 DEF FromOrNew, In
  <1>6. KnownFrom({})
    BY <1>1, <1>5, FramesOnly
  <1> QED BY <1>1, <1>2, <1>4, <1>6, QuietStep

-----------------------------------------------------------------------------
(***************************************************************************)
(* Steps in which a node makes packets: it has seen what it floods.        *)
(***************************************************************************)
\* The cache of n after observing pkt; that of the others stays.
Looks(n, pkt) == seen' = [seen EXCEPT ![n] = observe(n, pkt)]

LEMMA LooksFacts ==
  ASSUME MeshInv, NEW n \in Node, NEW pkt \in Packet, Looks(n, pkt)
  PROVE  /\ seen' \in [Node -> Seq(Entry)]
         /\ Observed(seen[n], pkt, seen'[n])
         /\ \A m \in Node \ {n} : seen'[m] = seen[m]
  <1>1. seen \in [Node -> Seq(Entry)]
    BY DEF MeshInv, TypeInv
  <1>2. Observed(seen[n], pkt, observe(n, pkt))
    BY <1>1, ObserveFacts
  <1>3. observe(n, pkt) \in Seq(Entry)
    BY <1>2 DEF Observed
  <1> QED BY <1>1, <1>2, <1>3 DEF Looks

\* What a node remembers after a look it remembered before it, and pkt.
LEMMA Remembered ==
  ASSUME MeshInv, NEW n \in Node, NEW pkt \in Packet, Looks(n, pkt), UsedMore,
         Remember(n)', used' \in [Event -> Nat]
  PROVE  /\ Remember(n)
         /\ PktsOf(seen'[n]) = PktsOf(seen[n]) \cup {pkt}
         /\ IsFiniteSet(PktsOf(seen'[n])) /\ PktsOf(seen'[n]) \subseteq Packet
         /\ IsFiniteSet(PktsOf(seen[n]))
         /\ RowShown(n, PktsOf(seen[n]), shown[n], again[n])
         /\ RowRate(PktsOf(seen[n]), bucket[n], made)
         /\ RowStored(PktsOf(seen[n]), channel_digests(n), made, used["wipe"])
         /\ OwnSeen(n)
  <1>1. Observed(seen[n], pkt, seen'[n]) /\ seen[n] \in Seq(Entry)
    BY LooksFacts DEF MeshInv, TypeInv
  <1>2. Len(seen'[n]) < SeenCapacity /\ used'["expire"] = 0
    BY DEF Remember
  <1>3. Len(seen[n]) < SeenCapacity /\ PktsOf(seen'[n]) = PktsOf(seen[n]) \cup {pkt}
    BY <1>1, <1>2 DEF Observed
  <1>4. used["expire"] \in Nat /\ used["expire"] <= used'["expire"]
    BY DEF MeshInv, TypeInv, UsedMore, Event
  <1>5. Remember(n)
    BY <1>2, <1>3, <1>4 DEF Remember
  <1>6. seen'[n] \in Seq(Entry)
    BY <1>1 DEF Observed
  <1> QED BY <1>1, <1>3, <1>5, <1>6, PktsFinite DEF MeshInv, NodeInv

LEMMA MakeStep ==
  ASSUME MeshInv, TypeInv', UsedMore, NEW n \in Node, NEW pkt \in Packet,
         Looks(n, pkt), UNCHANGED <<bucket, shown, again>>,
         NEW S, Fresh(n, S), \A p \in S : p.kind \in Flooded => p = pkt,
         KnownFrom(S), \A s \in Node : made[s] <= made'[s],
         \A m \in Node \ {n} : store'[m] = store[m], Puts(n, pkt)
  PROVE  MeshInv'
  <1>1. \A p : Known(p)' => Known(p) \/ p \in S
    BY KnownStep
  <1>2. /\ made \in [Node -> Nat] /\ made' \in [Node -> Nat]
        /\ used \in [Event -> Nat] /\ used' \in [Event -> Nat]
        /\ bucket[n] \in [Node -> Bucket]
    BY DEF MeshInv, TypeInv
  <1>3. NumInv'
    BY <1>1, <1>2, NumStep DEF MeshInv
  <1>4. ASSUME NEW m \in Node \ {n}
        PROVE  NodeInv(m)'
    <2>1. \A p : Known(p)' /\ p.src = m /\ p.kind \in Flooded => Known(p)
      BY <1>1 DEF Fresh
    <2> QED BY <2>1, LooksFacts, NodeKept
  <1>5. ASSUME Remember(n)'
        PROVE  /\ RowShown(n, PktsOf(seen[n]), shown[n], again[n])'
               /\ RowRate(PktsOf(seen[n]), bucket[n], made)'
               /\ RowStored(PktsOf(seen[n]), channel_digests(n), made, used["wipe"])'
               /\ OwnSeen(n)'
    <2> PICK A : A = PktsOf(seen[n])
      OBVIOUS
    <2> PICK B : B = PktsOf(seen'[n])
      OBVIOUS
    <2>1. /\ B = A \cup {pkt} /\ IsFiniteSet(B) /\ B \subseteq Packet
          /\ RowShown(n, A, shown[n], again[n])
          /\ RowRate(A, bucket[n], made)
          /\ RowStored(A, channel_digests(n), made, used["wipe"])
          /\ OwnSeen(n)
      BY <1>2, <1>5, Remembered
    <2>2. RowShown(n, B, shown'[n], again'[n])
      BY <2>1 DEF RowShown
    <2>3. RowRate(B, bucket'[n], made')
      BY <1>2, <2>1, RateKept
    <2>4. RowStored(B, channel_digests(n)', made', used'["wipe"])
      <3>1. Messages(channel_digests(n), A)
        BY <2>1 DEF RowStored
      <3>2. store[n] \in SUBSET Stored
        BY DEF MeshInv, TypeInv
      <3>4. Left(A, B, channel_digests(n), channel_digests(n)', made')
        BY <2>1, <3>1, <3>2, PutsFacts
      <3>3. used["wipe"] \in Nat /\ used'["wipe"] \in Nat /\ used["wipe"] <= used'["wipe"]
        BY <1>2 DEF UsedMore, Event
      <3> PICK D : D = channel_digests(n)
        OBVIOUS
      <3> PICK E : E = channel_digests(n)'
        OBVIOUS
      <3>5. A \subseteq B /\ RowStored(A, D, made, used["wipe"]) /\ Left(A, B, D, E, made')
        BY <2>1, <3>4
      <3>6. RowStored(B, E, made', used'["wipe"])
        BY <1>2, <2>1, <3>3, <3>5, StoredKept
      <3> QED BY <3>6
    <2>5. OwnSeen(n)'
      <3> SUFFICES ASSUME NEW p, Known(p)', p.src = n, p.kind \in Flooded
                   PROVE  p \in B
        BY DEF OwnSeen
      <3> QED BY <1>1, <2>1 DEF OwnSeen
    <2> QED BY <2>2, <2>3, <2>4, <2>5
  <1>6. NodeInv(n)'
    BY <1>5 DEF NodeInv
  <1> QED BY <1>3, <1>4, <1>6 DEF MeshInv

\* What observe leaves in the caches is known, or is pkt.
LEMMA LooksKnown ==
  ASSUME MeshInv, NEW n \in Node, NEW pkt \in Packet, Looks(n, pkt)
  PROVE  \A m \in Node : \A p \in PktsOf(seen'[m]) : Known(p) \/ p = pkt
  <1> TAKE m \in Node
  <1>1. \A p \in PktsOf(seen[m]) : Known(p)
    BY KnownHere
  <1>2. CASE m = n
    BY <1>1, <1>2, LooksFacts DEF Observed
  <1>3. CASE m # n
    BY <1>1, <1>3, LooksFacts
  <1> QED BY <1>2, <1>3

LEMMA OneFrame ==
  ASSUME NEW f \in Hop
  PROVE  <<f>> \in Seq(Hop) /\ \A p : In(<<f>>, p) => p = f.pkt
  BY DEF In

LEMMA TtlType ==
  ASSUME NEW kind \in Flooded, NEW d
  PROVE  origin_ttl(kind, d) \in Nat
  BY Tunables DEF origin_ttl

\* A packet that node n floods: one frame over its links.
LEMMA FloodFacts ==
  ASSUME MeshInv, NEW n \in Node, NEW kind \in Flooded, NEW d, NEW ls,
         NEW at \in Nat, NEW pkt, pkt = Pkt(kind, n, made[n], at)
  PROVE  /\ pkt \in Packet /\ pkt.src = n /\ pkt.k = made[n] /\ pkt.kind = kind
         /\ origin_ttl(kind, d) \in Nat
         /\ ChanOK(Transmit(chan, n, ls, <<Frame(pkt, origin_ttl(kind, d), {})>>))
         /\ \A p : Carries(Transmit(chan, n, ls, <<Frame(pkt, origin_ttl(kind, d), {})>>), p)
                     => Carries(chan, p) \/ p = pkt
  <1>1. made[n] \in Nat /\ ChanOK(chan)
    BY DEF MeshInv, TypeInv
  <1>2. pkt \in Packet /\ pkt.src = n /\ pkt.k = made[n] /\ pkt.kind = kind
    BY <1>1 DEF Pkt, Packet
  <1> PICK t \in Nat : t = origin_ttl(kind, d)
    BY TtlType
  <1> PICK f : f = Frame(pkt, t, {})
    OBVIOUS
  <1>3. f \in Hop /\ f.pkt = pkt
    BY <1>2 DEF Frame, Hop
  <1>4. FromOrNew(Transmit(chan, n, ls, <<f>>), chan, <<f>>)
    BY <1>1, <1>3, OneFrame, TransmitFacts
  <1> QED BY <1>2, <1>3, <1>4, OneFrame DEF FromOrNew

\* Of the packets S none was made before.
LEMMA FreshOne ==
  ASSUME MeshInv, NEW n \in Node, NEW pkt \in Packet, pkt.src = n, pkt.k = made[n],
         made' = [made EXCEPT ![n] = @ + 1]
  PROVE  /\ Fresh(n, {pkt}) /\ made' \in [Node -> Nat]
         /\ \A s \in Node : made[s] <= made'[s]
  <1>1. made \in [Node -> Nat]
    BY DEF MeshInv, TypeInv
  <1> QED BY <1>1 DEF Fresh

LEMMA AnnounceStep ==
  ASSUME MeshInv, NEW n \in Node, announce(n)
  PROVE  MeshInv'
  <1> PICK pkt : pkt = Pkt("announce", n, made[n], 0)
    OBVIOUS
  <1> PICK ttl : ttl = origin_ttl("announce", Cardinality(links[n]))
    OBVIOUS
  <1>1. /\ Spend("announce") /\ made' = [made EXCEPT ![n] = @ + 1] /\ Looks(n, pkt)
        /\ chan' = Transmit(chan, n, links[n], <<Frame(pkt, ttl, {})>>)
        /\ UNCHANGED <<conn, links, pend, bucket, store, sub, shown, again>>
    BY DEF announce, Looks
  <1>2. UsedMore /\ used' \in [Event -> Nat]
    BY <1>1, UsedFacts DEF Event, MeshInv, TypeInv
  <1>3. /\ pkt \in Packet /\ pkt.src = n /\ pkt.k = made[n] /\ pkt.kind = "announce"
        /\ ChanOK(chan') /\ \A p : Carries(chan', p) => Carries(chan, p) \/ p = pkt
    BY <1>1, FloodFacts DEF Flooded
  <1>4. Fresh(n, {pkt}) /\ made' \in [Node -> Nat] /\ \A s \in Node : made[s] <= made'[s]
    BY <1>1, <1>3, FreshOne
  <1>5. seen' \in [Node -> Seq(Entry)]
    BY <1>1, <1>3, LooksFacts
  <1>6. TypeInv'
    BY <1>1, <1>2, <1>3, <1>4, <1>5 DEF MeshInv, TypeInv, ChanOK, Incident
  <1>7. KnownFrom({pkt})
    <2>1. \A p : Carries(chan', p) => Known(p) \/ p \in {pkt}
      BY <1>3 DEF Known
    <2>2. ASSUME NEW m \in Node
          PROVE  /\ \A p \in PktsOf(seen'[m]) : Known(p) \/ p \in {pkt}
                 /\ \A r \in pend'[m] : Known(r.pkt)
                 /\ \A x \in store'[m] : Known(x.pkt)
      BY <1>1, <1>3, LooksKnown, KnownHere
    <2> QED BY <2>1, <2>2 DEF KnownFrom
  <1>8. /\ \A p \in {pkt} : p.kind \in Flooded => p = pkt
        /\ \A m \in Node \ {n} : store'[m] = store[m]
        /\ Puts(n, pkt)
    BY <1>1, <1>3 DEF Puts
  <1> QED BY <1>1, <1>2, <1>3, <1>4, <1>6, <1>7, <1>8, MakeStep

LEMMA SendStep ==
  ASSUME MeshInv, NEW n \in Node, NEW at \in Times[n], send_channel_message(n, at)
  PROVE  MeshInv'
  <1>0. at \in Nat
    BY Tunables
  <1> PICK pkt : pkt = Pkt("chan", n, made[n], at)
    OBVIOUS
  <1> PICK ttl : ttl = origin_ttl("chan", Cardinality(links[n]))
    OBVIOUS
  <1> PICK row : row = [pkt |-> pkt, ttl |-> ttl]
    OBVIOUS
  <1>1. /\ Spend("send") /\ made' = [made EXCEPT ![n] = @ + 1] /\ Looks(n, pkt)
        /\ chan' = Transmit(chan, n, links[n], <<Frame(pkt, ttl, {})>>)
        /\ \E kept \in put_channel_message(store[n], row) :
              store' = [store EXCEPT ![n] = kept]
        /\ sub' = sub \cup {n}
        /\ UNCHANGED <<conn, links, pend, bucket, shown, again>>
    BY DEF send_channel_message, Looks
  <1>2. UsedMore /\ used' \in [Event -> Nat]
    BY <1>1, UsedFacts DEF Event, MeshInv, TypeInv
  <1>3. /\ pkt \in Packet /\ pkt.src = n /\ pkt.k = made[n] /\ pkt.kind = "chan"
        /\ ttl \in Nat
        /\ ChanOK(chan') /\ \A p : Carries(chan', p) => Carries(chan, p) \/ p = pkt
    BY <1>0, <1>1, FloodFacts DEF Flooded
  <1>4. Fresh(n, {pkt}) /\ made' \in [Node -> Nat] /\ \A s \in Node : made[s] <= made'[s]
    BY <1>1, <1>3, FreshOne
  <1>5. seen' \in [Node -> Seq(Entry)]
    BY <1>1, <1>3, LooksFacts
  <1>6. /\ store \in [Node -> SUBSET Stored] /\ row \in Stored /\ row.pkt = pkt
        /\ \A m \in Node : IsFiniteSet(store[m])
    BY <1>3 DEF MeshInv, TypeInv, Stored
  <1>7. PICK kept \in put_channel_message(store[n], row) :
           store' = [store EXCEPT ![n] = kept]
    BY <1>1
  <1>12. store'[n] = kept /\ \A m \in Node \ {n} : store'[m] = store[m]
    BY <1>6, <1>7
  <1>13. Puts(n, pkt)
    BY <1>3, <1>6, <1>12 DEF Puts
  <1>14. /\ store'[n] \in SUBSET Stored /\ IsFiniteSet(store'[n])
         /\ \A x \in store'[n] : x \in store[n] \/ x.pkt = pkt
    BY <1>6, <1>13, PutsTypes
  <1>8. store' \in [Node -> SUBSET Stored] /\ \A m \in Node : IsFiniteSet(store'[m])
    BY <1>6, <1>7, <1>12, <1>14
  <1>9. TypeInv'
    BY <1>1, <1>2, <1>3, <1>4, <1>5, <1>8 DEF MeshInv, TypeInv, ChanOK, Incident
  <1>10. KnownFrom({pkt})
    <2>1. \A p : Carries(chan', p) => Known(p) \/ p \in {pkt}
      BY <1>3 DEF Known
    <2>2. ASSUME NEW m \in Node
          PROVE  /\ \A p \in PktsOf(seen'[m]) : Known(p) \/ p \in {pkt}
                 /\ \A r \in pend'[m] : Known(r.pkt)
      BY <1>1, <1>3, LooksKnown, KnownHere
    <2>3. ASSUME NEW m \in Node, NEW x \in store'[m]
          PROVE  Known(x.pkt) \/ x.pkt \in {pkt}
      <3>1. x \in store[m] \/ x.pkt = pkt
        BY <1>12, <1>14, <2>3
      <3> QED BY <3>1, KnownHere
    <2> QED BY <2>1, <2>2, <2>3 DEF KnownFrom
  <1>11. \A p \in {pkt} : p.kind \in Flooded => p = pkt
    OBVIOUS
  <1> QED BY <1>1, <1>2, <1>3, <1>4, <1>9, <1>10, <1>11, <1>12, <1>13, MakeStep

LEMMA LinkUpStep ==
  ASSUME MeshInv, NEW l \in Link, NEW n \in Ends[l], LinkUp(n, l)
  PROVE  MeshInv'
  <1>0. n \in Node /\ made \in [Node -> Nat] /\ made[n] \in Nat
    BY EndsAreNodes DEF MeshInv, TypeInv
  <1> PICK up : up = links[n] \cup {l}
    OBVIOUS
  <1> PICK pkt : pkt = Pkt("announce", n, made[n], 0)
    OBVIOUS
  <1> PICK ttl : ttl = origin_ttl("announce", Cardinality(up))
    OBVIOUS
  <1> PICK ask : ask = Pkt("sync", n, made[n] + 1, 0)
    OBVIOUS
  <1> PICK request : request = Frame(ask, 1, channel_digests(n))
    OBVIOUS
  <1> PICK greeted : greeted = Transmit(chan, n, up, <<Frame(pkt, ttl, {})>>)
    OBVIOUS
  <1>1. /\ links' = [links EXCEPT ![n] = up]
        /\ made' = [made EXCEPT ![n] = @ + (IF n \in sub THEN 2 ELSE 1)]
        /\ Looks(n, pkt)
        /\ chan' = IF n \in sub THEN Transmit(greeted, n, {l}, <<request>>) ELSE greeted
        /\ UNCHANGED <<conn, pend, bucket, store, sub, shown, again, used>>
    BY DEF LinkUp, Looks
  <1>2. UsedMore
    BY <1>1 DEF UsedMore, MeshInv, TypeInv
  <1>3. /\ pkt \in Packet /\ pkt.src = n /\ pkt.k = made[n] /\ pkt.kind = "announce"
        /\ ChanOK(greeted) /\ \A p : Carries(greeted, p) => Carries(chan, p) \/ p = pkt
    BY <1>0, FloodFacts DEF Flooded
  <1>4. ask \in Packet /\ ask.src = n /\ ask.k = made[n] + 1 /\ ask.kind = "sync"
    BY <1>0 DEF Pkt, Packet
  <1>5. request \in Hop /\ request.pkt = ask
    <2>1. \A m \in store[n] : m \in Stored
      BY <1>0 DEF MeshInv, TypeInv
    <2>2. channel_digests(n) \subseteq Packet
      BY <2>1 DEF channel_digests, Digests, Stored
    <2> QED BY <1>4, <2>2 DEF Frame, Hop
  <1> PICK S : S = IF n \in sub THEN {pkt, ask} ELSE {pkt}
    OBVIOUS
  <1>6. ChanOK(chan') /\ \A p : Carries(chan', p) => Carries(chan, p) \/ p \in S
    <2>1. CASE n \in sub
      <3>1. FromOrNew(Transmit(greeted, n, {l}, <<request>>), greeted, <<request>>)
        BY <1>3, <1>5, OneFrame, TransmitFacts
      <3>2. chan' = Transmit(greeted, n, {l}, <<request>>) /\ S = {pkt, ask}
        BY <1>1, <2>1
      <3>3. ChanOK(chan') /\ \A p : Carries(chan', p) => Carries(greeted, p) \/ In(<<request>>, p)
        BY <3>1, <3>2 DEF FromOrNew
      <3> QED BY <1>3, <1>5, <3>2, <3>3, OneFrame
    <2>2. CASE n \notin sub
      BY <1>1, <1>3, <2>2
    <2> QED BY <2>1, <2>2
  <1>7. /\ made' \in [Node -> Nat] /\ \A s \in Node : made[s] <= made'[s]
        /\ made'[n] = made[n] + (IF n \in sub THEN 2 ELSE 1)
    BY <1>0, <1>1
  <1>8. Fresh(n, S)
    <2>1. CASE n \in sub
      BY <1>0, <1>3, <1>4, <1>7, <2>1 DEF Fresh
    <2>2. CASE n \notin sub
      BY <1>0, <1>3, <1>7, <2>2 DEF Fresh
    <2> QED BY <2>1, <2>2
  <1>9. seen' \in [Node -> Seq(Entry)]
    BY <1>0, <1>1, <1>3, LooksFacts
  <1>10. links' \in [Node -> SUBSET Link] /\ \A m \in Node : links'[m] \subseteq Incident(m)
    <2>1. up \subseteq Link /\ up \subseteq Incident(n)
      BY <1>0 DEF MeshInv, TypeInv, Incident
    <2>2. /\ links \in [Node -> SUBSET Link] /\ \A m \in Node : links[m] \subseteq Incident(m)
      BY DEF MeshInv, TypeInv
    <2>3. links'[n] = up /\ \A m \in Node : m # n => links'[m] = links[m]
      BY <1>0, <1>1, <2>2
    <2> QED BY <1>1, <2>1, <2>2, <2>3
  <1>11. TypeInv'
    BY <1>1, <1>6, <1>7, <1>9, <1>10 DEF MeshInv, TypeInv, ChanOK, Incident
  <1>12. KnownFrom(S)
    <2>1. \A p : Carries(chan', p) => Known(p) \/ p \in S
      BY <1>6 DEF Known
    <2>2. ASSUME NEW m \in Node
          PROVE  /\ \A p \in PktsOf(seen'[m]) : Known(p) \/ p = pkt
                 /\ \A r \in pend'[m] : Known(r.pkt)
                 /\ \A x \in store'[m] : Known(x.pkt)
      BY <1>0, <1>1, <1>3, LooksKnown, KnownHere
    <2>3. pkt \in S
      OBVIOUS
    <2> QED BY <2>1, <2>2, <2>3 DEF KnownFrom
  <1>13. /\ \A p \in S : p.kind \in Flooded => p = pkt
         /\ \A m \in Node \ {n} : store'[m] = store[m]
         /\ Puts(n, pkt)
    BY <1>1, <1>3, <1>4 DEF Flooded, Puts
  <1> QED BY <1>0, <1>1, <1>2, <1>3, <1>7, <1>8, <1>11, <1>12, <1>13, MakeStep

-----------------------------------------------------------------------------
(***************************************************************************)
(* Steps in which a node looks at a packet that comes, and the others.     *)
(***************************************************************************)
LEMMA WipeStep ==
  ASSUME MeshInv, NEW n \in Node, panic_wipe(n)
  PROVE  MeshInv'
  <1>1. /\ Spend("wipe")
        /\ store' = [store EXCEPT ![n] = {}] /\ shown' = [shown EXCEPT ![n] = {}]
        /\ again' = [again EXCEPT ![n] = {}]
        /\ UNCHANGED <<conn, links, chan, seen, pend, bucket, sub, made>>
    BY DEF panic_wipe
  <1>2. UsedMore /\ used' \in [Event -> Nat]
    BY <1>1, UsedFacts DEF Event, MeshInv, TypeInv
  <1>3. used'["wipe"] # 0 /\ used'["expire"] = used["expire"]
    BY <1>1 DEF Spend, MeshInv, TypeInv, Event
  <1>4. /\ store'[n] = {} /\ shown'[n] = {} /\ again'[n] = {}
        /\ \A m \in Node \ {n} : /\ store'[m] = store[m] /\ shown'[m] = shown[m]
                                 /\ again'[m] = again[m]
        /\ store' \in [Node -> SUBSET Stored] /\ shown' \in [Node -> SUBSET Packet]
        /\ again' \in [Node -> SUBSET Packet]
    BY <1>1 DEF MeshInv, TypeInv
  <1>5. /\ \A m \in Node : IsFiniteSet(pend'[m]) /\ IsFiniteSet(store'[m])
        /\ \A m \in Node : again'[m] \subseteq shown'[m]
    BY <1>1, <1>4, FS_EmptySet DEF MeshInv, TypeInv
  <1>6. TypeInv'
    BY <1>1, <1>2, <1>4, <1>5 DEF MeshInv, TypeInv, ChanOK, Incident
  <1>7. KnownFrom({})
    <2>1. \A p : Carries(chan', p) => Known(p)
      BY <1>1 DEF Known
    <2>2. ASSUME NEW m \in Node
          PROVE  /\ \A p \in PktsOf(seen'[m]) : Known(p)
                 /\ \A r \in pend'[m] : Known(r.pkt)
                 /\ \A x \in store'[m] : Known(x.pkt)
      <3>1. store'[m] \subseteq store[m]
        BY <1>4
      <3> QED BY <1>1, <3>1, KnownHere
    <2> QED BY <2>1, <2>2 DEF KnownFrom
  <1>8. NumInv' /\ \A p : Known(p)' => Known(p)
    BY <1>1, <1>7, NothingMade
  <1>9. \A s \in Node : made[s] <= made'[s]
    BY <1>1 DEF MeshInv, TypeInv
  <1>10. \A m \in Node \ {n} : NodeInv(m)'
    BY <1>1, <1>2, <1>4, <1>6, <1>8, <1>9, NodeKept
  <1>11. NodeInv(n)'
    <2> SUFFICES ASSUME Remember(n)'
                 PROVE  /\ RowShown(n, PktsOf(seen[n]), shown[n], again[n])'
                        /\ RowRate(PktsOf(seen[n]), bucket[n], made)'
                        /\ RowStored(PktsOf(seen[n]), channel_digests(n), made, used["wipe"])'
                        /\ OwnSeen(n)'
      BY DEF NodeInv
    <2>1. Remember(n)
      BY <1>1, <1>3 DEF Remember
    <2>2. RowRate(PktsOf(seen[n]), bucket[n], made) /\ OwnSeen(n)
      BY <2>1 DEF MeshInv, NodeInv
    <2>3. RowShown(n, PktsOf(seen[n]), shown[n], again[n])'
      BY <1>4 DEF RowShown
    <2>4. RowStored(PktsOf(seen[n]), channel_digests(n), made, used["wipe"])'
      <3>1. channel_digests(n)' = {}
        BY <1>4 DEF channel_digests, Digests
      <3> QED BY <1>3, <3>1 DEF RowStored, Messages
    <2>5. RowRate(PktsOf(seen'[n]), bucket'[n], made')
      BY <1>1, <2>2
    <2>6. OwnSeen(n)'
      BY <1>1, <1>8, <2>2 DEF OwnSeen
    <2> QED BY <2>3, <2>4, <2>5, <2>6
  <1> QED BY <1>6, <1>8, <1>10, <1>11 DEF MeshInv

\* Node n looks at a known packet; what it makes of it is left to the caller.
LEMMA LookStep ==
  ASSUME MeshInv, TypeInv', UNCHANGED <<made, used>>, KnownFrom({}),
         NEW n \in Node, NEW pkt \in Packet, Looks(n, pkt),
         \A m \in Node \ {n} : /\ bucket'[m] = bucket[m] /\ store'[m] = store[m]
                               /\ shown'[m] = shown[m] /\ again'[m] = again[m],
         Remember(n)' => /\ RowShown(n, PktsOf(seen'[n]), shown'[n], again'[n])
                         /\ RowRate(PktsOf(seen'[n]), bucket'[n], made)
                         /\ RowStored(PktsOf(seen'[n]), channel_digests(n)', made, used["wipe"])
  PROVE  MeshInv'
  <1>1. NumInv' /\ \A p : Known(p)' => Known(p)
    BY NothingMade
  <1>2. UsedMore /\ used' \in [Event -> Nat] /\ \A s \in Node : made[s] <= made'[s]
    BY DEF MeshInv, TypeInv, UsedMore
  <1>3. \A m \in Node \ {n} : NodeInv(m)'
    BY <1>1, <1>2, LooksFacts, NodeKept
  <1>4. ASSUME Remember(n)'
        PROVE  OwnSeen(n)'
    <2>1. PktsOf(seen'[n]) = PktsOf(seen[n]) \cup {pkt} /\ OwnSeen(n)
      BY <1>2, <1>4, Remembered
    <2> QED BY <1>1, <2>1 DEF OwnSeen
  <1>5. NodeInv(n)'
    BY <1>4 DEF NodeInv
  <1> QED BY <1>1, <1>3, <1>5 DEF MeshInv

\* The packet that comes is known, and seen or not.
LEMMA ComesFacts ==
  ASSUME MeshInv, NEW l \in Link, NEW n \in Ends[l], Arrived(l, n)
  PROVE  /\ n \in Node
         /\ First(l, n) \in Hop /\ First(l, n).pkt \in Packet /\ Known(First(l, n).pkt)
         /\ First(l, n).pkt.src \in Node
         /\ ChanOK(Rest(l, n)) /\ \A p : Carries(Rest(l, n), p) => Carries(chan, p)
         /\ IsSeen(n, First(l, n).pkt) <=> First(l, n).pkt \in PktsOf(seen[n])
  <1>1. n \in Node /\ ChanOK(chan)
    BY EndsAreNodes DEF MeshInv, TypeInv
  <1>2. /\ FromOrNew(Rest(l, n), chan, << >>)
        /\ First(l, n) \in Hop /\ Carries(chan, First(l, n).pkt)
    BY <1>1, RestFacts
  <1>3. First(l, n).pkt \in Packet
    BY <1>2 DEF Hop
  <1>4. First(l, n).pkt.src \in Node
    BY <1>3 DEF Packet
  <1>5. Known(First(l, n).pkt)
    BY <1>2 DEF Known
  <1>6. ChanOK(Rest(l, n)) /\ \A p : Carries(Rest(l, n), p) => Carries(chan, p)
    BY <1>2 DEF FromOrNew, In
  <1>7. IsSeen(n, First(l, n).pkt) <=> First(l, n).pkt \in PktsOf(seen[n])
    BY DEF IsSeen, PktsOf
  <1> QED BY <1>1, <1>2, <1>3, <1>4, <1>5, <1>6, <1>7

LEMMA DuplicateStep ==
  ASSUME MeshInv, NEW l \in Link, NEW n \in Ends[l], HearDuplicate(l, n)
  PROVE  MeshInv'
  <1> PICK pkt : pkt = First(l, n).pkt
    OBVIOUS
  <1>1. /\ Arrived(l, n) /\ IsSeen(n, pkt) /\ chan' = Rest(l, n) /\ Looks(n, pkt)
        /\ UNCHANGED <<conn, links, pend, bucket, store, sub, shown, again, made, used>>
    BY DEF HearDuplicate, Looks
  <1>2. /\ n \in Node /\ pkt \in Packet /\ Known(pkt) /\ pkt \in PktsOf(seen[n])
        /\ ChanOK(chan') /\ \A p : Carries(chan', p) => Carries(chan, p)
    BY <1>1, ComesFacts
  <1>3. seen' \in [Node -> Seq(Entry)]
    BY <1>1, <1>2, LooksFacts
  <1>4. TypeInv'
    BY <1>1, <1>2, <1>3 DEF MeshInv, TypeInv, ChanOK, Incident
  <1>5. KnownFrom({})
    <2>1. \A p : Carries(chan', p) => Known(p)
      BY <1>2 DEF Known
    <2>2. ASSUME NEW m \in Node
          PROVE  /\ \A p \in PktsOf(seen'[m]) : Known(p)
                 /\ \A r \in pend'[m] : Known(r.pkt)
                 /\ \A x \in store'[m] : Known(x.pkt)
      BY <1>1, <1>2, LooksKnown, KnownHere
    <2> QED BY <2>1, <2>2 DEF KnownFrom
  <1>6. ASSUME Remember(n)'
        PROVE  /\ RowShown(n, PktsOf(seen'[n]), shown'[n], again'[n])
               /\ RowRate(PktsOf(seen'[n]), bucket'[n], made)
               /\ RowStored(PktsOf(seen'[n]), channel_digests(n)', made, used["wipe"])
    <2>1. UsedMore /\ used' \in [Event -> Nat]
      BY <1>1 DEF UsedMore, MeshInv, TypeInv
    <2>2. /\ PktsOf(seen'[n]) = PktsOf(seen[n]) \cup {pkt}
          /\ RowShown(n, PktsOf(seen[n]), shown[n], again[n])
          /\ RowRate(PktsOf(seen[n]), bucket[n], made)
          /\ RowStored(PktsOf(seen[n]), channel_digests(n), made, used["wipe"])
      BY <1>1, <1>2, <1>6, <2>1, Remembered
    <2>3. PktsOf(seen'[n]) = PktsOf(seen[n])
      BY <1>2, <2>2
    <2>4. channel_digests(n)' = channel_digests(n)
      BY <1>1 DEF channel_digests, Digests
    <2> QED BY <1>1, <2>2, <2>3, <2>4
  <1>7. \A m \in Node \ {n} : /\ bucket'[m] = bucket[m] /\ store'[m] = store[m]
                              /\ shown'[m] = shown[m] /\ again'[m] = again[m]
    BY <1>1
  <1> QED BY <1>1, <1>2, <1>4, <1>5, <1>6, <1>7, LookStep

\* What a look at the bucket of the originator leaves.
LEMMA BucketFacts ==
  ASSUME MeshInv, NEW n \in Node, NEW s \in Node, NEW b \in Elapsed(bucket[n][s]),
         bucket' = [bucket EXCEPT ![n][s] = allow(b)]
  PROVE  /\ bucket' \in [Node -> [Node -> Bucket]]
         /\ bucket'[n] = [bucket[n] EXCEPT ![s] = allow(b)]
         /\ \A m \in Node \ {n} : bucket'[m] = bucket[m]
  <1>1. bucket \in [Node -> [Node -> Bucket]] /\ bucket[n][s] \in Bucket
    BY DEF MeshInv, TypeInv
  <1>2. allow(b) \in Bucket
    BY <1>1, ElapsedFacts, AllowFacts
  <1> QED BY <1>1, <1>2

LEMMA RateTaken ==
  ASSUME MeshInv, NEW n \in Node, NEW pkt \in Packet, Known(pkt),
         pkt \notin PktsOf(seen[n]), RowRate(PktsOf(seen[n]), bucket[n], made),
         NEW b \in Elapsed(bucket[n][pkt.src]),
         NEW bk, bk = [bucket[n] EXCEPT ![pkt.src] = allow(b)]
  PROVE  /\ RowRate(PktsOf(seen[n]) \cup {pkt}, bk, made)
         /\ ~Allowed(b) => made[pkt.src] > Burst
  <1> PICK S : S = PktsOf(seen[n])
    OBVIOUS
  <1> PICK s : s = pkt.src
    OBVIOUS
  <1>1. /\ seen[n] \in Seq(Entry) /\ bucket[n] \in [Node -> Bucket]
        /\ made \in [Node -> Nat] /\ s \in Node
    BY DEF MeshInv, TypeInv, Packet
  <1>2. IsFiniteSet(S) /\ IsFiniteSet(S \cup {pkt})
    BY <1>1, PktsFinite, FS_AddElement
  <1>3. Charged(bucket[n][s], S, s, made[s]) /\ bucket[n][s] \in Bucket /\ made[s] \in Nat
    BY <1>1 DEF RowRate
  <1>4. /\ \A x \in HeardOf(S \cup {pkt}, s) : x.k \in Nat /\ x.k < made[s]
        /\ \A x, y \in HeardOf(S \cup {pkt}, s) : x.k = y.k => x = y
    <2>1. \A x \in HeardOf(S \cup {pkt}, s) : Known(x) /\ x.src = s
      BY KnownHere DEF HeardOf
    <2> QED BY <2>1 DEF MeshInv, NumInv, Numbered
  <1>5. Allowed(b) => Charged(allow(b), S \cup {pkt}, s, made[s])
    BY <1>2, <1>3, ChargedTaken
  <1>6. ~Allowed(b) => made[s] > Burst /\ Charged(allow(b), S \cup {pkt}, s, made[s])
    BY <1>2, <1>3, <1>4, ChargedRefused
  <1>7. ASSUME NEW o \in Node
        PROVE  Charged(bk[o], S \cup {pkt}, o, made[o])
    <2>1. CASE o = s
      BY <1>1, <1>5, <1>6, <2>1
    <2>2. CASE o # s
      <3>1. bk[o] = bucket[n][o] /\ bucket[n][o] \in Bucket /\ made[o] \in Nat
        BY <1>1, <2>2
      <3>2. Charged(bucket[n][o], S, o, made[o])
        BY DEF RowRate
      <3> QED BY <1>2, <3>1, <3>2, ChargedKept
    <2> QED BY <2>1, <2>2
  <1> QED BY <1>6, <1>7 DEF RowRate

LEMMA ThrottleStep ==
  ASSUME MeshInv, NEW l \in Link, NEW n \in Ends[l], Throttle(l, n)
  PROVE  MeshInv'
  <1> PICK pkt : pkt = First(l, n).pkt
    OBVIOUS
  <1>1. /\ Arrived(l, n) /\ ~IsSeen(n, pkt) /\ chan' = Rest(l, n) /\ Looks(n, pkt)
        /\ UNCHANGED <<conn, links, pend, store, sub, shown, again, made, used>>
    BY DEF Throttle, Looks
  <1>2. PICK b \in Elapsed(bucket[n][pkt.src]) :
           ~Allowed(b) /\ bucket' = [bucket EXCEPT ![n][pkt.src] = allow(b)]
    BY DEF Throttle
  <1>3. /\ n \in Node /\ pkt \in Packet /\ Known(pkt) /\ pkt \notin PktsOf(seen[n])
        /\ pkt.src \in Node
        /\ ChanOK(chan') /\ \A p : Carries(chan', p) => Carries(chan, p)
    BY <1>1, ComesFacts
  <1>4. seen' \in [Node -> Seq(Entry)]
    BY <1>1, <1>3, LooksFacts
  <1>5. /\ bucket' \in [Node -> [Node -> Bucket]]
        /\ bucket'[n] = [bucket[n] EXCEPT ![pkt.src] = allow(b)]
        /\ \A m \in Node \ {n} : bucket'[m] = bucket[m]
    BY <1>2, <1>3, BucketFacts
  <1>6. TypeInv'
    BY <1>1, <1>3, <1>4, <1>5 DEF MeshInv, TypeInv, ChanOK, Incident
  <1>7. KnownFrom({})
    <2>1. \A p : Carries(chan', p) => Known(p)
      BY <1>3 DEF Known
    <2>2. ASSUME NEW m \in Node
          PROVE  /\ \A p \in PktsOf(seen'[m]) : Known(p)
                 /\ \A r \in pend'[m] : Known(r.pkt)
                 /\ \A x \in store'[m] : Known(x.pkt)
      BY <1>1, <1>3, LooksKnown, KnownHere
    <2> QED BY <2>1, <2>2 DEF KnownFrom
  <1>8. ASSUME Remember(n)'
        PROVE  /\ RowShown(n, PktsOf(seen'[n]), shown'[n], again'[n])
               /\ RowRate(PktsOf(seen'[n]), bucket'[n], made)
               /\ RowStored(PktsOf(seen'[n]), channel_digests(n)', made, used["wipe"])
    <2>1. UsedMore /\ used' \in [Event -> Nat]
      BY <1>1 DEF UsedMore, MeshInv, TypeInv
    <2>2. /\ PktsOf(seen'[n]) = PktsOf(seen[n]) \cup {pkt}
          /\ RowShown(n, PktsOf(seen[n]), shown[n], again[n])
          /\ RowRate(PktsOf(seen[n]), bucket[n], made)
          /\ RowStored(PktsOf(seen[n]), channel_digests(n), made, used["wipe"])
      BY <1>1, <1>3, <1>8, <2>1, Remembered
    <2>3. RowRate(PktsOf(seen[n]) \cup {pkt}, bucket'[n], made) /\ made[pkt.src] > Burst
      BY <1>2, <1>3, <1>5, <2>2, RateTaken
    <2>4. channel_digests(n)' = channel_digests(n)
      BY <1>1 DEF channel_digests, Digests
    <2>5. RowStored(PktsOf(seen'[n]), channel_digests(n)', made, used["wipe"])
      <3>2. IsFiniteSet(PktsOf(seen'[n])) /\ PktsOf(seen'[n]) \subseteq Packet
        BY <1>3, <1>4, PktsFinite
      <3>3. /\ made \in [Node -> Nat] /\ used["wipe"] \in Nat
            /\ \A s \in Node : made[s] <= made[s]
        BY DEF MeshInv, TypeInv, Event
      <3>4. Left(PktsOf(seen[n]), PktsOf(seen'[n]), channel_digests(n), channel_digests(n), made)
        BY <2>2, <2>3 DEF RowStored, Left, Messages
      <3>5. PktsOf(seen[n]) \subseteq PktsOf(seen'[n])
        BY <2>2
      <3>6. RowStored(PktsOf(seen'[n]), channel_digests(n), made, used["wipe"])
        BY <2>2, <3>2, <3>3, <3>4, <3>5, StoredKept
      <3> QED BY <2>4, <3>6
    <2>6. RowShown(n, PktsOf(seen'[n]), shown'[n], again'[n])
      BY <1>1, <2>2 DEF RowShown
    <2> QED BY <2>2, <2>3, <2>5, <2>6
  <1>9. \A m \in Node \ {n} : /\ bucket'[m] = bucket[m] /\ store'[m] = store[m]
                              /\ shown'[m] = shown[m] /\ again'[m] = again[m]
    BY <1>1, <1>5
  <1> QED BY <1>1, <1>3, <1>6, <1>7, <1>8, <1>9, LookStep

\* The parts of Process: what it stores and shows, what it answers, what it
\* leaves to be relayed.
LEMMA HandleFacts ==
  ASSUME MeshInv, NEW n \in Node, NEW f \in Hop, handle_channel(n, f)
  PROVE  /\ store' \in [Node -> SUBSET Stored] /\ \A m \in Node : IsFiniteSet(store'[m])
         /\ shown' \in [Node -> SUBSET Packet] /\ again' \in [Node -> SUBSET Packet]
         /\ \A m \in Node : again'[m] \subseteq shown'[m]
         /\ \A m \in Node \ {n} : /\ store'[m] = store[m] /\ shown'[m] = shown[m]
                                  /\ again'[m] = again[m]
         /\ Puts(n, f.pkt)
         /\ \A x \in store'[n] : x \in store[n] \/ x.pkt = f.pkt
         /\ \/ shown'[n] = shown[n] /\ again'[n] = again[n]
            \/ /\ f.pkt.kind = "chan" /\ shown'[n] = shown[n] \cup {f.pkt}
               /\ f.pkt \notin shown[n] => again'[n] = again[n]
  <1> PICK pkt : pkt = f.pkt
    OBVIOUS
  <1> PICK row : row = [pkt |-> pkt, ttl |-> f.ttl]
    OBVIOUS
  <1>1. pkt \in Packet /\ row \in Stored /\ row.pkt = pkt
    BY DEF Hop, Stored
  <1>2. /\ store \in [Node -> SUBSET Stored] /\ shown \in [Node -> SUBSET Packet]
        /\ again \in [Node -> SUBSET Packet]
        /\ \A m \in Node : IsFiniteSet(store[m]) /\ again[m] \subseteq shown[m]
    BY DEF MeshInv, TypeInv
  <1>3. \/ pkt.kind # "chan" /\ store' = store
        \/ /\ pkt.kind = "chan"
           /\ \E kept \in put_channel_message(store[n], row) :
                 store' = [store EXCEPT ![n] = kept]
    BY DEF handle_channel
  <1>4. Puts(n, pkt) /\ \A m \in Node \ {n} : store'[m] = store[m]
    BY <1>1, <1>2, <1>3 DEF Puts
  <1>8. DOMAIN store' = Node /\ store' = [m \in Node |-> store'[m]]
    BY <1>2, <1>3
  <1>9. /\ store'[n] \in SUBSET Stored /\ IsFiniteSet(store'[n])
        /\ \A x \in store'[n] : x \in store[n] \/ x.pkt = pkt
    BY <1>2, <1>4, PutsTypes
  <1>5. /\ store' \in [Node -> SUBSET Stored] /\ \A m \in Node : IsFiniteSet(store'[m])
        /\ \A m \in Node \ {n} : store'[m] = store[m]
        /\ Puts(n, pkt)
        /\ \A x \in store'[n] : x \in store[n] \/ x.pkt = pkt
    BY <1>2, <1>4, <1>8, <1>9
  <1>6. \/ shown' = shown /\ again' = again
        \/ /\ pkt.kind = "chan" /\ shown' = [shown EXCEPT ![n] = @ \cup {pkt}]
           /\ again' = IF pkt \in shown[n] THEN [again EXCEPT ![n] = @ \cup {pkt}] ELSE again
    BY DEF handle_channel
  <1>7. /\ shown' \in [Node -> SUBSET Packet] /\ again' \in [Node -> SUBSET Packet]
        /\ \A m \in Node : again'[m] \subseteq shown'[m]
        /\ \A m \in Node \ {n} : shown'[m] = shown[m] /\ again'[m] = again[m]
        /\ \/ shown'[n] = shown[n] /\ again'[n] = again[n]
           \/ /\ pkt.kind = "chan" /\ shown'[n] = shown[n] \cup {pkt}
              /\ pkt \notin shown[n] => again'[n] = again[n]
    <2>1. CASE shown' = shown /\ again' = again
      BY <1>2, <2>1
    <2>2. CASE /\ pkt.kind = "chan" /\ shown' = [shown EXCEPT ![n] = @ \cup {pkt}]
               /\ again' = IF pkt \in shown[n] THEN [again EXCEPT ![n] = @ \cup {pkt}] ELSE again
      <3>1. shown'[n] = shown[n] \cup {pkt} /\ \A m \in Node \ {n} : shown'[m] = shown[m]
        BY <1>2, <2>2
      <3>2. \A m \in Node \ {n} : again'[m] = again[m]
        BY <1>2, <2>2
      <3>3. again'[n] = IF pkt \in shown[n] THEN again[n] \cup {pkt} ELSE again[n]
        BY <1>2, <2>2
      <3>4. shown' \in [Node -> SUBSET Packet] /\ again' \in [Node -> SUBSET Packet]
        BY <1>1, <1>2, <2>2
      <3> QED BY <1>2, <2>2, <3>1, <3>2, <3>3, <3>4
    <2> QED BY <1>6, <2>1, <2>2
  <1> QED BY <1>5, <1>7

LEMMA AnswerFacts ==
  ASSUME MeshInv, NEW n \in Node, NEW l, NEW f, NEW c, ChanOK(c)
  PROVE  /\ ChanOK(handle_sync_request(n, l, f, c))
         /\ \A p : Carries(handle_sync_request(n, l, f, c), p)
                      => Carries(c, p) \/ \E m \in store[n] : m.pkt = p
  <1> PICK d : d = handle_sync_request(n, l, f, c)
    OBVIOUS
  <1>1. CASE f.pkt.kind = "sync"
    <2> PICK M : M = Missing(n, f)
      OBVIOUS
    <2>1. M \subseteq store[n] /\ IsFiniteSet(store[n]) /\ store[n] \subseteq Stored
      BY DEF Missing, MeshInv, TypeInv
    <2>2. IsFiniteSet(M) /\ \A m \in M : m.pkt \in Packet /\ m.ttl \in Nat
      BY <2>1, FS_Subset DEF Stored
    <2> PICK fs : fs = [k \in DOMAIN SetToSeq(M) |->
                          Frame(SetToSeq(M)[k].pkt, SetToSeq(M)[k].ttl, {})]
      OBVIOUS
    <2>3. fs \in Seq(Hop) /\ \A p : In(fs, p) => \E m \in M : m.pkt = p
      BY <2>2, FramesOf
    <2>4. d = Transmit(c, n, {l}, fs)
      BY <1>1 DEF handle_sync_request
    <2>5. FromOrNew(d, c, fs)
      BY <2>3, <2>4, TransmitFacts
    <2> QED BY <2>1, <2>3, <2>5 DEF FromOrNew
  <1>2. CASE f.pkt.kind # "sync"
    BY <1>2 DEF handle_sync_request
  <1> QED BY <1>1, <1>2

LEMMA RelayFacts ==
  ASSUME MeshInv, NEW n \in Node, NEW l \in Link, NEW f \in Hop, maybe_relay(n, l, f)
  PROVE  /\ pend' \in [Node -> SUBSET Waiting] /\ \A m \in Node : IsFiniteSet(pend'[m])
         /\ \A m \in Node : \A r \in pend'[m] : r \in pend[m] \/ r.pkt = f.pkt
  <1>1. pend \in [Node -> SUBSET Waiting] /\ \A m \in Node : IsFiniteSet(pend[m])
    BY DEF MeshInv, TypeInv
  <1> PICK r : r = relayed(l, f)
    OBVIOUS
  <1>2. pend' = pend \/ (f.ttl > 1 /\ pend' = [pend EXCEPT ![n] = @ \cup {r}])
    BY DEF maybe_relay
  <1>3. CASE pend' = pend
    BY <1>1, <1>3
  <1>4. CASE f.ttl > 1 /\ pend' = [pend EXCEPT ![n] = @ \cup {r}]
    <2>1. f.pkt \in Packet /\ f.ttl \in Nat /\ f.ttl - 1 \in Nat
      BY <1>4 DEF Hop
    <2>2. r \in Waiting /\ r.pkt = f.pkt
      BY <2>1 DEF relayed, Waiting
    <2>3. pend'[n] = pend[n] \cup {r} /\ \A m \in Node \ {n} : pend'[m] = pend[m]
      BY <1>1, <1>4
    <2>4. IsFiniteSet(pend[n] \cup {r})
      BY <1>1, FS_AddElement
    <2>5. pend' \in [Node -> SUBSET Waiting]
      BY <1>1, <1>4, <2>2
    <2> QED BY <1>1, <2>2, <2>3, <2>4, <2>5
  <1> QED BY <1>2, <1>3, <1>4

LEMMA ProcessStep ==
  ASSUME MeshInv, NEW l \in Link, NEW n \in Ends[l], Process(l, n)
  PROVE  MeshInv'
  <1> PICK f : f = First(l, n)
    OBVIOUS
  <1> PICK pkt : pkt = f.pkt
    OBVIOUS
  <1> PICK c : c = Rest(l, n)
    OBVIOUS
  <1>1. /\ Arrived(l, n) /\ ~IsSeen(n, pkt) /\ Looks(n, pkt)
        /\ handle_channel(n, f) /\ chan' = handle_sync_request(n, l, f, c)
        /\ maybe_relay(n, l, f)
        /\ UNCHANGED <<conn, links, sub, made, used>>
    BY DEF Process, Looks
  <1>2. PICK b \in Elapsed(bucket[n][pkt.src]) :
           Allowed(b) /\ bucket' = [bucket EXCEPT ![n][pkt.src] = allow(b)]
    BY DEF Process
  <1>3. /\ n \in Node /\ f \in Hop /\ pkt \in Packet /\ Known(pkt) /\ pkt \notin PktsOf(seen[n])
        /\ pkt.src \in Node
        /\ ChanOK(c) /\ \A p : Carries(c, p) => Carries(chan, p)
    BY <1>1, ComesFacts
  <1>4. seen' \in [Node -> Seq(Entry)]
    BY <1>1, <1>3, LooksFacts
  <1>5. /\ bucket' \in [Node -> [Node -> Bucket]]
        /\ bucket'[n] = [bucket[n] EXCEPT ![pkt.src] = allow(b)]
        /\ \A m \in Node \ {n} : bucket'[m] = bucket[m]
    BY <1>2, <1>3, BucketFacts
  <1>6. /\ store' \in [Node -> SUBSET Stored] /\ \A m \in Node : IsFiniteSet(store'[m])
        /\ shown' \in [Node -> SUBSET Packet] /\ again' \in [Node -> SUBSET Packet]
        /\ \A m \in Node : again'[m] \subseteq shown'[m]
    BY <1>1, <1>3, HandleFacts
  <1>7. /\ \A m \in Node \ {n} : /\ store'[m] = store[m] /\ shown'[m] = shown[m]
                                 /\ again'[m] = again[m]
        /\ Puts(n, pkt)
        /\ \A x \in store'[n] : x \in store[n] \/ x.pkt = pkt
    BY <1>1, <1>3, HandleFacts
  <1>8. \/ shown'[n] = shown[n] /\ again'[n] = again[n]
        \/ /\ pkt.kind = "chan" /\ shown'[n] = shown[n] \cup {pkt}
           /\ pkt \notin shown[n] => again'[n] = again[n]
    BY <1>1, <1>3, HandleFacts
  <1>9. /\ ChanOK(chan')
        /\ \A p : Carries(chan', p) => Carries(c, p) \/ \E m \in store[n] : m.pkt = p
    BY <1>1, <1>3, AnswerFacts
  <1>10. /\ pend' \in [Node -> SUBSET Waiting] /\ \A m \in Node : IsFiniteSet(pend'[m])
         /\ \A m \in Node : \A r \in pend'[m] : r \in pend[m] \/ r.pkt = pkt
    BY <1>1, <1>3, RelayFacts
  <1>11. TypeInv'
    BY <1>1, <1>4, <1>5, <1>6, <1>9, <1>10 DEF MeshInv, TypeInv, ChanOK, Incident
  <1>12. KnownFrom({})
    <2>1. \A p : Carries(chan', p) => Known(p)
      BY <1>3, <1>9 DEF Known
    <2>2. ASSUME NEW m \in Node
          PROVE  \A p \in PktsOf(seen'[m]) : Known(p)
      BY <1>1, <1>3, LooksKnown
    <2>3. ASSUME NEW m \in Node
          PROVE  \A r \in pend'[m] : Known(r.pkt)
      BY <1>3, <1>10, KnownHere
    <2>4. ASSUME NEW m \in Node
          PROVE  \A x \in store'[m] : Known(x.pkt)
      <3>1. \A x \in store'[m] : x \in store[m] \/ x.pkt = pkt
        BY <1>7
      <3> QED BY <1>3, <3>1, KnownHere
    <2> QED BY <2>1, <2>2, <2>3, <2>4 DEF KnownFrom
  <1>13. ASSUME Remember(n)'
         PROVE  /\ RowShown(n, PktsOf(seen'[n]), shown'[n], again'[n])
                /\ RowRate(PktsOf(seen'[n]), bucket'[n], made)
                /\ RowStored(PktsOf(seen'[n]), channel_digests(n)', made, used["wipe"])
    <2>1. UsedMore /\ used' \in [Event -> Nat]
      BY <1>1 DEF UsedMore, MeshInv, TypeInv
    <2>2. /\ PktsOf(seen'[n]) = PktsOf(seen[n]) \cup {pkt}
          /\ RowShown(n, PktsOf(seen[n]), shown[n], again[n])
          /\ RowRate(PktsOf(seen[n]), bucket[n], made)
          /\ RowStored(PktsOf(seen[n]), channel_digests(n), made, used["wipe"])
          /\ OwnSeen(n)
      BY <1>1, <1>3, <1>13, <2>1, Remembered
    <2>3. RowRate(PktsOf(seen[n]) \cup {pkt}, bucket'[n], made)
      BY <1>2, <1>3, <1>5, <2>2, RateTaken
    <2>4. RowStored(PktsOf(seen'[n]), channel_digests(n)', made, used["wipe"])
      <3> PICK A : A = PktsOf(seen[n])
        OBVIOUS
      <3> PICK B : B = PktsOf(seen'[n])
        OBVIOUS
      <3>1. B = A \cup {pkt} /\ RowStored(A, channel_digests(n), made, used["wipe"])
        BY <2>2
      <3>2. IsFiniteSet(B) /\ B \subseteq Packet
        BY <1>3, <1>4, PktsFinite
      <3>3. store[n] \in SUBSET Stored /\ Messages(channel_digests(n), A)
        BY <1>3, <3>1 DEF RowStored, MeshInv, TypeInv
      <3>4. Left(A, B, channel_digests(n), channel_digests(n)', made)
        BY <1>3, <1>7, <3>1, <3>2, <3>3, PutsFacts
      <3>5. /\ made \in [Node -> Nat] /\ used["wipe"] \in Nat /\ A \subseteq B
            /\ \A s \in Node : made[s] <= made[s]
        BY <3>1 DEF MeshInv, TypeInv, Event
      <3> PICK D : D = channel_digests(n)
        OBVIOUS
      <3> PICK E : E = channel_digests(n)'
        OBVIOUS
      <3>6. RowStored(A, D, made, used["wipe"]) /\ Left(A, B, D, E, made)
        BY <3>1, <3>4
      <3>7. RowStored(B, E, made, used["wipe"])
        BY <3>2, <3>5, <3>6, StoredKept
      <3> QED BY <3>7
    <2>5. RowShown(n, PktsOf(seen'[n]), shown'[n], again'[n])
      <3>1. pkt.kind = "chan" => pkt.src # n
        BY <1>3, <2>2 DEF OwnSeen, Flooded
      <3>2. pkt \notin shown[n]
        BY <1>3, <2>2 DEF RowShown
      <3> QED BY <1>8, <2>2, <3>1, <3>2 DEF RowShown
    <2> QED BY <2>2, <2>3, <2>4, <2>5
  <1>14. \A m \in Node \ {n} : /\ bucket'[m] = bucket[m] /\ store'[m] = store[m]
                               /\ shown'[m] = shown[m] /\ again'[m] = again[m]
    BY <1>5, <1>7
  <1> QED BY <1>1, <1>3, <1>11, <1>12, <1>13, <1>14, LookStep

\* A tick sends only what was waiting.
LEMMA FireFacts ==
  ASSUME MeshInv, NEW n \in Node, NEW due \in SUBSET pend[n]
  PROVE  /\ ChanOK(Fire(n, due))
         /\ \A p : Carries(Fire(n, due), p) => Carries(chan, p) \/ \E r \in due : r.pkt = p
  <1>1. IsFiniteSet(due) /\ \A r \in due : r.pkt \in Packet /\ r.ttl \in Nat
    <2>1. IsFiniteSet(pend[n]) /\ pend[n] \subseteq Waiting
      BY DEF MeshInv, TypeInv
    <2> QED BY <2>1, FS_Subset DEF Waiting
  <1> DEFINE To(l) == {r \in due : ~Suppressed(n, r) /\ r.link # l}
             Sent(l) == [k \in DOMAIN SetToSeq(To(l)) |->
                           Frame(SetToSeq(To(l))[k].pkt, SetToSeq(To(l))[k].ttl, {})]
  <1>2. ASSUME NEW l
        PROVE  Sent(l) \in Seq(Hop) /\ \A p : In(Sent(l), p) => \E r \in due : r.pkt = p
    <2> PICK M : M = To(l)
      OBVIOUS
    <2>1. M \in SUBSET due
      OBVIOUS
    <2>2. IsFiniteSet(M) /\ \A r \in M : r.pkt \in Packet /\ r.ttl \in Nat
      BY <1>1, <2>1, FS_Subset
    <2> PICK fs : fs = [k \in DOMAIN SetToSeq(M) |->
                          Frame(SetToSeq(M)[k].pkt, SetToSeq(M)[k].ttl, {})]
      OBVIOUS
    <2>3. fs \in Seq(Hop) /\ \A p : In(fs, p) => \E r \in M : r.pkt = p
      BY <2>2, FramesOf
    <2>4. Sent(l) = fs
      OBVIOUS
    <2> QED BY <2>1, <2>3, <2>4
  <1>3. DOMAIN chan = Way /\ \A e \in Way : chan[e] \in Seq(Hop)
    BY DEF MeshInv, TypeInv, ChanOK
  <1> DEFINE d == Fire(n, due)
  <1>4. d = [e \in Way |-> IF e[1] \in links[n] \cap conn /\ e[2] # n
                            THEN chan[e] \o Sent(e[1]) ELSE chan[e]]
    BY <1>3 DEF Fire
  <1> HIDE DEF Sent, To
  <1>5. \A e \in Way : d[e] = chan[e] \o Sent(e[1]) \/ d[e] = chan[e]
    BY <1>4
  <1>6. ASSUME NEW e \in Way
        PROVE  d[e] \in Seq(Hop)
    <2>1. Sent(e[1]) \in Seq(Hop) /\ chan[e] \in Seq(Hop)
      BY <1>2, <1>3
    <2>2. chan[e] \o Sent(e[1]) \in Seq(Hop)
      BY <2>1, JoinedIn
    <2> QED BY <1>5, <2>1, <2>2
  <1>7. ChanOK(d)
    BY <1>4, <1>6 DEF ChanOK
  <1> HIDE DEF d
  <1>8. ASSUME NEW p, NEW e \in Way, NEW k \in 1 .. Len(d[e]), d[e][k].pkt = p
        PROVE  Carries(chan, p) \/ \E r \in due : r.pkt = p
    <2>1. CASE d[e] = chan[e]
      BY <1>8, <2>1 DEF Carries
    <2>2. CASE d[e] = chan[e] \o Sent(e[1])
      <3> PICK fs : fs = Sent(e[1])
        OBVIOUS
      <3>1. fs \in Seq(Hop) /\ (In(fs, p) => \E r \in due : r.pkt = p)
        BY <1>2
      <3>2. \/ \E j \in 1 .. Len(chan[e]) : d[e][k] = chan[e][j]
            \/ \E j \in 1 .. Len(fs) : d[e][k] = fs[j]
        BY <1>3, <1>8, <2>2, <3>1, JoinedIn
      <3> QED BY <1>8, <3>1, <3>2 DEF Carries, In
    <2> QED BY <1>5, <2>1, <2>2
  <1>9. \A p : Carries(d, p) => Carries(chan, p) \/ \E r \in due : r.pkt = p
    BY <1>8 DEF Carries
  <1> QED BY <1>7, <1>9 DEF d

LEMMA TickStep ==
  ASSUME MeshInv, NEW n \in Node, NEW due \in SUBSET pend[n],
         NEW k \in 0 .. Len(seen[n]), Tick(n, due, k)
  PROVE  MeshInv'
  <1> PICK q \in Seq(Entry) : q = seen[n]
    BY DEF MeshInv, TypeInv
  <1> PICK N \in Nat : N = Len(q)
    OBVIOUS
  <1>1. /\ chan' = Fire(n, due) /\ pend' = [pend EXCEPT ![n] = @ \ due]
        /\ seen' = [seen EXCEPT ![n] = SubSeq(q, k + 1, N)]
        /\ IF k > 0 THEN Spend("expire") ELSE UNCHANGED used
        /\ UNCHANGED <<conn, links, bucket, store, sub, shown, again, made>>
    BY DEF Tick
  <1>2. UsedMore /\ used' \in [Event -> Nat]
    BY <1>1, UsedFacts DEF Event, MeshInv, TypeInv
  <1>3. /\ ChanOK(chan')
        /\ \A p : Carries(chan', p) => Carries(chan, p) \/ \E r \in due : r.pkt = p
    BY <1>1, FireFacts
  <1>4. /\ SubSeq(q, k + 1, N) \in Seq(Entry) /\ Len(SubSeq(q, k + 1, N)) = N - k
        /\ \A j \in 1 .. N - k : SubSeq(q, k + 1, N)[j] = q[j + k] /\ j + k \in 1 .. N
    OBVIOUS
  <1>5. seen' \in [Node -> Seq(Entry)] /\ seen'[n] = SubSeq(q, k + 1, N)
        /\ \A m \in Node \ {n} : seen'[m] = seen[m]
    BY <1>1, <1>4 DEF MeshInv, TypeInv
  <1>6. \A m \in Node : PktsOf(seen'[m]) \subseteq PktsOf(seen[m])
    <2>1. PktsOf(SubSeq(q, k + 1, N)) \subseteq PktsOf(q)
      <3> PICK r : r = SubSeq(q, k + 1, N)
        OBVIOUS
      <3>1. r \in Seq(Entry) /\ Len(r) = N - k /\ DOMAIN r = 1 .. N - k
            /\ DOMAIN q = 1 .. N /\ \A j \in 1 .. N - k : r[j] = q[j + k] /\ j + k \in 1 .. N
        BY <1>4
      <3>2. ASSUME NEW j \in DOMAIN r
            PROVE  \E i \in DOMAIN q : r[j].pkt = q[i].pkt
        <4>1. r[j] = q[j + k] /\ j + k \in DOMAIN q
          BY <3>1
        <4> QED BY <4>1
      <3>3. PktsOf(r) \subseteq PktsOf(q)
        BY <3>2 DEF PktsOf
      <3> QED BY <3>3
    <2> QED BY <1>5, <2>1
  <1>7. /\ pend' \in [Node -> SUBSET Waiting] /\ \A m \in Node : IsFiniteSet(pend'[m])
        /\ \A m \in Node : pend'[m] \subseteq pend[m]
    <2>1. pend \in [Node -> SUBSET Waiting] /\ \A m \in Node : IsFiniteSet(pend[m])
      BY DEF MeshInv, TypeInv
    <2>2. \A m \in Node : pend'[m] \in SUBSET pend[m]
      BY <1>1, <2>1
    <2> QED BY <1>1, <2>1, <2>2, FS_Subset
  <1>8. TypeInv'
    BY <1>1, <1>2, <1>3, <1>5, <1>7 DEF MeshInv, TypeInv, ChanOK, Incident
  <1>9. KnownFrom({})
    <2>1. \A p : Carries(chan', p) => Known(p)
      BY <1>3, KnownHere
    <2>2. ASSUME NEW m \in Node
          PROVE  /\ \A p \in PktsOf(seen'[m]) : Known(p)
                 /\ \A r \in pend'[m] : Known(r.pkt)
                 /\ \A x \in store'[m] : Known(x.pkt)
      BY <1>1, <1>6, <1>7, KnownHere
    <2> QED BY <2>1, <2>2 DEF KnownFrom
  <1>10. NumInv' /\ \A p : Known(p)' => Known(p)
    BY <1>1, <1>9, NothingMade
  <1>11. \A s \in Node : made[s] <= made'[s]
    BY <1>1 DEF MeshInv, TypeInv
  <1>12. ASSUME NEW m \in Node
         PROVE  NodeInv(m)'
    <2>1. CASE k = 0
      <3>1. SubSeq(q, 1, N) = q
        OBVIOUS
      <3>2. seen'[m] = seen[m]
        BY <1>5, <2>1, <3>1
      <3> QED BY <1>1, <1>2, <1>8, <1>10, <1>11, <3>2, NodeKept
    <2>2. CASE k > 0
      <3>1. used'["expire"] # 0
        BY <1>1, <2>2 DEF Spend, Event, MeshInv, TypeInv
      <3> QED BY <3>1 DEF NodeInv, Remember
    <2> QED BY <2>1, <2>2
  <1> QED BY <1>8, <1>10, <1>12 DEF MeshInv

-----------------------------------------------------------------------------
(***************************************************************************)
(* The theorems.                                                           *)
(***************************************************************************)
LEMMA MeshInit == Init => MeshInv
  <1> SUFFICES ASSUME Init PROVE MeshInv
    OBVIOUS
  <1>1. TypeInv
    BY TypeInit
  <1>2. \A e \in Way : chan[e] = << >>
    BY DEF Init, Way
  <1>3. \A n \in Node : seen[n] = << >> /\ pend[n] = {} /\ store[n] = {}
    BY DEF Init
  <1>4. PktsOf(<< >>) = {}
    BY DEF PktsOf
  <1>5. \A p : ~Known(p)
    <2>1. \A p : ~Carries(chan, p)
      BY <1>2 DEF Carries
    <2> QED BY <1>3, <1>4, <2>1 DEF Known
  <1>6. NumInv
    BY <1>5 DEF NumInv
  <1>7. ASSUME NEW n \in Node
        PROVE  NodeInv(n)
    <2>1. PktsOf(seen[n]) = {} /\ shown[n] = {} /\ again[n] = {}
      BY <1>3, <1>4 DEF Init
    <2>2. RowShown(n, {}, {}, {}) /\ OwnSeen(n)
      BY <1>5 DEF RowShown, OwnSeen
    <2>3. RowStored({}, channel_digests(n), made, used["wipe"])
      BY <1>3 DEF RowStored, Messages, channel_digests, Digests
    <2>4. RowRate({}, bucket[n], made)
      <3> SUFFICES ASSUME NEW s \in Node PROVE Charged(bucket[n][s], {}, s, made[s])
        BY DEF RowRate
      <3>1. bucket[n][s].grey = FALSE /\ bucket[n][s].tokens = Burst
        BY DEF Init, FullBucket
      <3>2. Cardinality(HeardOf({}, s)) = 0
        <4>1. HeardOf({}, s) = {}
          BY DEF HeardOf
        <4> QED BY <4>1, FS_EmptySet
      <3>3. Burst <= Burst + 0
        BY Tunables
      <3> QED BY <3>1, <3>2, <3>3 DEF Charged
    <2> QED BY <2>1, <2>2, <2>3, <2>4 DEF NodeInv
  <1> QED BY <1>1, <1>6, <1>7 DEF MeshInv

LEMMA MeshStutter ==
  ASSUME MeshInv, UNCHANGED vars
  PROVE  MeshInv'
  <1>1. UNCHANGED <<conn, links, chan, seen, pend, bucket, store, sub, shown, again, made, used>>
    BY DEF vars
  <1>2. TypeInv'
    BY <1>1 DEF MeshInv, TypeInv, ChanOK, Incident
  <1>3. UsedMore
    BY <1>1 DEF UsedMore, MeshInv, TypeInv
  <1>4. KnownFrom({})
    BY <1>1, FramesOnly
  <1> QED BY <1>1, <1>2, <1>3, <1>4, QuietStep

LEMMA MeshNext == MeshInv /\ [Next]_vars => MeshInv'
  <1> SUFFICES ASSUME MeshInv, [Next]_vars PROVE MeshInv'
    OBVIOUS
  <1>1. CASE UNCHANGED vars
    BY <1>1, MeshStutter
  <1>2. ASSUME NEW n \in Node, CommandStep(n)
        PROVE  MeshInv'
    BY <1>2, SendStep, JoinStep, WipeStep, AnnounceStep DEF CommandStep
  <1>3. ASSUME NEW n \in Node, NEW due \in SUBSET pend[n],
               NEW k \in 0 .. Len(seen[n]), Tick(n, due, k)
        PROVE  MeshInv'
    BY <1>3, TickStep
  <1>4. ASSUME NEW l \in Link, Connect(l) \/ Disconnect(l)
        PROVE  MeshInv'
    BY <1>4, ConnectStep, DisconnectStep
  <1>5. ASSUME NEW l \in Link, NEW n \in Ends[l], LinkUp(n, l) \/ LinkDown(n, l) \/ Lose(l, n)
        PROVE  MeshInv'
    BY <1>5, LinkUpStep, LinkDownStep, FrameGone
  <1>6. ASSUME NEW l \in Link, NEW n \in Ends[l], FrameStep(l, n)
        PROVE  MeshInv'
    BY <1>6, FrameGone, DuplicateStep, ThrottleStep, ProcessStep DEF FrameStep
  <1> QED BY <1>1, <1>2, <1>3, <1>4, <1>5, <1>6 DEF Next

LEMMA MeshAlways == Spec => []MeshInv
  BY MeshInit, MeshNext, PTL DEF Spec

\* Every reachable state has its type, over any graph and for any constants.
THEOREM TypeCorrect == Spec => []TypeOK
  <1>1. MeshInv => TypeOK
    BY TypeMeans DEF MeshInv
  <1> QED BY <1>1, MeshAlways, PTL

\* No SeenCache has forgotten a packet: no entry is older than its time to live
\* (tick calls expire), and none is full, where observe evicts the oldest.
NothingForgotten == \A n \in Node : Remember(n)

\* While no SeenCache has forgotten a packet, no user is shown a message twice
\* or its own, whatever paths, losses, joins and history syncs there are.
THEOREM ShownOnceTheorem == Spec => [](NothingForgotten => ShownOnce)
  <1>1. MeshInv => (NothingForgotten => ShownOnce)
    BY DEF MeshInv, NodeInv, NothingForgotten, RowShown, ShownOnce
  <1> QED BY <1>1, MeshAlways, PTL

\* While no SeenCache has forgotten a packet, whoever is greylisted anywhere has
\* itself made more packets than a burst.
THEOREM GreylistTheorem == Spec => [](NothingForgotten => OnlyFloodersGreylisted)
  <1>1. ASSUME MeshInv, NothingForgotten, NEW n \in Node, NEW s \in Node, bucket[n][s].grey
        PROVE  made[s] > Burst
    <2>1. RowRate(PktsOf(seen[n]), bucket[n], made)
      BY <1>1 DEF MeshInv, NodeInv, NothingForgotten
    <2> QED BY <1>1, <2>1 DEF RowRate, Charged
  <1>2. MeshInv => (NothingForgotten => OnlyFloodersGreylisted)
    BY <1>1 DEF OnlyFloodersGreylisted
  <1> QED BY <1>2, MeshAlways, PTL

\* While no SeenCache has forgotten a packet and nobody wipes, a node holds every
\* channel message it has seen, unless its originator made more packets than a
\* burst, or messages of no older time that the node has seen outlived it.
THEOREM SeenStoredTheorem == Spec => [](NothingForgotten => SeenMeansStored)
  <1>1. ASSUME MeshInv, NothingForgotten, NEW n \in Node, used["wipe"] = 0,
               NEW p \in PktsOf(seen[n]), p.kind = "chan"
        PROVE  \/ p \in channel_digests(n)
               \/ made[p.src] > Burst
               \/ Outlived(p, PktsOf(seen[n]))
    <2>1. RowStored(PktsOf(seen[n]), channel_digests(n), made, used["wipe"])
      BY <1>1 DEF MeshInv, NodeInv, NothingForgotten
    <2> QED BY <1>1, <2>1 DEF RowStored
  <1>2. MeshInv => (NothingForgotten => SeenMeansStored)
    BY <1>1 DEF SeenMeansStored
  <1> QED BY <1>2, MeshAlways, PTL

=============================================================================

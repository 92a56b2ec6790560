------------------------ MODULE SessionPairingProofs ------------------------
(***************************************************************************)
(* Proof that two ready ends are always the two halves of one exchange.    *)
(***************************************************************************)
EXTENDS SessionPairing, TLAPS

Half == [role : {"none", "init", "resp"}, ready : BOOLEAN, own : Nat, re : Int]

PairType == /\ half \in [Node -> [Node -> Half]]
            /\ next \in Nat \ {0}

\* Ephemeral keys are older than x, the next one; no half, no key; a responder
\* is younger than what it answers and a ready initiator older.
Aged(h, x) == /\ h.own < x /\ h.re < x
              /\ h.role = "none" => ~h.ready
              /\ h.role = "resp" => h.re < h.own
              /\ h.role = "init" /\ h.ready => h.own < h.re

\* h is not the half that owns an ephemeral up to x: dropped, or begun later.
Past(h, x) == h.role = "none" \/ h.own > x

\* h is the responder's, or the ready initiator's, half of exchange i, r.
IsResponder(h, i, r) == h.role = "resp" /\ h.own = r /\ h.re = i
IsInitiator(h, i, r) == h.role = "init" /\ h.ready /\ h.own = i /\ h.re = r

\* A packet's exchange is ordered, and its sender, whose half is h, still
\* holds the half that sent it or has moved past the exchange.
Bound(m, h, x) ==
    /\ m.type \in {"msg2", "msg3"}
    /\ m.src \in Node /\ m.dst \in Node /\ m.src # m.dst
    /\ m.i \in Int /\ m.r \in Int /\ m.i < m.r /\ m.r < x
    /\ m.type = "msg2" => Past(h, m.r) \/ IsResponder(h, m.i, m.r)
    /\ m.type = "msg3" => Past(h, m.r) \/ IsInitiator(h, m.i, m.r)

\* g, the peer of the ready half h, is the other half or has moved past it.
Matches(h, g) == /\ h.role = "init" => Past(g, h.re) \/ IsResponder(g, h.own, h.re)
                 /\ h.role = "resp" => Past(g, h.own) \/ IsInitiator(g, h.re, h.own)

PairInv == /\ PairType
           /\ \A n, p \in Node : Aged(half[n][p], next)
           /\ \A m \in hs : Bound(m, half[m.src][m.dst], next)
           /\ \A n, p \in Node : n # p /\ half[n][p].ready => Matches(half[n][p], half[p][n])

\* The invariant is strong enough: Paired follows from it.
LEMMA InvPaired == PairInv => Paired
  <1> SUFFICES ASSUME PairInv, NEW n \in Node, NEW p \in Node, n # p,
                      half[n][p].ready, half[p][n].ready
               PROVE  /\ half[n][p].role # half[p][n].role
                      /\ half[n][p].own = half[p][n].re
                      /\ half[n][p].re = half[p][n].own
    BY DEF Paired
  <1> DEFINE h == half[n][p]
             g == half[p][n]
  <1>1. h \in Half /\ g \in Half /\ Aged(h, next) /\ Aged(g, next) /\ next \in Nat
    BY DEF PairInv, PairType
  <1>2. Matches(h, g) /\ Matches(g, h) /\ h.ready /\ g.ready
    BY DEF PairInv
  <1> HIDE DEF h, g
  <1>3. /\ h.role # g.role
        /\ h.own = g.re
        /\ h.re = g.own
    BY <1>1, <1>2 DEF Half, Aged, Matches, Past, IsResponder, IsInitiator
  <1> QED BY <1>3 DEF h, g

\* The initial state has no session and no packet.
LEMMA InitPairInv == Init => PairInv
  BY DEF Init, PairInv, PairType, Half, NoHalf, Aged

\* A half that is dropped, or begun with the next ephemeral, keeps the
\* invariant: it has moved past every exchange there is.
LEMMA FreshHalf ==
  ASSUME PairInv, NEW n \in Node, NEW p \in Node, n # p,
         NEW h \in Half, ~h.ready, h.role = "none" \/ h.own = next,
         next' \in Nat, next <= next', Aged(h, next'),
         half' = [half EXCEPT ![n][p] = h],
         \A m \in hs' : m \in hs \/ Bound(m, half'[m.src][m.dst], next')
  PROVE  PairInv'
  <1>1. PairType'
    BY DEF PairInv, PairType
  <1>2. \A a, b \in Node : half'[a][b] = IF a = n /\ b = p THEN h ELSE half[a][b]
    BY DEF PairInv, PairType
  <1>3. ASSUME NEW a \in Node, NEW b \in Node
        PROVE  Aged(half'[a][b], next')
    <2>1. half[a][b] \in Half /\ Aged(half[a][b], next) /\ next \in Nat
      BY DEF PairInv, PairType
    <2> QED BY <1>2, <2>1 DEF Aged, Half
  <1>4. ASSUME NEW m \in hs'
        PROVE  Bound(m, half'[m.src][m.dst], next')
    <2>1. CASE m \in hs
      <3>1. Bound(m, half[m.src][m.dst], next) /\ next \in Nat
        BY <2>1 DEF PairInv, PairType
      <3>2. half'[m.src][m.dst] \in {h, half[m.src][m.dst]}
        BY <1>2, <3>1 DEF Bound
      <3> QED BY <3>1, <3>2 DEF Bound, Past
    <2> QED BY <2>1
  <1>5. ASSUME NEW a \in Node, NEW b \in Node, a # b, half'[a][b].ready
        PROVE  Matches(half'[a][b], half'[b][a])
    <2>1. half'[a][b] = half[a][b]
      BY <1>2, <1>5
    <2>2. Matches(half[a][b], half[b][a]) /\ Aged(half[a][b], next)
      BY <1>5, <2>1 DEF PairInv
    <2>3. half'[b][a] \in {h, half[b][a]}
      BY <1>2
    <2>4. half[a][b] \in Half /\ next \in Nat
      BY DEF PairInv, PairType
    <2> QED BY <2>1, <2>2, <2>3, <2>4 DEF Matches, Past, Aged, Half
  <1> QED BY <1>1, <1>3, <1>4, <1>5 DEF PairInv

\* A half that becomes ready keeps the invariant if its peer is the other
\* half or past it: it keeps its own ephemeral, and nobody yet relied on it
\* being ready.
LEMMA ReadyHalf ==
  ASSUME PairInv, NEW n \in Node, NEW p \in Node, n # p,
         NEW h \in Half, h.role = half[n][p].role, h.own = half[n][p].own,
         h.role = "resp" => h.re = half[n][p].re,
         ~half[n][p].ready, h.ready, h.role # "none",
         next' = next, Aged(h, next), Matches(h, half[p][n]),
         half' = [half EXCEPT ![n][p] = h],
         \A m \in hs' : m \in hs \/ (Bound(m, h, next) /\ m.src = n /\ m.dst = p)
  PROVE  PairInv'
  <1> DEFINE old == half[n][p]
  <1>1. PairType' /\ next \in Nat
    BY DEF PairInv, PairType
  <1>2. \A a, b \in Node : half'[a][b] = IF a = n /\ b = p THEN h ELSE half[a][b]
    BY DEF PairInv, PairType
  <1>3. \A a, b \in Node : Aged(half'[a][b], next')
    BY <1>2 DEF PairInv
  <1>4. ASSUME NEW m \in hs'
        PROVE  Bound(m, half'[m.src][m.dst], next')
    <2>1. CASE m \in hs
      <3>1. Bound(m, half[m.src][m.dst], next)
        BY <2>1 DEF PairInv
      <3>2. CASE m.src = n /\ m.dst = p
        BY <1>2, <3>1, <3>2 DEF Bound, Past, IsResponder, IsInitiator
      <3>3. CASE ~(m.src = n /\ m.dst = p)
        BY <1>2, <3>1, <3>3 DEF Bound
      <3> QED BY <3>2, <3>3
    <2>2. CASE m \notin hs
      BY <1>2, <2>2
    <2> QED BY <2>1, <2>2
  <1>5. ASSUME NEW a \in Node, NEW b \in Node, a # b, half'[a][b].ready
        PROVE  Matches(half'[a][b], half'[b][a])
    <2>1. CASE a = n /\ b = p
      BY <1>2, <2>1
    <2>2. CASE a = p /\ b = n
      <3>1. half'[a][b] = half[p][n] /\ half'[b][a] = h
        BY <1>2, <2>2
      <3>2. Matches(half[p][n], old)
        BY <1>5, <2>2, <3>1 DEF PairInv
      <3> QED BY <3>1, <3>2 DEF Matches, Past, IsResponder, IsInitiator
    <2>3. CASE ~(a = n /\ b = p) /\ ~(a = p /\ b = n)
      <3>1. half'[a][b] = half[a][b] /\ half'[b][a] = half[b][a]
        BY <1>2, <2>3
      <3> QED BY <1>5, <3>1 DEF PairInv
    <2> QED BY <2>1, <2>2, <2>3
  <1> QED BY <1>1, <1>3, <1>4, <1>5 DEF PairInv

\* Losing packets, or all the halves of a node, keeps the invariant.
LEMMA DropAllInv ==
  ASSUME PairInv, NEW n \in Node, DropAll(n)
  PROVE  PairInv'
  <1>1. \A a, b \in Node : half'[a][b] = IF a = n THEN NoHalf ELSE half[a][b]
    BY DEF PairInv, PairType, DropAll
  <1>2. PairType' /\ next' = next /\ hs' \subseteq hs /\ next \in Nat \ {0}
    BY DEF PairInv, PairType, DropAll, NoHalf, Half
  <1>3. \A a, b \in Node : Aged(half'[a][b], next')
    BY <1>1, <1>2 DEF PairInv, Aged, NoHalf
  <1>4. ASSUME NEW m \in hs'
        PROVE  Bound(m, half'[m.src][m.dst], next')
    <2>1. Bound(m, half[m.src][m.dst], next)
      BY <1>2 DEF PairInv
    <2>2. half'[m.src][m.dst] \in {NoHalf, half[m.src][m.dst]}
      BY <1>1, <2>1 DEF Bound
    <2> QED BY <1>2, <2>1, <2>2 DEF Bound, Past, NoHalf
  <1>5. ASSUME NEW a \in Node, NEW b \in Node, a # b, half'[a][b].ready
        PROVE  Matches(half'[a][b], half'[b][a])
    <2>1. half'[a][b] = half[a][b]
      BY <1>1, <1>5 DEF NoHalf
    <2>2. Matches(half[a][b], half[b][a])
      BY <1>5, <2>1 DEF PairInv
    <2>3. half'[b][a] \in {NoHalf, half[b][a]}
      BY <1>1
    <2> QED BY <2>1, <2>2, <2>3 DEF Matches, Past, NoHalf
  <1> QED BY <1>2, <1>3, <1>4, <1>5 DEF PairInv

\* Every step keeps the invariant: one case per action.
LEMMA NextPairInv == PairInv /\ [Next]_vars => PairInv'
  <1> SUFFICES ASSUME PairInv, [Next]_vars
               PROVE  PairInv'
    OBVIOUS
  <1>1. /\ next \in Nat \ {0} /\ NoHalf \in Half /\ ~NoHalf.ready
        /\ NoHalf.role = "none" /\ Aged(NoHalf, next)
    BY DEF PairInv, PairType, NoHalf, Half, Aged
  <1>2. ASSUME NEW n \in Node, NEW p \in Node, n # p, Begin(n, p)
        PROVE  PairInv'
    <2> DEFINE h == [role |-> "init", ready |-> FALSE, own |-> next, re |-> 0]
    <2>1. /\ h \in Half /\ Aged(h, next') /\ ~h.ready /\ h.own = next
          /\ next' \in Nat /\ next <= next'
      BY <1>1, <1>2 DEF Half, Aged, Begin
    <2>2. half' = [half EXCEPT ![n][p] = h] /\ \A m \in hs' : m \in hs
      BY <1>2 DEF Begin, Become, Nothing
    <2> HIDE DEF h
    <2> QED BY <1>2, <2>1, <2>2, FreshHalf
  <1>3. ASSUME NEW n \in Node, NEW p \in Node, n # p,
               NEW e \in -1 .. next - 1, Answer(n, p, e)
        PROVE  PairInv'
    <2> DEFINE h == [role |-> "resp", ready |-> FALSE, own |-> next, re |-> e]
    <2>1. /\ h \in Half /\ Aged(h, next') /\ ~h.ready /\ h.own = next
          /\ next' = next + 1 /\ next' \in Nat /\ next <= next'
      BY <1>1, <1>3 DEF Half, Aged, Answer
    <2>2. half' = [half EXCEPT ![n][p] = h]
      BY <1>3 DEF Answer, Become
    <2>3. half'[n][p] = h
      BY <2>2 DEF PairInv, PairType
    <2>4. ASSUME NEW m \in hs', m \notin hs
          PROVE  Bound(m, half'[m.src][m.dst], next')
      <3>1. /\ m.type = "msg2" /\ m.src = n /\ m.dst = p
            /\ m.i = e /\ m.r = next
        BY <1>3, <2>4 DEF Answer, Become
      <3> QED BY <1>1, <1>3, <2>1, <2>3, <3>1 DEF Bound, IsResponder
    <2> HIDE DEF h
    <2> QED BY <1>3, <2>1, <2>2, <2>4, FreshHalf
  <1>4. ASSUME NEW n \in Node, NEW p \in Node, n # p, FinishInitiator(n, p)
        PROVE  PairInv'
    <2> DEFINE old == half[n][p]
    <2>1. PICK m \in hs : /\ m.type = "msg2" /\ m.src = p /\ m.dst = n
                          /\ m.i = old.own
                          /\ half' = [half EXCEPT ![n][p] =
                                        [old EXCEPT !.ready = TRUE, !.re = m.r]]
                          /\ \A k \in hs' : k \in hs \/ ( /\ k.type = "msg3"
                                             /\ k.src = n /\ k.dst = p
                                             /\ k.i = m.i /\ k.r = m.r)
      BY <1>4 DEF FinishInitiator, Become
    <2>2. Bound(m, half[p][n], next) /\ old \in Half /\ Aged(old, next)
      BY <2>1 DEF PairInv, PairType
    <2>3. old.role = "init" /\ ~old.ready /\ next' = next
      BY <1>4 DEF FinishInitiator
    <2> DEFINE h == [old EXCEPT !.ready = TRUE, !.re = m.r]
    <2>4. /\ h \in Half /\ Aged(h, next) /\ Matches(h, half[p][n])
          /\ h.ready /\ h.role = "init" /\ h.own = old.own /\ h.re = m.r
      BY <1>1, <2>1, <2>2, <2>3 DEF Half, Aged, Matches, Bound
    <2>5. \A k \in hs' : k \in hs \/ (Bound(k, h, next) /\ k.src = n /\ k.dst = p)
      BY <1>4, <2>1, <2>2, <2>4 DEF Bound, IsInitiator
    <2>6. half' = [half EXCEPT ![n][p] = h]
      BY <2>1
    <2> HIDE DEF h
    <2> QED BY <1>4, <2>3, <2>4, <2>5, <2>6, ReadyHalf
  <1>5. ASSUME NEW n \in Node, NEW p \in Node, n # p, RejectInitiator(n, p)
        PROVE  PairInv'
    <2>1. PICK m \in hs : /\ m.type = "msg2" /\ m.src = p /\ m.dst = n
                          /\ half' = [half EXCEPT ![n][p] = NoHalf]
                          /\ \A k \in hs' : k \in hs \/ ( /\ k.type = "msg3"
                                             /\ k.src = n /\ k.dst = p
                                             /\ k.i = m.i /\ k.r = m.r)
      BY <1>5 DEF RejectInitiator, Become
    <2>2. Bound(m, half[p][n], next) /\ next' = next
      BY <1>5, <2>1 DEF PairInv, RejectInitiator
    <2>3. half'[n][p] = NoHalf
      BY <2>1 DEF PairInv, PairType
    <2>4. \A k \in hs' : k \in hs \/ Bound(k, half'[k.src][k.dst], next')
      BY <1>5, <2>1, <2>2, <2>3 DEF Bound, Past, NoHalf
    <2>5. /\ half' = [half EXCEPT ![n][p] = NoHalf]
          /\ next' \in Nat /\ next <= next' /\ Aged(NoHalf, next')
      BY <1>1, <2>1, <2>2
    <2> QED BY <1>1, <1>5, <2>4, <2>5, FreshHalf
  <1>6. ASSUME NEW n \in Node, NEW p \in Node, n # p, FinishResponder(n, p)
        PROVE  PairInv'
    <2> DEFINE old == half[n][p]
               h == [old EXCEPT !.ready = TRUE]
    <2>1. PICK m \in hs : /\ m.type = "msg3" /\ m.src = p /\ m.dst = n
                          /\ m.i = old.re /\ m.r = old.own
      BY <1>6 DEF FinishResponder
    <2>2. Bound(m, half[p][n], next) /\ old \in Half /\ Aged(old, next)
      BY <2>1 DEF PairInv, PairType
    <2>3. /\ old.role = "resp" /\ ~old.ready /\ next' = next
          /\ half' = [half EXCEPT ![n][p] = h] /\ hs' \subseteq hs
      BY <1>6 DEF FinishResponder, Become, Nothing
    <2>4. /\ h \in Half /\ Aged(h, next) /\ Matches(h, half[p][n])
          /\ h.ready /\ h.role = "resp" /\ h.own = old.own /\ h.re = old.re
      BY <1>1, <2>1, <2>2, <2>3 DEF Half, Aged, Matches, Bound
    <2> HIDE DEF h
    <2> QED BY <1>6, <2>2, <2>3, <2>4, ReadyHalf
  <1>7. ASSUME NEW n \in Node, NEW p \in Node, n # p, Drop(n, p)
        PROVE  PairInv'
    <2>1. /\ half' = [half EXCEPT ![n][p] = NoHalf] /\ next' = next
          /\ \A m \in hs' : m \in hs
      BY <1>7 DEF Drop, Become, Nothing
    <2>2. next' \in Nat /\ next <= next' /\ Aged(NoHalf, next')
      BY <1>1, <2>1
    <2> QED BY <1>1, <1>7, <2>1, <2>2, FreshHalf
  <1>8. ASSUME LosePackets PROVE PairInv'
    BY <1>8 DEF LosePackets, PairInv, PairType
  <1>9. CASE UNCHANGED vars
    BY <1>9 DEF vars, PairInv, PairType
  <1> QED BY <1>2, <1>3, <1>4, <1>5, <1>6, <1>7, <1>8, <1>9, DropAllInv DEF Next

\* In every behaviour, two ready ends are the halves of one exchange.
THEOREM PairedTheorem == Spec => []Paired
  <1>1. Spec => []PairInv
    BY InitPairInv, NextPairInv, PTL DEF Spec
  <1> QED BY <1>1, InvPaired, PTL
=============================================================================

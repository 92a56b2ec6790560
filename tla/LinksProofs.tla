----------------------------- MODULE LinksProofs -----------------------------
(***************************************************************************)
(* Proofs about RedundantLinks: how many phones there are, how often they  *)
(* connect, fail, are lost and switch Bluetooth, a phone keeps one link    *)
(* per peer, closes a link only while it keeps another to the same peer,   *)
(* and its two maps of links agree as far as MapsAgree says.               *)
(***************************************************************************)
EXTENDS RedundantLinks, WellFoundedInduction, TLAPS

-----------------------------------------------------------------------------
(***************************************************************************)
(* The platform: which clients, frames and links there are.                *)
(***************************************************************************)
EndOK(e) == e.conn \in Conn /\ e.no \in Nat /\ e = End(e.conn, e.no)
ClientOK(k) == EndOK(k) /\ k.no # 0

Shapes ==
    /\ DOMAIN tmap = Node /\ DOMAIN core = Node /\ DOMAIN call = Node /\ DOMAIN drop = Node
    /\ DOMAIN known = Node /\ DOMAIN next = Node
    /\ DOMAIN used = Event /\ \A ev \in Event : used[ev] \in Nat
    /\ \A k \in trying \cup live : ClientOK(k)
    /\ \A x \in notice : ClientOK(x.client)
    /\ \A f \in air : EndOK(f.end) /\ Stands(f.end, live)
    /\ \A n \in Node : \A l \in DOMAIN tmap[n] : EndOK(tmap[n][l]) /\ At(tmap[n][l]) = n

\* What a client leaves behind: it connects, is connected, is told of, or has a link.
Linked(k) == \E n \in Node : \E l \in DOMAIN tmap[n] : tmap[n][l] = k
InPool(k) == /\ k.no # 0
             /\ k \in trying \/ k \in live \/ (\E x \in notice : x.client = k) \/ Linked(k)

\* Without a second client to one address, there is one client of a connection.
OneClient == used["again"] = 0 =>
    \A k, m : InPool(k) /\ InPool(m) /\ k.conn = m.conn => k = m

NetInv == Shapes /\ OneClient

-----------------------------------------------------------------------------
(***************************************************************************)
(* The core: how the links K of phone n and the calls Q on their way to it *)
(* relate to the links T of its transport; W are the keys it knows and i   *)
(* the next link id.                                                       *)
(***************************************************************************)
Told(Q, op, l) == \E x \in Q : x.op = op /\ x.link = l

\* Link ids are counted from 1, and none is given twice.
IdsOK(T, K, Q, i) ==
    /\ i \in Nat \ {0}
    /\ \A l \in DOMAIN T : l \in Nat /\ l < i
    /\ \A l \in DOMAIN K : l \in Nat /\ l < i
    /\ \A x \in Q : x.link \in Nat /\ x.link < i /\ x.from \in Node

Tag(t) == /\ t = [eph |-> t.eph, fp |-> t.fp]
          /\ t.eph \in Node \cup {Nobody} /\ (t.fp = Nobody \/ t.fp = t.eph)

\* The tag of a link is resolved as soon as its key is known.
Tagged(K, W) ==
    /\ W \subseteq Node
    /\ \A l \in DOMAIN K : Tag(K[l]) /\ (K[l].eph \in W => K[l].fp = K[l].eph)
    /\ \A l, k \in DOMAIN K : K[l].fp # Nobody /\ K[l].fp = K[k].fp => l = k

\* The core has a link of the transport, or is about to be told of it.
Coming(T, K, Q) == \A l \in DOMAIN T : l \in DOMAIN K \/ Told(Q, "up", l)

\* A call that brings a link up is the only one, and the link is not yet entered.
UpFirst(n, T, K, Q) == \A x \in Q : x.op = "up" =>
    /\ x.link \notin DOMAIN K
    /\ x.link \in DOMAIN T => x.thread = Thread(T[x.link])
    /\ \A y \in Q : y.op = "up" /\ y.link = x.link => y = x

DownLast(T, Q) == \A x \in Q : x.op = "down" => x.link \notin DOMAIN T

\* The tags are true.
TrueTags(n, T, K, Q) ==
    /\ \A x \in Q : x.op = "frame" /\ x.link \in DOMAIN T => x.from = Other(T[x.link].conn, n)
    /\ \A l \in DOMAIN K : l \in DOMAIN T => K[l].eph = Nobody \/ K[l].eph = Other(T[l].conn, n)

Row(n, T, K, Q, W, i) ==
    /\ IdsOK(T, K, Q, i) /\ Tagged(K, W) /\ Coming(T, K, Q) /\ UpFirst(n, T, K, Q)
    /\ DownLast(T, Q) /\ TrueTags(n, T, K, Q)

\* With one client of a connection, no frame overtakes the call that brings its
\* link up, and a link that the transport no longer has, without the core being
\* told, was never tagged and never will be.
Stale(T, K, Q, l) == l \in DOMAIN K /\ l \notin DOMAIN T /\ ~Told(Q, "down", l)
Single(T, K, Q) ==
    /\ \A x \in Q : x.op = "up" => ~Told(Q, "frame", x.link)
    /\ \A l \in DOMAIN K : Stale(T, K, Q, l) => K[l].eph = Nobody /\ ~Told(Q, "frame", l)

\* Only a Bluetooth switch or a second client makes such links.
Calm(T, K, Q) == /\ \A l \in DOMAIN K : ~Stale(T, K, Q, l)
                 /\ \A x \in Q : x.op = "up" => x.link \in DOMAIN T

\* With one client of a connection, a callback drops links of its own end.
Main == <<"main">>
Own(T, D) == \A d \in D : d.link \in DOMAIN T => d.thread \in {Main, Thread(T[d.link])}

PhoneOK(n) ==
    /\ Row(n, tmap[n], core[n], call[n], known[n], next[n])
    /\ \A d \in drop[n] : d.link \in Nat /\ d.link < next[n]
    /\ used["again"] = 0 => Single(tmap[n], core[n], call[n]) /\ Own(tmap[n], drop[n])
    /\ used["toggle"] = 0 => \A d \in drop[n] : d.thread # Main
    /\ used["toggle"] = 0 /\ used["again"] = 0 => Calm(tmap[n], core[n], call[n])

CoreInv == \A n \in Node : PhoneOK(n)

-----------------------------------------------------------------------------
(***************************************************************************)
(* What the steps of a phone do to its row.                                *)
(***************************************************************************)
LEMMA LeastNat ==
  ASSUME NEW S, S \subseteq Nat, S # {}
  PROVE  \E x \in S : \A y \in S : x <= y
  <1>1. PICK x \in S : \A y \in S : ~(<<y, x>> \in OpToRel(<, Nat))
    BY NatLessThanWellFounded, WFMin
  <1>2. \A y \in S : ~(y < x)
    BY <1>1 DEF OpToRel
  <1> QED BY <1>2

CallOf(thread, op, l, kind, from) ==
    [thread |-> thread, op |-> op, link |-> l, kind |-> kind, from |-> from]

\* A link is entered, and the core is about to be told.
LEMMA RowUp ==
  ASSUME NEW n \in Node, NEW T, NEW K, NEW Q, NEW W, NEW i, Row(n, T, K, Q, W, i),
         NEW e, NEW x, x = CallOf(Thread(e), "up", i, "none", n),
         NEW T2, T2 = With(T, i, e), NEW Q2, Q2 = Q \cup {x}
  PROVE  /\ Row(n, T2, K, Q2, W, i + 1)
         /\ Single(T, K, Q) => Single(T2, K, Q2)
         /\ Calm(T, K, Q) => Calm(T2, K, Q2)
  <1>1. /\ x.op = "up" /\ x.link = i /\ x.from = n /\ x.thread = Thread(e)
    BY DEF CallOf
  <1>2. /\ DOMAIN T2 = DOMAIN T \cup {i} /\ T2[i] = e
        /\ \A l \in DOMAIN T : l # i => T2[l] = T[l]
    BY DEF With
  <1>3. /\ i \in Nat \ {0} /\ i \notin DOMAIN T /\ i \notin DOMAIN K
        /\ \A y \in Q : y.link # i
    BY DEF Row, IdsOK
  <1>4. IdsOK(T2, K, Q2, i + 1)
    BY <1>1, <1>2, <1>3 DEF Row, IdsOK
  <1>5. \A op, l : Told(Q2, op, l) <=> Told(Q, op, l) \/ (op = "up" /\ l = i)
    BY <1>1 DEF Told
  <1>6. Coming(T2, K, Q2)
    BY <1>2, <1>5 DEF Row, Coming
  <1>7. UpFirst(n, T2, K, Q2)
    <2> SUFFICES ASSUME NEW y \in Q2, y.op = "up"
                 PROVE  /\ y.link \notin DOMAIN K
                        /\ y.link \in DOMAIN T2 => y.thread = Thread(T2[y.link])
                        /\ \A z \in Q2 : z.op = "up" /\ z.link = y.link => z = y
      BY DEF UpFirst
    <2>1. CASE y \in Q
      BY <1>1, <1>2, <1>3, <1>5, <2>1 DEF Row, UpFirst
    <2>2. CASE y = x
      BY <1>1, <1>2, <1>3, <2>2
    <2> QED BY <2>1, <2>2
  <1>8. DownLast(T2, Q2)
    BY <1>1, <1>2, <1>3 DEF Row, DownLast
  <1>9. TrueTags(n, T2, K, Q2)
    BY <1>1, <1>2, <1>3 DEF Row, TrueTags
  <1>10. \A l : Stale(T2, K, Q2, l) <=> Stale(T, K, Q, l)
    BY <1>2, <1>3, <1>5 DEF Stale
  <1>11. Single(T, K, Q) => Single(T2, K, Q2)
    <2>1. ~Told(Q, "frame", i)
      BY <1>3 DEF Told
    <2> QED BY <1>1, <1>5, <1>10, <2>1 DEF Single
  <1>12. Calm(T, K, Q) => Calm(T2, K, Q2)
    BY <1>1, <1>2, <1>10 DEF Calm
  <1> QED BY <1>4, <1>6, <1>7, <1>8, <1>9, <1>11, <1>12 DEF Row

\* A link is dropped, and the core is about to be told.
LEMMA RowDrop ==
  ASSUME NEW n \in Node, NEW T, NEW K, NEW Q, NEW W, NEW i, Row(n, T, K, Q, W, i),
         NEW l \in Nat, l < i, NEW t, NEW x, x = CallOf(t, "down", l, "none", n),
         NEW T2, T2 = Without(T, {l}), NEW Q2, Q2 = Q \cup {x}
  PROVE  /\ Row(n, T2, K, Q2, W, i)
         /\ Single(T, K, Q) => Single(T2, K, Q2)
         /\ Calm(T, K, Q) /\ ~Told(Q, "up", l) => Calm(T2, K, Q2)
  <1>1. /\ x.op = "down" /\ x.link = l /\ x.from = n
    BY DEF CallOf
  <1>2. DOMAIN T2 = DOMAIN T \ {l} /\ \A k \in DOMAIN T2 : T2[k] = T[k]
    BY DEF Without
  <1>3. IdsOK(T2, K, Q2, i)
    BY <1>1, <1>2 DEF Row, IdsOK
  <1>4. \A op, k : Told(Q2, op, k) <=> Told(Q, op, k) \/ (op = "down" /\ k = l)
    BY <1>1 DEF Told
  <1>5. Coming(T2, K, Q2)
    BY <1>2, <1>4 DEF Row, Coming
  <1>6. UpFirst(n, T2, K, Q2)
    <2> SUFFICES ASSUME NEW y \in Q2, y.op = "up"
                 PROVE  /\ y.link \notin DOMAIN K
                        /\ y.link \in DOMAIN T2 => y.thread = Thread(T2[y.link])
                        /\ \A z \in Q2 : z.op = "up" /\ z.link = y.link => z = y
      BY DEF UpFirst
    <2>1. y \in Q
      BY <1>1
    <2> QED BY <1>1, <1>2, <1>4, <2>1 DEF Row, UpFirst
  <1>7. DownLast(T2, Q2)
    BY <1>1, <1>2 DEF Row, DownLast
  <1>8. TrueTags(n, T2, K, Q2)
    BY <1>1, <1>2 DEF Row, TrueTags
  <1>9. \A k : Stale(T2, K, Q2, k) => Stale(T, K, Q, k)
    BY <1>2, <1>4 DEF Stale
  <1>10. Single(T, K, Q) => Single(T2, K, Q2)
    BY <1>1, <1>4, <1>9 DEF Single
  <1>11. Calm(T, K, Q) /\ ~Told(Q, "up", l) => Calm(T2, K, Q2)
    BY <1>1, <1>2, <1>9 DEF Calm, Told
  <1> QED BY <1>3, <1>5, <1>6, <1>7, <1>8, <1>10, <1>11 DEF Row

\* A frame of a link comes in.
LEMMA RowFrame ==
  ASSUME NEW n \in Node, NEW T, NEW K, NEW Q, NEW W, NEW i, Row(n, T, K, Q, W, i),
         NEW l \in DOMAIN T, Other(T[l].conn, n) \in Node, NEW t, NEW kind,
         NEW x, x = CallOf(t, "frame", l, kind, Other(T[l].conn, n)),
         NEW Q2, Q2 = Q \cup {x}
  PROVE  /\ Row(n, T, K, Q2, W, i)
         /\ Single(T, K, Q) /\ (\A y \in Q : y.thread # Thread(T[l])) => Single(T, K, Q2)
         /\ Calm(T, K, Q) => Calm(T, K, Q2)
  <1>1. /\ x.op = "frame" /\ x.link = l /\ x.from = Other(T[l].conn, n)
    BY DEF CallOf
  <1>2. \A op, k : Told(Q2, op, k) <=> Told(Q, op, k) \/ (op = "frame" /\ k = l)
    BY <1>1 DEF Told
  <1>3. IdsOK(T, K, Q2, i)
    BY <1>1 DEF Row, IdsOK
  <1>4. Coming(T, K, Q2)
    BY <1>2 DEF Row, Coming
  <1>5. UpFirst(n, T, K, Q2)
    BY <1>1, <1>2 DEF Row, UpFirst
  <1>6. DownLast(T, Q2)
    BY <1>1 DEF Row, DownLast
  <1>7. TrueTags(n, T, K, Q2)
    BY <1>1 DEF Row, TrueTags
  <1>8. \A k : Stale(T, K, Q2, k) <=> Stale(T, K, Q, k)
    BY <1>2 DEF Stale
  <1>9. Single(T, K, Q) /\ (\A y \in Q : y.thread # Thread(T[l])) => Single(T, K, Q2)
    <2> SUFFICES ASSUME Single(T, K, Q), \A y \in Q : y.thread # Thread(T[l])
                 PROVE  Single(T, K, Q2)
      OBVIOUS
    <2>1. ~Told(Q, "up", l)
      BY DEF Row, UpFirst, Told
    <2>2. \A y \in Q2 : y.op = "up" => y \in Q /\ y.link # l
      BY <1>1, <2>1 DEF Told
    <2> QED BY <1>2, <1>8, <2>2 DEF Single, Stale
  <1>10. Calm(T, K, Q) => Calm(T, K, Q2)
    BY <1>1, <1>8 DEF Calm
  <1> QED BY <1>3, <1>4, <1>5, <1>6, <1>7, <1>9, <1>10 DEF Row

\* The core is told of a link.
LEMMA RowLinkUp ==
  ASSUME NEW n \in Node, NEW T, NEW K, NEW Q, NEW W, NEW i, Row(n, T, K, Q, W, i),
         NEW x \in Q, x.op = "up", NEW K2, K2 = With(K, x.link, Untagged),
         NEW Q2, Q2 = Q \ {x}
  PROVE  /\ Row(n, T, K2, Q2, W, i)
         /\ Single(T, K, Q) => Single(T, K2, Q2)
         /\ Calm(T, K, Q) => Calm(T, K2, Q2)
  <1>1. PICK l : l = x.link
    OBVIOUS
  <1>2. DOMAIN K2 = DOMAIN K \cup {l} /\ K2[l] = Untagged /\ \A k \in DOMAIN K : k # l => K2[k] = K[k]
    BY <1>1 DEF With
  <1>3. /\ l \notin DOMAIN K
        /\ \A y \in Q : y.op = "up" /\ y.link = l => y = x
        /\ l \in DOMAIN T => x.thread = Thread(T[l])
    BY <1>1 DEF Row, UpFirst
  <1>4. Untagged.eph = Nobody /\ Untagged.fp = Nobody /\ Nobody \notin Node
    BY NodeAssumption DEF Untagged
  <1>5. \A op, k : Told(Q2, op, k) => Told(Q, op, k)
    BY DEF Told
  <1>6. \A op, k : Told(Q, op, k) /\ ~(op = "up" /\ k = l) => Told(Q2, op, k)
    BY <1>1 DEF Told
  <1>7. IdsOK(T, K2, Q2, i)
    BY <1>1, <1>2 DEF Row, IdsOK
  <1>8. Tagged(K2, W)
    <2>1. Tag(Untagged)
      BY <1>4 DEF Tag, Untagged
    <2> QED BY <1>2, <1>3, <1>4, <2>1 DEF Row, Tagged
  <1>9. Coming(T, K2, Q2)
    BY <1>2, <1>6 DEF Row, Coming
  <1>10. UpFirst(n, T, K2, Q2)
    BY <1>2, <1>3, <1>5 DEF Row, UpFirst
  <1>11. DownLast(T, Q2)
    BY DEF Row, DownLast
  <1>12. TrueTags(n, T, K2, Q2)
    BY <1>2, <1>3, <1>4 DEF Row, TrueTags
  <1>13. \A k \in DOMAIN K : Stale(T, K2, Q2, k) <=> Stale(T, K, Q, k)
    BY <1>2, <1>5, <1>6 DEF Stale
  <1>14. Single(T, K, Q) => Single(T, K2, Q2)
    BY <1>1, <1>2, <1>3, <1>4, <1>5, <1>13 DEF Single
  <1>15. Calm(T, K, Q) => Calm(T, K2, Q2)
    BY <1>1, <1>2, <1>13 DEF Calm, Stale
  <1> QED BY <1>7, <1>8, <1>9, <1>10, <1>11, <1>12, <1>14, <1>15 DEF Row

\* The core is told that a link is gone.
LEMMA RowLinkDown ==
  ASSUME NEW n \in Node, NEW T, NEW K, NEW Q, NEW W, NEW i, Row(n, T, K, Q, W, i),
         NEW x \in Q, x.op = "down", NEW K2, K2 = Without(K, {x.link}),
         NEW Q2, Q2 = Q \ {x}
  PROVE  /\ Row(n, T, K2, Q2, W, i)
         /\ Single(T, K, Q) => Single(T, K2, Q2)
         /\ Calm(T, K, Q) => Calm(T, K2, Q2)
  <1>1. PICK l : l = x.link
    OBVIOUS
  <1>2. DOMAIN K2 = DOMAIN K \ {l} /\ \A k \in DOMAIN K2 : K2[k] = K[k]
    BY <1>1 DEF Without
  <1>3. l \notin DOMAIN T
    BY <1>1 DEF Row, DownLast
  <1>5. \A op, k : Told(Q2, op, k) => Told(Q, op, k)
    BY DEF Told
  <1>6. \A op, k : Told(Q, op, k) /\ ~(op = "down" /\ k = l) => Told(Q2, op, k)
    BY <1>1 DEF Told
  <1>7. IdsOK(T, K2, Q2, i)
    BY <1>2 DEF Row, IdsOK
  <1>8. Tagged(K2, W)
    BY <1>2 DEF Row, Tagged, Tag
  <1>9. Coming(T, K2, Q2)
    BY <1>2, <1>3, <1>6 DEF Row, Coming
  <1>10. UpFirst(n, T, K2, Q2)
    BY <1>2, <1>5 DEF Row, UpFirst
  <1>11. DownLast(T, Q2)
    BY DEF Row, DownLast
  <1>12. TrueTags(n, T, K2, Q2)
    BY <1>2 DEF Row, TrueTags
  <1>13. \A k : Stale(T, K2, Q2, k) => Stale(T, K, Q, k)
    BY <1>2, <1>6 DEF Stale
  <1>14. Single(T, K, Q) => Single(T, K2, Q2)
    BY <1>2, <1>5, <1>13 DEF Single
  <1>15. Calm(T, K, Q) => Calm(T, K2, Q2)
    BY <1>2, <1>13 DEF Calm
  <1> QED BY <1>7, <1>8, <1>9, <1>10, <1>11, <1>12, <1>14, <1>15 DEF Row

\* A frame of the neighbour changes at most the tag of its link.
Retag(K, K1, x) ==
    /\ DOMAIN K1 = DOMAIN K
    /\ \A l \in DOMAIN K : \/ K1[l] = K[l]
                           \/ l = x.link /\ K1[l] = [eph |-> x.from, fp |-> Nobody]

LEMMA ResolvedFacts ==
  ASSUME NEW K1, NEW W2, W2 \subseteq Node, \A l \in DOMAIN K1 : Tag(K1[l]),
         NEW R, R = Resolved(K1, W2)
  PROVE  /\ DOMAIN R = DOMAIN K1
         /\ \A l \in DOMAIN R : /\ Tag(R[l]) /\ R[l].eph = K1[l].eph
                                /\ R[l].eph \in W2 => R[l].fp = R[l].eph
  <1>1. DOMAIN R = DOMAIN K1
    BY DEF Resolved
  <1>2. ASSUME NEW l \in DOMAIN R
        PROVE  /\ Tag(R[l]) /\ R[l].eph = K1[l].eph
               /\ R[l].eph \in W2 => R[l].fp = R[l].eph
    <2>1. PICK t : t = K1[l]
      OBVIOUS
    <2>2. Tag(t)
      BY <1>1, <1>2, <2>1
    <2>3. R[l] = IF t.fp = Nobody /\ t.eph \in W2 THEN [t EXCEPT !.fp = t.eph] ELSE t
      BY <1>1, <1>2, <2>1 DEF Resolved
    <2>4. CASE t.fp = Nobody /\ t.eph \in W2
      <3>1. R[l] = [eph |-> t.eph, fp |-> t.eph]
        BY <2>2, <2>3, <2>4 DEF Tag
      <3> QED BY <2>1, <2>2, <3>1 DEF Tag
    <2>5. CASE ~(t.fp = Nobody /\ t.eph \in W2)
      BY <2>1, <2>2, <2>3, <2>5 DEF Tag
    <2> QED BY <2>4, <2>5
  <1> QED BY <1>1, <1>2

\* Of a link that is closed, another to the same phone is kept.
Kept(n, T, K, Q, T2, K2) ==
    \A l \in DOMAIN K \ DOMAIN K2 : l \in DOMAIN T =>
        \E k \in DOMAIN K2 :
            /\ K2[k].fp = Other(T[l].conn, n)
            /\ Single(T, K, Q) => k \in DOMAIN T2 \/ Told(Q, "down", k)

\* The call x has been taken, and the redundant ones of the links K1 are closed.
Closed(T, Q, x, K1, W2, T2, K2, Q2) ==
    LET G == Redundant(Resolved(K1, W2))
    IN  /\ Q2 = Q \ {x} /\ K2 = Without(Resolved(K1, W2), G)
        /\ T2 = Without(T, G \cap DOMAIN T)

\* Links are tagged, resolved, and the redundant ones closed.
LEMMA RowDedup ==
  ASSUME NEW n \in Node, NEW T, NEW K, NEW Q, NEW W, NEW i, Row(n, T, K, Q, W, i),
         NEW x \in Q, x.op = "frame", NEW K1, Retag(K, K1, x), NEW W2, W2 \subseteq Node,
         NEW T2, NEW K2, NEW Q2, Closed(T, Q, x, K1, W2, T2, K2, Q2)
  PROVE  /\ Row(n, T2, K2, Q2, W2, i)
         /\ Single(T, K, Q) => Single(T2, K2, Q2)
         /\ Calm(T, K, Q) => Calm(T2, K2, Q2)
         /\ Kept(n, T, K, Q, T2, K2)
  <1> PICK R : R = Resolved(K1, W2)
    OBVIOUS
  <1> PICK G : G = Redundant(R)
    OBVIOUS
  <1>0. Q2 = Q \ {x} /\ K2 = Without(R, G) /\ T2 = Without(T, G \cap DOMAIN T)
    BY DEF Closed
  <1>1. /\ \A l \in DOMAIN K : Tag(K[l]) /\ l \in Nat
        /\ x.from \in Node
    BY DEF Row, Tagged, IdsOK
  <1>2. DOMAIN K1 = DOMAIN K /\ \A l \in DOMAIN K1 : Tag(K1[l])
    <2>1. Tag([eph |-> x.from, fp |-> Nobody])
      BY <1>1 DEF Tag
    <2> QED BY <1>1, <2>1 DEF Retag
  <1>3. /\ DOMAIN R = DOMAIN K
        /\ \A l \in DOMAIN R : /\ Tag(R[l]) /\ R[l].eph = K1[l].eph
                               /\ R[l].eph \in W2 => R[l].fp = R[l].eph
    BY <1>2, ResolvedFacts
  <1>4. \A l : l \in G <=> /\ l \in DOMAIN R /\ R[l].fp # Nobody
                           /\ \E k \in DOMAIN R : k < l /\ R[k].fp = R[l].fp
    BY DEF Redundant
  <1>5. DOMAIN K2 = DOMAIN K \ G /\ \A l \in DOMAIN K2 : K2[l] = R[l]
    BY <1>0, <1>3 DEF Without
  <1>6. DOMAIN T2 = DOMAIN T \ G /\ \A l \in DOMAIN T2 : T2[l] = T[l]
    BY <1>0 DEF Without
  <1>7. \A op, k : Told(Q2, op, k) => Told(Q, op, k)
    BY <1>0 DEF Told
  <1>8. \A op, k : Told(Q, op, k) /\ op # "frame" => Told(Q2, op, k)
    BY <1>0 DEF Told
  <1>9. IdsOK(T2, K2, Q2, i)
    BY <1>0, <1>5, <1>6 DEF Row, IdsOK
  <1>10. Tagged(K2, W2)
    <2>1. ASSUME NEW l \in DOMAIN K2, NEW k \in DOMAIN K2, K2[l].fp # Nobody, K2[l].fp = K2[k].fp
          PROVE  l = k
      <3>1. /\ l \in Nat /\ k \in Nat /\ R[l].fp = R[k].fp /\ R[l].fp # Nobody
            /\ l \in DOMAIN R /\ k \in DOMAIN R /\ l \notin G /\ k \notin G
        BY <1>1, <1>3, <1>5, <2>1
      <3>2. ~(l < k) /\ ~(k < l)
        BY <1>4, <3>1
      <3> QED BY <3>1, <3>2
    <2> QED BY <1>3, <1>5, <2>1 DEF Tagged
  <1>11. Coming(T2, K2, Q2)
    BY <1>5, <1>6, <1>8 DEF Row, Coming
  <1>12. UpFirst(n, T2, K2, Q2)
    <2> SUFFICES ASSUME NEW y \in Q2, y.op = "up"
                 PROVE  /\ y.link \notin DOMAIN K2
                        /\ y.link \in DOMAIN T2 => y.thread = Thread(T2[y.link])
                        /\ \A z \in Q2 : z.op = "up" /\ z.link = y.link => z = y
      BY DEF UpFirst
    <2> QED BY <1>0, <1>5, <1>6, <1>7 DEF Row, UpFirst
  <1>13. DownLast(T2, Q2)
    BY <1>0, <1>6 DEF Row, DownLast
  <1>14. \A l \in DOMAIN K : l \in DOMAIN T => R[l].eph = Nobody \/ R[l].eph = Other(T[l].conn, n)
    <2> SUFFICES ASSUME NEW l \in DOMAIN K, l \in DOMAIN T
                 PROVE  R[l].eph = Nobody \/ R[l].eph = Other(T[l].conn, n)
      OBVIOUS
    <2>1. CASE K1[l] = K[l]
      BY <1>3, <2>1 DEF Row, TrueTags
    <2>2. CASE l = x.link /\ K1[l] = [eph |-> x.from, fp |-> Nobody]
      BY <1>3, <2>2 DEF Row, TrueTags
    <2> QED BY <2>1, <2>2 DEF Retag
  <1>15. TrueTags(n, T2, K2, Q2)
    <2>1. ASSUME NEW y \in Q2, y.op = "frame", y.link \in DOMAIN T2
          PROVE  y.from = Other(T2[y.link].conn, n)
      BY <1>0, <1>6, <2>1 DEF Row, TrueTags
    <2>2. ASSUME NEW l \in DOMAIN K2, l \in DOMAIN T2
          PROVE  K2[l].eph = Nobody \/ K2[l].eph = Other(T2[l].conn, n)
      BY <1>5, <1>6, <1>14, <2>2
    <2> QED BY <2>1, <2>2 DEF TrueTags
  <1>16. \A l : Stale(T2, K2, Q2, l) => Stale(T, K, Q, l)
    BY <1>5, <1>6, <1>8 DEF Stale
  <1>17. \A l \in DOMAIN K : Single(T, K, Q) /\ Stale(T, K, Q, l) => R[l].eph = Nobody
    <2> SUFFICES ASSUME NEW l \in DOMAIN K, Single(T, K, Q), Stale(T, K, Q, l)
                 PROVE  R[l].eph = Nobody
      OBVIOUS
    <2>1. K[l].eph = Nobody /\ ~Told(Q, "frame", l)
      BY DEF Single
    <2>2. l # x.link
      BY <2>1 DEF Told
    <2> QED BY <1>3, <2>1, <2>2 DEF Retag
  <1>18. Single(T, K, Q) => Single(T2, K2, Q2)
    <2> SUFFICES ASSUME Single(T, K, Q)
                 PROVE  Single(T2, K2, Q2)
      OBVIOUS
    <2>1. \A y \in Q2 : y.op = "up" => ~Told(Q2, "frame", y.link)
      BY <1>0, <1>7 DEF Single
    <2>2. ASSUME NEW l \in DOMAIN K2, Stale(T2, K2, Q2, l)
          PROVE  K2[l].eph = Nobody /\ ~Told(Q2, "frame", l)
      <3>1. l \in DOMAIN K /\ Stale(T, K, Q, l) /\ K2[l] = R[l]
        BY <1>5, <1>16, <2>2
      <3>2. ~Told(Q, "frame", l)
        BY <3>1 DEF Single
      <3> QED BY <1>7, <1>17, <3>1, <3>2
    <2> QED BY <2>1, <2>2 DEF Single
  <1>19. Calm(T, K, Q) => Calm(T2, K2, Q2)
    <2> SUFFICES ASSUME Calm(T, K, Q)
                 PROVE  Calm(T2, K2, Q2)
      OBVIOUS
    <2>1. \A l \in DOMAIN K2 : ~Stale(T2, K2, Q2, l)
      BY <1>5, <1>16 DEF Calm
    <2>2. \A y \in Q2 : y.op = "up" => y.link \in DOMAIN T2
      BY <1>0, <1>3, <1>4, <1>6 DEF Calm, Row, UpFirst
    <2> QED BY <2>1, <2>2 DEF Calm
  <1>20. ASSUME NEW l \in DOMAIN K \ DOMAIN K2, l \in DOMAIN T
         PROVE  \E k \in DOMAIN K2 :
                    /\ K2[k].fp = Other(T[l].conn, n)
                    /\ Single(T, K, Q) => k \in DOMAIN T2 \/ Told(Q, "down", k)
    <2>1. l \in DOMAIN R /\ R[l].fp # Nobody
      BY <1>4, <1>5, <1>20
    <2> DEFINE S == {k \in DOMAIN R : R[k].fp = R[l].fp}
    <2>2. PICK k \in S : \A j \in S : k <= j
      <3>1. S \subseteq Nat /\ S # {}
        BY <1>1, <1>3, <2>1
      <3> HIDE DEF S
      <3> QED BY <3>1, LeastNat
    <2>3. k \in DOMAIN K2 /\ K2[k] = R[k] /\ k \in DOMAIN K
      <3>1. k \in DOMAIN R /\ \A j \in DOMAIN R : R[j].fp = R[k].fp => ~(j < k)
        <4>1. \A j \in S : j \in Nat /\ k \in Nat
          BY <1>1, <1>3
        <4> QED BY <2>2, <4>1
      <3>2. k \notin G
        BY <1>4, <3>1
      <3> QED BY <1>3, <1>5, <3>1, <3>2
    <2>4. R[l].fp = Other(T[l].conn, n)
      BY <1>3, <1>14, <1>20, <2>1 DEF Tag
    <2>5. R[k].fp = R[l].fp /\ R[k].eph # Nobody
      BY <1>3, <2>1, <2>2 DEF Tag
    <2>6. Single(T, K, Q) => ~Stale(T, K, Q, k)
      BY <1>17, <2>3, <2>5
    <2>7. Single(T, K, Q) => k \in DOMAIN T2 \/ Told(Q, "down", k)
      BY <1>5, <1>6, <2>3, <2>6 DEF Stale
    <2> QED BY <2>3, <2>4, <2>5, <2>7
  <1> QED BY <1>9, <1>10, <1>11, <1>12, <1>13, <1>15, <1>18, <1>19, <1>20 DEF Row, Kept

-----------------------------------------------------------------------------
(***************************************************************************)
(* What the steps do to the clients, the frames and the transports.        *)
(***************************************************************************)
LEMMA EndFacts ==
  ASSUME NEW e, EndOK(e)
  PROVE  /\ e.conn[1] \in Node /\ e.conn[2] \in Node /\ e.conn[1] # e.conn[2]
         /\ At(e) \in Node /\ Other(e.conn, At(e)) \in Node
         /\ EndOK(Server(e.conn)) /\ Server(e.conn).conn = e.conn /\ Server(e.conn).no = 0
         /\ At(Server(e.conn)) = e.conn[2]
         /\ e.no # 0 => At(e) = e.conn[1]
  <1>1. Server(e.conn).conn = e.conn /\ Server(e.conn).no = 0
    BY DEF Server, End
  <1>2. EndOK(Server(e.conn))
    BY <1>1 DEF EndOK, Server
  <1>3. e.conn[1] \in Node /\ e.conn[2] \in Node /\ e.conn[1] # e.conn[2]
    BY DEF EndOK, Conn
  <1>4. At(e) \in {e.conn[1], e.conn[2]} /\ (e.no # 0 => At(e) = e.conn[1])
    BY DEF At
  <1>5. At(Server(e.conn)) = e.conn[2]
    BY <1>1 DEF At
  <1> QED BY <1>1, <1>2, <1>3, <1>4, <1>5 DEF Other

\* The links to the address of an end are its own, while no connection has a
\* second client.
LEMMA OwnLinks ==
  ASSUME NetInv, used["again"] = 0, NEW e, EndOK(e), e.no = 0 \/ InPool(e),
         NEW l \in LinksTo(At(e), e.conn)
  PROVE  tmap[At(e)][l] = e
  <1> PICK n, k : n = At(e) /\ k = tmap[n][l]
    OBVIOUS
  <1>1. n \in Node /\ e.conn[1] # e.conn[2] /\ (e.no # 0 => n = e.conn[1])
    BY EndFacts
  <1>2. l \in DOMAIN tmap[n] /\ k.conn = e.conn
    BY DEF LinksTo
  <1>3. EndOK(k) /\ At(k) = n
    BY <1>1, <1>2 DEF NetInv, Shapes
  <1>4. CASE e.no = 0
    <2>1. n = e.conn[2]
      BY <1>4 DEF At
    <2>2. k.no = 0
      BY <1>1, <1>2, <1>3, <2>1 DEF At
    <2> QED BY <1>2, <1>3, <1>4, <2>2 DEF EndOK
  <1>5. CASE e.no # 0
    <2>1. k.no # 0
      BY <1>1, <1>2, <1>3, <1>5 DEF At
    <2>2. InPool(k)
      BY <1>1, <1>2, <2>1 DEF InPool, Linked
    <2> QED BY <1>2, <1>5, <2>2 DEF NetInv, OneClient
  <1> QED BY <1>4, <1>5

\* A bounded event only adds to its count.
Counted == /\ DOMAIN used' = Event /\ \A ev \in Event : used'[ev] \in Nat
           /\ used'["again"] = 0 => used["again"] = 0
           /\ used'["toggle"] = 0 => used["toggle"] = 0

LEMMA Spent ==
  ASSUME Shapes, used' = used \/ \E ev \in Event : Spend(ev)
  PROVE  Counted
  <1>1. "again" \in Event /\ "toggle" \in Event
    BY DEF Event
  <1>2. CASE used' = used
    BY <1>2 DEF Shapes, Counted
  <1>3. CASE \E ev \in Event : Spend(ev)
    <2>1. PICK ev \in Event : used' = [used EXCEPT ![ev] = @ + 1]
      BY <1>3 DEF Spend
    <2> QED BY <1>1, <2>1 DEF Shapes, Counted
  <1> QED BY <1>2, <1>3

LEMMA SpentOne ==
  ASSUME Shapes, NEW ev \in Event, Spend(ev)
  PROVE  used'[ev] # 0
  BY DEF Shapes, Spend

\* No step but a scan result makes a client.
Pooled ==
    /\ trying' \subseteq trying
    /\ \A k \in live' : k \in live \/ k \in trying
    /\ \A x \in notice' : x \in notice \/ x.client \in trying \/ x.client \in live
    /\ \A n \in Node : \A l \in DOMAIN tmap'[n] :
          \/ l \in DOMAIN tmap[n] /\ tmap'[n][l] = tmap[n][l]
          \/ /\ EndOK(tmap'[n][l]) /\ At(tmap'[n][l]) = n
             /\ tmap'[n][l].no = 0 \/ \E x \in notice : x.client = tmap'[n][l]

Domains ==
    /\ DOMAIN tmap' = DOMAIN tmap /\ DOMAIN core' = DOMAIN core /\ DOMAIN call' = DOMAIN call
    /\ DOMAIN drop' = DOMAIN drop /\ DOMAIN known' = DOMAIN known /\ DOMAIN next' = DOMAIN next

LEMMA NetPooled ==
  ASSUME NetInv, Domains, Counted, Pooled, \A f \in air' : EndOK(f.end) /\ Stands(f.end, live')
  PROVE  NetInv'
  <1>1. Shapes'
    <2>1. \A k \in trying' \cup live' : ClientOK(k)
      BY DEF NetInv, Shapes, Pooled
    <2>2. \A x \in notice' : ClientOK(x.client)
      BY DEF NetInv, Shapes, Pooled
    <2>3. \A n \in Node : \A l \in DOMAIN tmap'[n] : EndOK(tmap'[n][l]) /\ At(tmap'[n][l]) = n
      BY DEF NetInv, Shapes, Pooled
    <2>4. /\ DOMAIN tmap' = Node /\ DOMAIN core' = Node /\ DOMAIN call' = Node /\ DOMAIN drop' = Node
          /\ DOMAIN known' = Node /\ DOMAIN next' = Node
          /\ DOMAIN used' = Event /\ \A ev \in Event : used'[ev] \in Nat
      BY DEF NetInv, Shapes, Domains, Counted
    <2> QED BY <2>1, <2>2, <2>3, <2>4 DEF Shapes
  <1>2. ASSUME NEW k, InPool(k)'
        PROVE  InPool(k)
    <2>1. k.no # 0
      BY <1>2 DEF InPool
    <2>2. CASE k \in trying' \/ k \in live'
      BY <2>1, <2>2 DEF Pooled, InPool
    <2>3. CASE \E x \in notice' : x.client = k
      BY <2>1, <2>3 DEF Pooled, InPool
    <2>4. CASE Linked(k)'
      <3> PICK n \in Node : \E l \in DOMAIN tmap'[n] : tmap'[n][l] = k
        BY <2>4 DEF Linked
      <3>1. PICK l \in DOMAIN tmap'[n] : tmap'[n][l] = k
        OBVIOUS
      <3>2. CASE l \in DOMAIN tmap[n] /\ tmap'[n][l] = tmap[n][l]
        BY <2>1, <3>1, <3>2 DEF InPool, Linked
      <3>3. CASE \E x \in notice : x.client = k
        BY <2>1, <3>3 DEF InPool
      <3> QED BY <2>1, <3>1, <3>2, <3>3 DEF Pooled
    <2> QED BY <1>2, <2>2, <2>3, <2>4 DEF InPool
  <1>3. OneClient'
    BY <1>2 DEF NetInv, OneClient, Counted
  <1> QED BY <1>1, <1>3 DEF NetInv

\* A second client counts as one.
LEMMA NetScan ==
  ASSUME NetInv, NEW c \in Conn, onScanResult(c)
  PROVE  NetInv'
  <1> PICK k : k = End(c, used["connect"] + used["again"] + 1)
    OBVIOUS
  <1>1. /\ trying' = trying \cup {k}
        /\ live' = live /\ notice' = notice /\ tmap' = tmap /\ air' = air /\ core' = core
        /\ call' = call /\ drop' = drop /\ known' = known /\ next' = next
        /\ Spend(IF Clients(c) = {} THEN "connect" ELSE "again")
        /\ LinksTo(c[1], c) = {}
    BY DEF onScanResult, MayConnect
  <1>2. "connect" \in Event /\ "again" \in Event
    BY DEF Event
  <1>3. Counted
    BY <1>1, <1>2, Spent DEF NetInv
  <1>4. ClientOK(k) /\ k.conn = c
    BY <1>2 DEF NetInv, Shapes, ClientOK, EndOK, End
  <1>5. Shapes'
    BY <1>1, <1>3, <1>4 DEF NetInv, Shapes, Counted
  <1>6. OneClient'
    <2> SUFFICES ASSUME used'["again"] = 0
                 PROVE  \A m, j : InPool(m)' /\ InPool(j)' /\ m.conn = j.conn => m = j
      BY DEF OneClient
    <2>1. Clients(c) = {}
      BY <1>1, <1>2, SpentOne DEF NetInv
    <2>2. ASSUME NEW m, InPool(m)
          PROVE  m.conn # c
      <3>1. CASE m \in trying \/ m \in live \/ \E x \in notice : x.client = m
        BY <2>1, <3>1 DEF Clients
      <3>2. CASE Linked(m)
        <4> PICK n \in Node : \E l \in DOMAIN tmap[n] : tmap[n][l] = m
          BY <3>2 DEF Linked
        <4>1. PICK l \in DOMAIN tmap[n] : tmap[n][l] = m
          OBVIOUS
        <4>2. m.no # 0 /\ At(m) = n
          BY <2>2, <4>1 DEF InPool, NetInv, Shapes
        <4>3. n = m.conn[1]
          BY <4>2 DEF At
        <4> QED BY <1>1, <4>1, <4>3 DEF LinksTo
      <3> QED BY <2>2, <3>1, <3>2 DEF InPool
    <2>3. \A m : InPool(m)' => InPool(m) \/ m = k
      BY <1>1 DEF InPool, Linked
    <2>4. used["again"] = 0
      BY <1>3 DEF Counted
    <2> QED BY <1>4, <2>2, <2>3, <2>4 DEF NetInv, OneClient
  <1> QED BY <1>5, <1>6 DEF NetInv

LEMMA NetEstablish ==
  ASSUME NetInv, NEW k \in trying, Establish(k)
  PROVE  NetInv'
  <1>1. /\ trying' = trying \ {k} /\ live' = live \cup {k}
        /\ notice' = notice \cup {[client |-> k, what |-> "discovered"]}
        /\ tmap' = tmap /\ air' = air /\ core' = core /\ call' = call /\ drop' = drop
        /\ known' = known /\ next' = next /\ used' = used
    BY DEF Establish
  <1>2. Domains /\ Counted
    BY <1>1, Spent DEF NetInv, Domains
  <1>3. Pooled
    BY <1>1 DEF Pooled
  <1>4. \A f \in air' : EndOK(f.end) /\ Stands(f.end, live')
    BY <1>1 DEF NetInv, Shapes, Stands, Est
  <1> QED BY <1>2, <1>3, <1>4, NetPooled

\* The steps that make no client, no frame and no link.
LEMMA NetLess ==
  ASSUME NetInv, Domains, used' = used \/ \E ev \in Event : Spend(ev),
         trying' \subseteq trying, live' = live, notice' \subseteq notice, air' \subseteq air,
         \A n \in Node : \A l \in DOMAIN tmap'[n] : l \in DOMAIN tmap[n] /\ tmap'[n][l] = tmap[n][l]
  PROVE  NetInv'
  <1>1. Counted
    BY Spent DEF NetInv
  <1>2. Pooled
    BY DEF Pooled
  <1>3. \A f \in air' : EndOK(f.end) /\ Stands(f.end, live')
    BY DEF NetInv, Shapes
  <1> QED BY <1>1, <1>2, <1>3, NetPooled

\* The steps that take connections down.
LEMMA NetTorn ==
  ASSUME NetInv, Domains, used' = used \/ \E ev \in Event : Spend(ev),
         trying' \subseteq trying, live' \subseteq live, air' = Carried(live'),
         NEW closed, notice' \subseteq ToldClients(live', closed),
         \A n \in Node : \A l \in DOMAIN tmap'[n] : l \in DOMAIN tmap[n] /\ tmap'[n][l] = tmap[n][l]
  PROVE  NetInv'
  <1>1. Counted
    BY Spent DEF NetInv
  <1>2. \A x \in notice' : x \in notice \/ x.client \in live
    BY DEF ToldClients
  <1>3. Pooled
    BY <1>2 DEF Pooled
  <1>4. \A f \in air' : EndOK(f.end) /\ Stands(f.end, live')
    BY DEF NetInv, Shapes, Carried
  <1> QED BY <1>1, <1>3, <1>4, NetPooled

\* What is sent goes to an end that stands.
LEMMA NetSent ==
  ASSUME Shapes, NEW n \in Node, NEW ls, NEW kind
  PROVE  \A f \in Sent(n, ls, kind) : EndOK(f.end) /\ Stands(f.end, live)
  <1> SUFFICES ASSUME NEW f \in Sent(n, ls, kind)
               PROVE  EndOK(f.end) /\ Stands(f.end, live)
    OBVIOUS
  <1>1. PICK l \in DOMAIN tmap[n] : Stands(tmap[n][l], live) /\ f.end \in Far(tmap[n][l], live)
    BY DEF Sent
  <1> PICK e : e = tmap[n][l]
    OBVIOUS
  <1>2. EndOK(e)
    BY <1>1 DEF Shapes
  <1>3. CASE e.no = 0
    <2>1. f.end \in live
      BY <1>1, <1>3 DEF Far
    <2> QED BY <2>1 DEF Shapes, ClientOK, Stands, Est
  <1>4. CASE e.no # 0
    <2>1. f.end = Server(e.conn) /\ e.conn \in Est(live)
      BY <1>1, <1>4 DEF Far, Stands, Est
    <2> QED BY <1>2, <2>1, EndFacts DEF Stands
  <1> QED BY <1>3, <1>4

-----------------------------------------------------------------------------
(***************************************************************************)
(* What the steps do to the phones.                                        *)
(***************************************************************************)
LinksInv == NetInv /\ CoreInv

\* The other phones have no part in the step.
Others(n) ==
    \A m \in Node : m # n =>
        /\ tmap'[m] = tmap[m] /\ core'[m] = core[m] /\ call'[m] = call[m]
        /\ known'[m] = known[m] /\ next'[m] = next[m] /\ drop'[m] = drop[m]

LEMMA CoreOne ==
  ASSUME CoreInv, NEW n \in Node, Others(n), Counted, PhoneOK(n)'
  PROVE  CoreInv'
  <1> SUFFICES ASSUME NEW m \in Node
               PROVE  PhoneOK(m)'
    BY DEF CoreInv
  <1>1. CASE m = n
    BY <1>1
  <1>2. CASE m # n
    <2>1. PhoneOK(m)
      BY DEF CoreInv
    <2> QED BY <1>2, <2>1 DEF Others, PhoneOK, Counted
  <1> QED BY <1>1, <1>2

LEMMA CoreQuiet ==
  ASSUME CoreInv, Counted, tmap' = tmap, core' = core, call' = call, known' = known,
         next' = next, drop' = drop
  PROVE  CoreInv'
  BY DEF CoreInv, PhoneOK, Counted

\* The links of an end are noted, to be dropped on its thread.
LEMMA CoreNoted ==
  ASSUME NetInv, CoreInv, Counted, NEW e, EndOK(e), e.no = 0 \/ InPool(e),
         tmap' = tmap, core' = core, call' = call, known' = known, next' = next,
         drop' = [drop EXCEPT ![At(e)] = @ \cup ToDrop(At(e), Thread(e), e.conn)]
  PROVE  CoreInv'
  <1> PICK n : n = At(e)
    OBVIOUS
  <1>1. n \in Node /\ DOMAIN drop = Node
    BY EndFacts DEF NetInv, Shapes
  <1>2. PhoneOK(n)
    BY <1>1 DEF CoreInv
  <1>3. drop'[n] = drop[n] \cup ToDrop(n, Thread(e), e.conn) /\ Others(n)
    BY <1>1 DEF Others
  <1>4. ASSUME NEW d \in ToDrop(n, Thread(e), e.conn)
        PROVE  /\ d.thread = Thread(e) /\ d.thread # Main
               /\ d.link \in LinksTo(n, e.conn) /\ d.link \in DOMAIN tmap[n]
    <2>1. Thread(e) # Main
      BY DEF Thread, Main
    <2> QED BY <2>1 DEF ToDrop, LinksTo
  <1>5. \A d \in drop'[n] : d.link \in Nat /\ d.link < next[n]
    BY <1>2, <1>3, <1>4 DEF PhoneOK, Row, IdsOK
  <1>6. used'["again"] = 0 => Own(tmap[n], drop'[n])
    <2> SUFFICES ASSUME used["again"] = 0, NEW d \in drop'[n], d.link \in DOMAIN tmap[n]
                 PROVE  d.thread \in {Main, Thread(tmap[n][d.link])}
      BY DEF Own, Counted
    <2>1. CASE d \in drop[n]
      BY <1>2, <2>1 DEF PhoneOK, Own
    <2>2. CASE d \in ToDrop(n, Thread(e), e.conn)
      <3>1. tmap[n][d.link] = e
        BY <1>4, <2>2, OwnLinks
      <3> QED BY <1>4, <2>2, <3>1
    <2> QED BY <1>3, <2>1, <2>2
  <1>7. used'["toggle"] = 0 => \A d \in drop'[n] : d.thread # Main
    BY <1>2, <1>3, <1>4 DEF PhoneOK, Counted
  <1>8. PhoneOK(n)'
    BY <1>2, <1>5, <1>6, <1>7 DEF PhoneOK, Counted
  <1> QED BY <1>1, <1>3, <1>8, CoreOne

LEMMA StepFail ==
  ASSUME LinksInv, NEW k \in trying, Fail(k)
  PROVE  LinksInv' /\ tmap' = tmap
  <1>1. /\ tmap' = tmap /\ core' = core /\ call' = call /\ known' = known /\ next' = next
        /\ drop' = [drop EXCEPT ![k.conn[1]] = @ \cup ToDrop(k.conn[1], Thread(k), k.conn)]
        /\ trying' \subseteq trying /\ live' = live /\ notice' = notice /\ air' = air
        /\ Spend("fail")
    BY DEF Fail
  <1>2. "fail" \in Event
    BY DEF Event
  <1>3. NetInv'
    <2>1. Domains
      BY <1>1 DEF Domains
    <2> QED BY <1>1, <1>2, <2>1, NetLess DEF LinksInv
  <1>4. EndOK(k) /\ k.no # 0 /\ InPool(k)
    BY DEF LinksInv, NetInv, Shapes, ClientOK, InPool
  <1>5. At(k) = k.conn[1]
    BY <1>4 DEF At
  <1>6. Counted
    BY <1>1, <1>2, Spent DEF LinksInv, NetInv
  <1>7. CoreInv'
    BY <1>1, <1>4, <1>5, <1>6, CoreNoted DEF LinksInv
  <1> QED BY <1>1, <1>3, <1>7 DEF LinksInv

LEMMA StepToggle ==
  ASSUME LinksInv, NEW n \in Node, Toggle(n)
  PROVE  LinksInv' /\ tmap' = tmap
  <1> PICK D : D = [thread : {Main}, link : DOMAIN tmap[n]]
    OBVIOUS
  <1>1. /\ tmap' = tmap /\ core' = core /\ call' = call /\ known' = known /\ next' = next
        /\ drop' = [drop EXCEPT ![n] = @ \cup D]
        /\ trying' \subseteq trying /\ live' \subseteq live /\ air' = Carried(live')
        /\ notice' \subseteq ToldClients(live', {}) /\ Spend("toggle")
    BY DEF Toggle, Main
  <1>2. "toggle" \in Event
    BY DEF Event
  <1>3. NetInv'
    <2>1. Domains
      BY <1>1 DEF Domains
    <2> QED BY <1>1, <1>2, <2>1, NetTorn DEF LinksInv
  <1>4. Counted /\ used'["toggle"] # 0
    BY <1>1, <1>2, Spent, SpentOne DEF LinksInv, NetInv
  <1>5. drop'[n] = drop[n] \cup D /\ Others(n)
    BY <1>1 DEF LinksInv, NetInv, Shapes, Others
  <1>6. \A d \in D : d.thread = Main /\ d.link \in DOMAIN tmap[n]
    OBVIOUS
  <1>7. PhoneOK(n)
    BY DEF LinksInv, CoreInv
  <1>8. \A d \in drop'[n] : d.link \in Nat /\ d.link < next[n]
    BY <1>5, <1>6, <1>7 DEF PhoneOK, Row, IdsOK
  <1>9. used["again"] = 0 => Own(tmap[n], drop'[n])
    BY <1>5, <1>6, <1>7 DEF PhoneOK, Own
  <1>10. PhoneOK(n)'
    BY <1>1, <1>4, <1>7, <1>8, <1>9 DEF PhoneOK, Counted
  <1>11. CoreInv'
    BY <1>4, <1>5, <1>10, CoreOne DEF LinksInv
  <1> QED BY <1>1, <1>3, <1>11 DEF LinksInv

\* An end that the platform tells something has left traces.
LEMMA TakenFacts ==
  ASSUME NetInv, NEW e, NEW what, Taken(e, what), e.no = 0 => e.conn \in Conn /\ e = Server(e.conn)
  PROVE  /\ EndOK(e) /\ (e.no = 0 \/ InPool(e)) /\ notice' \subseteq notice
         /\ e.no = 0 \/ \E x \in notice : x.client = e
  <1>1. CASE e.no = 0
    <2>1. EndOK(e)
      BY <1>1 DEF EndOK, Server
    <2> QED BY <1>1, <2>1 DEF Taken
  <1>2. CASE e.no # 0
    <2>1. PICK x \in notice : x.client = e
      BY <1>2 DEF Taken
    <2>2. EndOK(e) /\ InPool(e)
      BY <1>2, <2>1 DEF NetInv, Shapes, ClientOK, InPool
    <2> QED BY <1>2, <2>1, <2>2 DEF Taken
  <1> QED BY <1>1, <1>2

LEMMA StepDown ==
  ASSUME LinksInv, NEW e, e.no = 0 => e.conn \in Conn /\ e = Server(e.conn), CallbackDown(e)
  PROVE  LinksInv' /\ tmap' = tmap
  <1>1. /\ tmap' = tmap /\ core' = core /\ call' = call /\ known' = known /\ next' = next
        /\ drop' = [drop EXCEPT ![At(e)] = @ \cup ToDrop(At(e), Thread(e), e.conn)]
        /\ trying' = trying /\ live' = live /\ air' = air /\ used' = used
        /\ Taken(e, "down")
    BY DEF CallbackDown
  <1>2. EndOK(e) /\ (e.no = 0 \/ InPool(e)) /\ notice' \subseteq notice
    BY <1>1, TakenFacts DEF LinksInv
  <1>3. NetInv'
    <2>1. Domains
      BY <1>1 DEF Domains
    <2> QED BY <1>1, <1>2, <2>1, NetLess DEF LinksInv
  <1>4. Counted
    BY <1>1, Spent DEF LinksInv, NetInv
  <1>5. CoreInv'
    BY <1>1, <1>2, <1>4, CoreNoted DEF LinksInv
  <1> QED BY <1>1, <1>3, <1>5 DEF LinksInv

LEMMA StepUp ==
  ASSUME LinksInv, NEW e, e.no = 0 => e.conn \in Conn /\ e = Server(e.conn), CallbackUp(e)
  PROVE  LinksInv' /\ core' = core
  <1> PICK n : n = At(e)
    OBVIOUS
  <1>1. /\ tmap' = [tmap EXCEPT ![n] = With(@, next[n], e)]
        /\ next' = [next EXCEPT ![n] = @ + 1]
        /\ call' = [call EXCEPT ![n] = @ \cup {CallOf(Thread(e), "up", next[n], "none", n)}]
        /\ core' = core /\ known' = known /\ drop' = drop /\ used' = used
        /\ trying' = trying /\ live' = live /\ air' = air
        /\ \E what : Taken(e, what)
    BY DEF CallbackUp, Call, CallOf
  <1>2. /\ EndOK(e) /\ notice' \subseteq notice
        /\ e.no = 0 \/ \E x \in notice : x.client = e
    BY <1>1, TakenFacts DEF LinksInv
  <1>3. n \in Node
    BY <1>2, EndFacts
  <1> PICK T, K, Q, W, i : T = tmap[n] /\ K = core[n] /\ Q = call[n] /\ W = known[n] /\ i = next[n]
    OBVIOUS
  <1> PICK y : y = CallOf(Thread(e), "up", i, "none", n)
    OBVIOUS
  <1> PICK T2, Q2 : T2 = With(T, i, e) /\ Q2 = Q \cup {y}
    OBVIOUS
  <1>4. /\ tmap'[n] = T2 /\ next'[n] = i + 1 /\ call'[n] = Q2 /\ Others(n)
        /\ core'[n] = K /\ known'[n] = W /\ drop'[n] = drop[n] /\ Domains
    BY <1>1, <1>3 DEF LinksInv, NetInv, Shapes, Others, Domains
  <1>5. Counted
    BY <1>1, Spent DEF LinksInv, NetInv
  <1>6. T2[i] = e /\ \A l \in DOMAIN T2 : l = i \/ (l \in DOMAIN T /\ T2[l] = T[l])
    BY DEF With
  <1>7. NetInv'
    <2>1. Pooled
      <3>1. \A l \in DOMAIN tmap'[n] : \/ l \in DOMAIN tmap[n] /\ tmap'[n][l] = tmap[n][l]
                                       \/ tmap'[n][l] = e
        BY <1>4, <1>6
      <3> QED BY <1>1, <1>2, <1>4, <3>1 DEF Pooled, Others
    <2>2. \A f \in air' : EndOK(f.end) /\ Stands(f.end, live')
      BY <1>1 DEF LinksInv, NetInv, Shapes
    <2> QED BY <1>4, <1>5, <2>1, <2>2, NetPooled DEF LinksInv
  <1>8. PhoneOK(n)
    BY <1>3 DEF LinksInv, CoreInv
  <1>9. Row(n, T, K, Q, W, i) /\ \A d \in drop[n] : d.link \in Nat /\ d.link < i
    BY <1>8 DEF PhoneOK
  <1>10. /\ Row(n, T2, K, Q2, W, i + 1)
         /\ Single(T, K, Q) => Single(T2, K, Q2)
         /\ Calm(T, K, Q) => Calm(T2, K, Q2)
    BY <1>3, <1>9, RowUp
  <1>11. i \in Nat /\ \A d \in drop[n] : d.link # i /\ d.link < i + 1
    BY <1>9 DEF Row, IdsOK
  <1>12. Own(T, drop[n]) => Own(T2, drop[n])
    BY <1>6, <1>11 DEF Own
  <1>13. PhoneOK(n)'
    BY <1>1, <1>4, <1>8, <1>9, <1>10, <1>11, <1>12 DEF PhoneOK
  <1>14. CoreInv'
    BY <1>3, <1>4, <1>5, <1>13, CoreOne DEF LinksInv
  <1> QED BY <1>1, <1>7, <1>14 DEF LinksInv

LEMMA StepDrop ==
  ASSUME LinksInv, NEW n \in Node, DropNext(n)
  PROVE  LinksInv' /\ core' = core
  <1> PICK T, K, Q, W, i : T = tmap[n] /\ K = core[n] /\ Q = call[n] /\ W = known[n] /\ i = next[n]
    OBVIOUS
  <1>1. PICK d \in drop[n] :
           /\ ~Calling(n, d.thread)
           /\ drop' = [drop EXCEPT ![n] = @ \ {d}]
           /\ tmap' = [tmap EXCEPT ![n] = Without(T, {d.link})]
           /\ call' = [call EXCEPT ![n] = Q \cup {CallOf(d.thread, "down", d.link, "none", n)}]
    BY DEF DropNext, Call, CallOf
  <1>2. /\ core' = core /\ known' = known /\ used' = used /\ next' = next
        /\ trying' = trying /\ live' = live /\ notice' = notice /\ air' = air
    BY DEF DropNext
  <1> PICK l, t : l = d.link /\ t = d.thread
    OBVIOUS
  <1> PICK y : y = CallOf(t, "down", l, "none", n)
    OBVIOUS
  <1> PICK T2, Q2 : T2 = Without(T, {l}) /\ Q2 = Q \cup {y}
    OBVIOUS
  <1>3. /\ tmap'[n] = T2 /\ call'[n] = Q2 /\ core'[n] = K /\ known'[n] = W /\ next'[n] = i
        /\ drop'[n] = drop[n] \ {d} /\ Others(n) /\ Domains
    BY <1>1, <1>2 DEF LinksInv, NetInv, Shapes, Others, Domains
  <1>4. DOMAIN T2 = DOMAIN T \ {l} /\ \A k \in DOMAIN T2 : T2[k] = T[k]
    BY DEF Without
  <1>5. NetInv'
    <2>1. \A m \in Node : \A k \in DOMAIN tmap'[m] : k \in DOMAIN tmap[m] /\ tmap'[m][k] = tmap[m][k]
      BY <1>3, <1>4 DEF Others
    <2> QED BY <1>2, <1>3, <2>1, NetLess DEF LinksInv
  <1>6. PhoneOK(n) /\ Counted
    BY <1>2, Spent DEF LinksInv, NetInv, CoreInv
  <1>7. Row(n, T, K, Q, W, i) /\ l \in Nat /\ l < i
    BY <1>6 DEF PhoneOK
  <1>8. /\ Row(n, T2, K, Q2, W, i)
        /\ Single(T, K, Q) => Single(T2, K, Q2)
        /\ Calm(T, K, Q) /\ ~Told(Q, "up", l) => Calm(T2, K, Q2)
    BY <1>7, RowDrop
  <1>9. Own(T, drop[n]) => Own(T2, drop'[n])
    BY <1>3, <1>4 DEF Own
  <1>10. used["toggle"] = 0 /\ used["again"] = 0 => ~Told(Q, "up", l)
    <2> SUFFICES ASSUME used["toggle"] = 0, used["again"] = 0, NEW x \in Q, x.op = "up", x.link = l
                 PROVE  FALSE
      BY DEF Told
    <2>1. Calm(T, K, Q) /\ Own(T, drop[n]) /\ t # Main
      BY <1>6 DEF PhoneOK
    <2>2. l \in DOMAIN T
      BY <2>1 DEF Calm
    <2>3. t = Thread(T[l])
      BY <2>1, <2>2 DEF Own
    <2>4. x.thread = Thread(T[l])
      BY <1>7, <2>2 DEF Row, UpFirst
    <2> QED BY <1>1, <2>3, <2>4 DEF Calling
  <1>11. PhoneOK(n)'
    BY <1>2, <1>3, <1>6, <1>8, <1>9, <1>10 DEF PhoneOK
  <1>12. CoreInv'
    BY <1>3, <1>6, <1>11, CoreOne DEF LinksInv
  <1> QED BY <1>2, <1>5, <1>12 DEF LinksInv

LEMMA StepFrame ==
  ASSUME LinksInv, NEW f \in air, CallbackFrame(f)
  PROVE  LinksInv' /\ tmap' = tmap
  <1> PICK e, n : e = f.end /\ n = At(e)
    OBVIOUS
  <1>1. EndOK(e) /\ Stands(e, live) /\ n \in Node /\ Other(e.conn, n) \in Node
    BY EndFacts DEF LinksInv, NetInv, Shapes
  <1> PICK T, K, Q, W, i : T = tmap[n] /\ K = core[n] /\ Q = call[n] /\ W = known[n] /\ i = next[n]
    OBVIOUS
  <1>2. /\ tmap' = tmap /\ core' = core /\ known' = known /\ drop' = drop /\ used' = used
        /\ next' = next /\ trying' = trying /\ live' = live /\ notice' = notice
        /\ air' \subseteq air /\ \A y \in Q : y.thread # Thread(e)
        /\ \/ call' = call
           \/ \E l \in LinksTo(n, e.conn) : call' = [call EXCEPT ![n] =
                    Q \cup {CallOf(Thread(e), "frame", l, f.kind, Other(e.conn, n))}]
    BY DEF CallbackFrame, Call, CallOf, Idle, Calling
  <1>3. Domains /\ Counted
    BY <1>2, Spent DEF LinksInv, NetInv, Domains
  <1>4. NetInv'
    BY <1>2, <1>3, NetLess DEF LinksInv
  <1>5. CASE call' = call
    <2>1. CoreInv'
      BY <1>2, <1>3, <1>5, CoreQuiet DEF LinksInv
    <2> QED BY <1>2, <1>4, <2>1 DEF LinksInv
  <1>6. ASSUME NEW l \in LinksTo(n, e.conn),
               call' = [call EXCEPT ![n] = Q \cup {CallOf(Thread(e), "frame", l, f.kind, Other(e.conn, n))}]
        PROVE  CoreInv'
    <2>1. l \in DOMAIN T /\ T[l].conn = e.conn
      BY DEF LinksTo
    <2> PICK t, kind : t = Thread(e) /\ kind = f.kind
      OBVIOUS
    <2> PICK y : y = CallOf(t, "frame", l, kind, Other(T[l].conn, n))
      OBVIOUS
    <2> PICK Q2 : Q2 = Q \cup {y}
      OBVIOUS
    <2>2. PhoneOK(n)
      BY <1>1 DEF LinksInv, CoreInv
    <2>3. Row(n, T, K, Q, W, i)
      BY <2>2 DEF PhoneOK
    <2>4. /\ Row(n, T, K, Q2, W, i)
          /\ Single(T, K, Q) /\ (\A z \in Q : z.thread # Thread(T[l])) => Single(T, K, Q2)
          /\ Calm(T, K, Q) => Calm(T, K, Q2)
      <3>1. Other(T[l].conn, n) \in Node
        BY <1>1, <2>1
      <3> QED BY <1>1, <2>1, <2>3, <3>1, RowFrame
    <2>5. used["again"] = 0 => \A z \in Q : z.thread # Thread(T[l])
      <3> SUFFICES ASSUME used["again"] = 0
                   PROVE  \A z \in Q : z.thread # Thread(T[l])
        OBVIOUS
      <3>1. e.no = 0 \/ InPool(e)
        BY <1>1 DEF InPool, Stands
      <3>2. T[l] = e
        BY <1>1, <3>1, OwnLinks DEF LinksInv
      <3> QED BY <1>2, <3>2
    <2>6. /\ call'[n] = Q2 /\ tmap'[n] = T /\ core'[n] = K /\ known'[n] = W /\ next'[n] = i
          /\ drop'[n] = drop[n] /\ Others(n)
      BY <1>1, <1>2, <1>6, <2>1 DEF LinksInv, NetInv, Shapes, Others
    <2>7. PhoneOK(n)'
      BY <1>2, <2>2, <2>4, <2>5, <2>6 DEF PhoneOK
    <2> QED BY <1>1, <1>3, <2>6, <2>7, CoreOne DEF LinksInv
  <1> QED BY <1>2, <1>4, <1>5, <1>6 DEF LinksInv

LEMMA StepLink ==
  ASSUME LinksInv, NEW n \in Node, NEW x \in call[n], LinkUp(n, x) \/ LinkDown(n, x)
  PROVE  LinksInv' /\ tmap' = tmap
  <1> PICK T, K, Q, W, i : T = tmap[n] /\ K = core[n] /\ Q = call[n] /\ W = known[n] /\ i = next[n]
    OBVIOUS
  <1> PICK K2, Q2 : Q2 = Q \ {x} /\ K2 = core'[n]
    OBVIOUS
  <1>1. /\ tmap' = tmap /\ known' = known /\ drop' = drop /\ used' = used /\ next' = next
        /\ trying' = trying /\ live' = live /\ notice' = notice
        /\ call' = [call EXCEPT ![n] = Q2]
        /\ \/ x.op = "up" /\ core' = [core EXCEPT ![n] = With(K, x.link, Untagged)]
           \/ x.op = "down" /\ core' = [core EXCEPT ![n] = Without(K, {x.link})]
    BY DEF LinkUp, LinkDown, Enter
  <1>2. /\ call'[n] = Q2 /\ tmap'[n] = T /\ known'[n] = W /\ next'[n] = i
        /\ drop'[n] = drop[n] /\ Others(n) /\ Domains
        /\ \/ x.op = "up" /\ K2 = With(K, x.link, Untagged)
           \/ x.op = "down" /\ K2 = Without(K, {x.link})
    BY <1>1 DEF LinksInv, NetInv, Shapes, Others, Domains
  <1>3. \A f \in air' : EndOK(f.end) /\ Stands(f.end, live')
    <2>1. \A f \in air : EndOK(f.end) /\ Stands(f.end, live)
      BY DEF LinksInv, NetInv, Shapes
    <2>2. CASE LinkUp(n, x)
      <3> PICK L : L = DOMAIN With(core[n], x.link, Untagged)
        OBVIOUS
      <3>1. air' = air \cup Sent(n, L, "announce") \cup Sent(n, {x.link}, "sync")
        BY <2>2 DEF LinkUp
      <3>2. \A f \in Sent(n, L, "announce") : EndOK(f.end) /\ Stands(f.end, live)
        BY NetSent DEF LinksInv, NetInv
      <3>3. \A f \in Sent(n, {x.link}, "sync") : EndOK(f.end) /\ Stands(f.end, live)
        BY NetSent DEF LinksInv, NetInv
      <3> QED BY <1>1, <2>1, <3>1, <3>2, <3>3
    <2>3. CASE LinkDown(n, x)
      BY <1>1, <2>1, <2>3 DEF LinkDown
    <2> QED BY <2>2, <2>3
  <1>4. PhoneOK(n) /\ Counted
    BY <1>1, Spent DEF LinksInv, NetInv, CoreInv
  <1>5. NetInv'
    <2>1. Pooled
      BY <1>1 DEF Pooled
    <2> QED BY <1>2, <1>3, <1>4, <2>1, NetPooled DEF LinksInv
  <1>6. /\ Row(n, T, K2, Q2, W, i)
        /\ Single(T, K, Q) => Single(T, K2, Q2)
        /\ Calm(T, K, Q) => Calm(T, K2, Q2)
    <2>1. x \in Q /\ Row(n, T, K, Q, W, i)
      BY <1>4 DEF PhoneOK
    <2>2. CASE x.op = "up" /\ K2 = With(K, x.link, Untagged)
      <3>1. x \in Q /\ x.op = "up" /\ K2 = With(K, x.link, Untagged) /\ Q2 = Q \ {x}
        BY <2>1, <2>2
      <3> QED BY <2>1, <3>1, RowLinkUp, Zenon
    <2>3. CASE x.op = "down" /\ K2 = Without(K, {x.link})
      BY <2>1, <2>3, RowLinkDown
    <2> QED BY <1>2, <2>2, <2>3
  <1>7. PhoneOK(n)'
    BY <1>1, <1>2, <1>4, <1>6 DEF PhoneOK
  <1>8. CoreInv'
    BY <1>2, <1>4, <1>7, CoreOne DEF LinksInv
  <1> QED BY <1>1, <1>5, <1>8 DEF LinksInv

\* What ClosesOnlyRedundant says of a step.
Spares == \A n \in Node : \A l \in DOMAIN core[n] \ DOMAIN core'[n] :
    l \in DOMAIN tmap[n] \ DOMAIN tmap'[n] =>
        \E k \in DOMAIN core'[n] :
            /\ core'[n][k].fp = Other(tmap[n][l].conn, n)
            /\ \/ k \in DOMAIN tmap'[n] \/ used["again"] # 0
               \/ \E x \in call[n] : x.op = "down" /\ x.link = k

LEMMA StepDedup ==
  ASSUME LinksInv, NEW n \in Node, NEW x \in call[n], SyncFrame(n, x) \/ AnnounceFrame(n, x)
  PROVE  LinksInv' /\ Spares
  <1> PICK T, K, Q, W, i : T = tmap[n] /\ K = core[n] /\ Q = call[n] /\ W = known[n] /\ i = next[n]
    OBVIOUS
  <1>1. PhoneOK(n)
    BY DEF LinksInv, CoreInv
  <1>2. /\ trying' = trying /\ next' = next /\ drop' = drop /\ on' = on /\ used' = used
        /\ x.op = "frame" /\ call' = [call EXCEPT ![n] = Q \ {x}]
    BY DEF SyncFrame, AnnounceFrame, Enter
  <1>3. Row(n, T, K, Q, W, i) /\ x.from \in Node /\ W \subseteq Node
    BY <1>1 DEF PhoneOK, Row, IdsOK, Tagged
  <1>4. PICK K1, W2 : /\ Retag(K, K1, x) /\ W2 \subseteq Node /\ dedup_links(n, K1, W2)
                      /\ known'[n] = W2 /\ DOMAIN known' = DOMAIN known
                      /\ \A m \in Node : m # n => known'[m] = known[m]
    <2>1. CASE SyncFrame(n, x)
      <3> PICK K1 : K1 = IF x.link \in DOMAIN K /\ K[x.link].eph # x.from
                         THEN [K EXCEPT ![x.link] = [eph |-> x.from, fp |-> Nobody]] ELSE K
        OBVIOUS
      <3>1. Retag(K, K1, x)
        BY DEF Retag
      <3>2. dedup_links(n, K1, W) /\ known' = known
        BY <2>1 DEF SyncFrame
      <3> QED BY <1>3, <3>1, <3>2
    <2>2. CASE AnnounceFrame(n, x)
      <3> PICK W2 : W2 = W \cup {x.from}
        OBVIOUS
      <3>1. known' = [known EXCEPT ![n] = W2] /\ dedup_links(n, K, known'[n])
        BY <2>2 DEF AnnounceFrame
      <3>2. /\ known'[n] = W2 /\ DOMAIN known' = DOMAIN known
            /\ \A m \in Node : m # n => known'[m] = known[m]
        BY <3>1 DEF LinksInv, NetInv, Shapes
      <3>3. Retag(K, K, x)
        BY DEF Retag
      <3> QED BY <1>3, <3>1, <3>2, <3>3
    <2> QED BY <2>1, <2>2
  <1> PICK T2, K2, Q2 : Closed(T, Q, x, K1, W2, T2, K2, Q2)
    BY DEF Closed
  <1>5. /\ core' = [core EXCEPT ![n] = K2] /\ tmap' = [tmap EXCEPT ![n] = T2]
        /\ live' \subseteq live /\ air' = Carried(live')
        /\ \E closed : notice' \subseteq ToldClients(live', closed)
    BY <1>4 DEF dedup_links, Closed
  <1>6. /\ core'[n] = K2 /\ tmap'[n] = T2 /\ call'[n] = Q2 /\ known'[n] = W2 /\ next'[n] = i
        /\ drop'[n] = drop[n] /\ Others(n) /\ Domains
    BY <1>2, <1>4, <1>5 DEF LinksInv, NetInv, Shapes, Others, Domains, Closed
  <1>7. DOMAIN T2 \subseteq DOMAIN T /\ \A l \in DOMAIN T2 : T2[l] = T[l]
    BY DEF Closed, Without
  <1>8. NetInv'
    <2>1. \A m \in Node : \A l \in DOMAIN tmap'[m] : l \in DOMAIN tmap[m] /\ tmap'[m][l] = tmap[m][l]
      BY <1>6, <1>7 DEF Others
    <2> QED BY <1>2, <1>5, <1>6, <2>1, NetTorn DEF LinksInv
  <1>9. /\ Row(n, T2, K2, Q2, W2, i)
        /\ Single(T, K, Q) => Single(T2, K2, Q2)
        /\ Calm(T, K, Q) => Calm(T2, K2, Q2)
        /\ Kept(n, T, K, Q, T2, K2)
    <2>1. x \in Q /\ x.op = "frame" /\ Retag(K, K1, x) /\ W2 \subseteq Node
      BY <1>2, <1>4
    <2>2. Row(n, T2, K2, Q2, W2, i)
      BY <1>3, <2>1, RowDedup
    <2>3. Single(T, K, Q) => Single(T2, K2, Q2)
      BY <1>3, <2>1, RowDedup
    <2>4. Calm(T, K, Q) => Calm(T2, K2, Q2)
      BY <1>3, <2>1, RowDedup
    <2>5. Kept(n, T, K, Q, T2, K2)
      BY <1>3, <2>1, RowDedup
    <2> QED BY <2>2, <2>3, <2>4, <2>5
  <1>10. Own(T, drop[n]) => Own(T2, drop[n])
    BY <1>7 DEF Own
  <1>11. PhoneOK(n)'
    BY <1>1, <1>2, <1>6, <1>9, <1>10 DEF PhoneOK
  <1>12. CoreInv'
    <2>1. Counted
      BY <1>2, Spent DEF LinksInv, NetInv
    <2> QED BY <1>6, <1>11, <2>1, CoreOne DEF LinksInv
  <1>13. Spares
    <2> SUFFICES ASSUME NEW m \in Node, NEW l \in DOMAIN core[m] \ DOMAIN core'[m],
                        l \in DOMAIN tmap[m] \ DOMAIN tmap'[m]
                 PROVE  \E k \in DOMAIN core'[m] :
                            /\ core'[m][k].fp = Other(tmap[m][l].conn, m)
                            /\ \/ k \in DOMAIN tmap'[m] \/ used["again"] # 0
                               \/ \E y \in call[m] : y.op = "down" /\ y.link = k
      BY DEF Spares
    <2>1. m = n
      BY <1>6 DEF Others
    <2>2. l \in DOMAIN K \ DOMAIN K2 /\ l \in DOMAIN T
      BY <1>6, <2>1
    <2>3. PICK k \in DOMAIN K2 :
              /\ K2[k].fp = Other(T[l].conn, n)
              /\ Single(T, K, Q) => k \in DOMAIN T2 \/ Told(Q, "down", k)
      BY <1>9, <2>2 DEF Kept
    <2>4. used["again"] = 0 => Single(T, K, Q)
      BY <1>1 DEF PhoneOK
    <2> QED BY <1>6, <2>1, <2>3, <2>4 DEF Told
  <1> QED BY <1>8, <1>12, <1>13 DEF LinksInv

-----------------------------------------------------------------------------
(***************************************************************************)
(* The theorems.                                                           *)
(***************************************************************************)
LEMMA LinksStart ==
  ASSUME Init
  PROVE  LinksInv
  <1>1. DOMAIN << >> = {}
    OBVIOUS
  <1>2. \A n \in Node : /\ tmap[n] = << >> /\ core[n] = << >> /\ call[n] = {} /\ drop[n] = {}
                        /\ known[n] = {} /\ next[n] = 1
    BY DEF Init
  <1>3. Shapes
    BY <1>1, <1>2 DEF Init, Shapes, Event
  <1>4. OneClient
    BY <1>1, <1>2 DEF Init, OneClient, InPool, Linked
  <1>5. ASSUME NEW n \in Node
        PROVE  PhoneOK(n)
    <2>1. /\ Row(n, << >>, << >>, {}, {}, 1) /\ Single(<< >>, << >>, {})
          /\ Calm(<< >>, << >>, {}) /\ Own(<< >>, {})
      BY <1>1 DEF Row, IdsOK, Tagged, Coming, UpFirst, DownLast, TrueTags, Single, Calm, Own
    <2> QED BY <1>2, <2>1 DEF PhoneOK
  <1> QED BY <1>3, <1>4, <1>5 DEF LinksInv, NetInv, CoreInv

\* The steps that neither change the maps nor call the core.
LEMMA StepQuiet ==
  ASSUME LinksInv, \/ \E c \in Conn : onScanResult(c) \/ Loss(c)
                   \/ \E k \in trying : Establish(k)
                   \/ \E n \in Node : Announce(n) \/ \E p \in cool[n] : CoolDown(n, p)
  PROVE  LinksInv' /\ tmap' = tmap
  <1>1. /\ tmap' = tmap /\ core' = core /\ call' = call /\ known' = known /\ next' = next
        /\ drop' = drop /\ Domains
    BY DEF onScanResult, Establish, Loss, Announce, CoolDown, Domains
  <1>2. Counted
    <2>1. used' = used \/ \E ev \in Event : Spend(ev)
      BY DEF onScanResult, Establish, Loss, Announce, CoolDown, Event
    <2> QED BY <2>1, Spent DEF LinksInv, NetInv
  <1>3. CoreInv'
    BY <1>1, <1>2, CoreQuiet DEF LinksInv
  <1>4. NetInv'
    <2>1. CASE \E c \in Conn : onScanResult(c)
      BY <2>1, NetScan DEF LinksInv
    <2>2. CASE \E c \in Conn : Loss(c)
      <3> PICK none : none = {}
        OBVIOUS
      <3>1. /\ trying' = trying /\ live' \subseteq live /\ air' = Carried(live')
            /\ notice' \subseteq ToldClients(live', none) /\ Spend("loss")
        BY <2>2 DEF Loss
      <3>2. "loss" \in Event
        BY DEF Event
      <3> QED BY <1>1, <3>1, <3>2, NetTorn DEF LinksInv
    <2>3. CASE \E k \in trying : Establish(k)
      BY <2>3, NetEstablish DEF LinksInv
    <2>4. CASE \E n \in Node : Announce(n)
      <3> PICK n \in Node : Announce(n)
        BY <2>4
      <3> PICK L : L = DOMAIN core[n]
        OBVIOUS
      <3>1. /\ trying' = trying /\ live' = live /\ notice' = notice
            /\ air' = air \cup Sent(n, L, "announce")
        BY DEF Announce
      <3>2. \A f \in Sent(n, L, "announce") : EndOK(f.end) /\ Stands(f.end, live)
        BY NetSent DEF LinksInv, NetInv
      <3>3. \A f \in air : EndOK(f.end) /\ Stands(f.end, live)
        BY DEF LinksInv, NetInv, Shapes
      <3>4. \A f \in air' : EndOK(f.end) /\ Stands(f.end, live')
        BY <3>1, <3>2, <3>3
      <3>5. Pooled
        BY <1>1, <3>1 DEF Pooled
      <3> QED BY <1>1, <1>2, <3>4, <3>5, NetPooled DEF LinksInv
    <2>5. CASE \E n \in Node : \E p \in cool[n] : CoolDown(n, p)
      <3>1. /\ trying' = trying /\ live' = live /\ notice' = notice /\ air' = air
            /\ Spend("cooled") /\ "cooled" \in Event
        BY <2>5 DEF CoolDown, Event
      <3> QED BY <1>1, <3>1, NetLess DEF LinksInv
    <2> QED BY <2>1, <2>2, <2>3, <2>4, <2>5
  <1> QED BY <1>1, <1>3, <1>4 DEF LinksInv

LEMMA LinksStep ==
  ASSUME LinksInv, [Next]_vars
  PROVE  LinksInv' /\ (Spares \/ UNCHANGED vars)
  <1>1. CASE UNCHANGED vars
    <2>1. Domains /\ Counted
      BY <1>1, Spent DEF vars, Domains, LinksInv, NetInv
    <2>2. CoreInv'
      BY <1>1, <2>1, CoreQuiet DEF vars, LinksInv
    <2>3. NetInv'
      BY <1>1, <2>1, NetLess DEF vars, LinksInv
    <2> QED BY <1>1, <2>2, <2>3 DEF LinksInv
  <1>2. tmap' = tmap \/ core' = core => Spares
    BY DEF Spares
  <1>3. ASSUME NEW e, e.no = 0 => e.conn \in Conn /\ e = Server(e.conn),
               CallbackUp(e) \/ CallbackDown(e)
        PROVE  LinksInv' /\ Spares
    <2>1. CASE CallbackUp(e)
      BY <1>2, <1>3, <2>1, StepUp
    <2>2. CASE CallbackDown(e)
      BY <1>2, <1>3, <2>2, StepDown
    <2> QED BY <1>3, <2>1, <2>2
  <1>4. ASSUME NEW c \in Conn, CallbackUp(Server(c)) \/ CallbackDown(Server(c))
        PROVE  LinksInv' /\ Spares
    <2> PICK e : e = Server(c)
      OBVIOUS
    <2>1. e.conn = c
      BY DEF Server, End
    <2> QED BY <1>3, <1>4, <2>1
  <1>5. ASSUME NEW x \in notice, CallbackUp(x.client) \/ CallbackDown(x.client)
        PROVE  LinksInv' /\ Spares
    <2>1. x.client.no # 0
      BY DEF LinksInv, NetInv, Shapes, ClientOK
    <2> QED BY <1>3, <1>5, <2>1
  <1>6. ASSUME NEW k \in trying, Fail(k)
        PROVE  LinksInv' /\ Spares
    BY <1>2, <1>6, StepFail
  <1>7. ASSUME NEW n \in Node, Toggle(n)
        PROVE  LinksInv' /\ Spares
    BY <1>2, <1>7, StepToggle
  <1>8. ASSUME NEW n \in Node, DropNext(n)
        PROVE  LinksInv' /\ Spares
    BY <1>2, <1>8, StepDrop
  <1>9. ASSUME NEW f \in air, CallbackFrame(f)
        PROVE  LinksInv' /\ Spares
    BY <1>2, <1>9, StepFrame
  <1>10. ASSUME NEW n \in Node, NEW x \in call[n], CoreStep(n, x)
         PROVE  LinksInv' /\ Spares
    BY <1>2, <1>10, StepLink, StepDedup DEF CoreStep
  <1>11. ASSUME \/ \E c \in Conn : onScanResult(c) \/ Loss(c)
                \/ \E k \in trying : Establish(k)
                \/ \E n \in Node : Announce(n) \/ \E p \in cool[n] : CoolDown(n, p)
         PROVE  LinksInv' /\ Spares
    BY <1>2, <1>11, StepQuiet
  <1>12. CASE Next
    BY <1>4, <1>5, <1>6, <1>7, <1>8, <1>9, <1>10, <1>11, <1>12 DEF Next
  <1> QED BY <1>1, <1>12

\* The inductive invariant holds in every state.
LEMMA LinksInvHolds == Spec => []LinksInv
  <1>1. LinksInv /\ [Next]_vars => LinksInv'
    BY LinksStep
  <1> QED BY <1>1, LinksStart, PTL DEF Spec

\* "keep exactly one link per peer identity": whatever the order in which links
\* come up and go down, tags are learned and keys arrive, and however many clients
\* are made to one address, a phone never has two links tagged with the same peer
\* whose key it has (dedup_links in node.rs).
THEOREM OneLinkTheorem == Spec => []OneLinkPerPeer
  <1>1. LinksInv => OneLinkPerPeer
    <2> SUFFICES ASSUME LinksInv, NEW n \in Node, NEW l \in DOMAIN core[n], NEW k \in DOMAIN core[n],
                        core[n][l].eph \in known[n], core[n][l].eph = core[n][k].eph
                 PROVE  l = k
      BY DEF OneLinkPerPeer
    <2>1. Tagged(core[n], known[n])
      BY DEF LinksInv, CoreInv, PhoneOK, Row
    <2>2. /\ core[n][l].fp = core[n][l].eph /\ core[n][k].fp = core[n][k].eph
          /\ core[n][l].eph # Nobody
      BY <2>1, NodeAssumption DEF Tagged
    <2> QED BY <2>1, <2>2 DEF Tagged
  <1> QED BY <1>1, LinksInvHolds, PTL

\* Whenever no callback is under way, the core has every link of the transport; and
\* it has no other until Bluetooth is first switched or a second client is made to
\* one address (onScanResult, onConnectionStateChange, onServicesDiscovered,
\* dropLinksForDevice, dropAllLinks and closeLink in BleMeshTransport.kt,
\* on_link_up and on_link_down in node.rs).
THEOREM MapsAgreeTheorem == Spec => []MapsAgree
  <1>1. LinksInv => MapsAgree
    <2> SUFFICES ASSUME LinksInv, NEW n \in Node, Settled(n)
                 PROVE  /\ DOMAIN tmap[n] \subseteq DOMAIN core[n]
                        /\ used["toggle"] + used["again"] = 0 =>
                              DOMAIN core[n] \subseteq DOMAIN tmap[n]
      BY DEF MapsAgree
    <2>1. PhoneOK(n)
      BY DEF LinksInv, CoreInv
    <2>2. \A op, l : ~Told(call[n], op, l)
      BY DEF Settled, Told
    <2>3. DOMAIN tmap[n] \subseteq DOMAIN core[n]
      BY <2>1, <2>2 DEF PhoneOK, Row, Coming
    <2>4. ASSUME used["toggle"] + used["again"] = 0
          PROVE  DOMAIN core[n] \subseteq DOMAIN tmap[n]
      <3>1. used["toggle"] \in Nat /\ used["again"] \in Nat
        BY DEF LinksInv, NetInv, Shapes, Event
      <3>2. used["toggle"] = 0 /\ used["again"] = 0
        BY <2>4, <3>1
      <3> QED BY <2>1, <2>2, <3>2 DEF PhoneOK, Calm, Stale
    <2> QED BY <2>3, <2>4
  <1> QED BY <1>1, LinksInvHolds, PTL

\* The core closes a link only while it keeps another one to the same phone; until
\* a second client is made to one address, the other is in the transport's map or
\* its end has not been reported yet (dedup_links and close_link in node.rs).
THEOREM ClosesTheorem == Spec => ClosesOnlyRedundant
  <1>1. LinksInv /\ [Next]_vars => [Spares]_vars
    BY LinksStep
  <1> QED BY <1>1, LinksInvHolds, PTL DEF Spec, ClosesOnlyRedundant, Spares

=============================================================================

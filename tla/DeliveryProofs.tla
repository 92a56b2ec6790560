--------------------------- MODULE DeliveryProofs ---------------------------
(***************************************************************************)
(* Proofs about what DirectMessages delivers and whom it trusts: no nonce  *)
(* is used twice, a text is shown at most once, and the verification of a  *)
(* contact is confirmed only while the contact is verified.  The last part *)
(* is about a mesh that only reorders: a session that is ready at both     *)
(* ends stays so, and the only text of a conversation is not dropped.      *)
(***************************************************************************)
EXTENDS DirectMessagesProofs

(***************************************************************************)
(* The operators.  The ciphertexts that a step adds to out; and a step of  *)
(* n about p that goes on with the session it has: the keys stay, the      *)
(* nonces only advance, and every new ciphertext takes a nonce of its own  *)
(* between the old sending nonce and the new one.                          *)
(***************************************************************************)
New(s, t) == {m \in t.out : m \notin s.out /\ m.type = "dm"}

Under(n, p, e, m) == /\ m \in Ciphertext /\ m.src = n /\ m.dst = p
                     /\ m.i = KeyI(e) /\ m.r = KeyR(e)

Works(n, p, s, t) ==
    /\ t \in PeerState
    /\ HalfOf(t.sess) = HalfOf(s.sess) /\ t.sess.rs = s.sess.rs
    /\ s.sess.sendN <= t.sess.sendN
    /\ s.sess.recvN <= t.sess.recvN
    /\ \A m \in New(s, t) : /\ Under(n, p, s.sess, m)
                            /\ s.sess.sendN <= m.nonce /\ m.nonce < t.sess.sendN
    /\ \A m, k \in New(s, t) : m.nonce = k.nonce => m = k

\* What neither encrypting nor decrypting touches.
Beside(s, t) == /\ t.pend = s.pend /\ t.inb = s.inb /\ t.envs = s.envs
                /\ t.peer = s.peer /\ t.addr = s.addr /\ t.dh = s.dh

\* The handshake packets a step sends.  What is encrypted or decrypted adds none
\* to them and leaves the retry bookkeeping alone.
CallsOf(t) == {m \in t.out : IsHandshake(m)}
Apart(s, t) == /\ t.attempts = s.attempts /\ t.last = s.last
               /\ s.out \subseteq t.out /\ CallsOf(t) = CallsOf(s)

\* The bodies of the ciphertexts of a step.
Utters(t, b) == \E m \in t.out : m.type = "dm" /\ m.body = b

\* Such steps compose.
LEMMA WorksTrans ==
  ASSUME NEW n, NEW p, NEW s \in PeerState, NEW t, NEW u,
         Works(n, p, s, t), Works(n, p, t, u)
  PROVE  /\ Works(n, p, s, u)
         /\ \A m \in New(s, u) : m \in New(s, t) \/ m \in New(t, u)
  <1>1. t \in PeerState /\ u \in PeerState
    BY DEF Works
  <1>2. s.sess \in Session /\ t.sess \in Session /\ u.sess \in Session
    BY <1>1 DEF PeerState
  <1>3. /\ s.sess.sendN \in Nat /\ t.sess.sendN \in Nat /\ u.sess.sendN \in Nat
        /\ s.sess.recvN \in Nat /\ t.sess.recvN \in Nat /\ u.sess.recvN \in Nat
    BY <1>2 DEF Session
  <1>4. KeyI(t.sess) = KeyI(s.sess) /\ KeyR(t.sess) = KeyR(s.sess)
    BY DEF Works, HalfOf, KeyI, KeyR
  <1>5. \A m \in New(s, u) : m \in New(s, t) \/ m \in New(t, u)
    BY DEF New
  <1>6. /\ \A m \in New(s, t) : /\ Under(n, p, s.sess, m) /\ m.nonce \in Nat
                                /\ s.sess.sendN <= m.nonce /\ m.nonce < t.sess.sendN
        /\ \A m \in New(t, u) : /\ Under(n, p, s.sess, m) /\ m.nonce \in Nat
                                /\ t.sess.sendN <= m.nonce /\ m.nonce < u.sess.sendN
    BY <1>4 DEF Works, Under, Ciphertext
  <1>7. /\ s.sess.sendN <= t.sess.sendN /\ t.sess.sendN <= u.sess.sendN
        /\ s.sess.recvN <= t.sess.recvN /\ t.sess.recvN <= u.sess.recvN
        /\ \A m, k \in New(s, t) : m.nonce = k.nonce => m = k
        /\ \A m, k \in New(t, u) : m.nonce = k.nonce => m = k
        /\ HalfOf(u.sess) = HalfOf(s.sess) /\ u.sess.rs = s.sess.rs
    BY DEF Works
  <1>8. \A m \in New(s, u) : /\ Under(n, p, s.sess, m)
                             /\ s.sess.sendN <= m.nonce /\ m.nonce < u.sess.sendN
    BY <1>3, <1>5, <1>6, <1>7
  <1>9. \A m, k \in New(s, u) : m.nonce = k.nonce => m = k
    BY <1>3, <1>5, <1>6, <1>7
  <1> QED BY <1>1, <1>3, <1>5, <1>7, <1>8, <1>9 DEF Works

\* Encrypting works on; each new ciphertext carries one of the bodies, under
\* the nonce of its position.
LEMMA EncryptWorks ==
  ASSUME NEW n \in Node, NEW p \in Node, NEW s \in PeerState, NEW bs \in Seq(Body)
  PROVE  LET t == encrypt_and_send(n, p, s, bs)
         IN  /\ Works(n, p, s, t)
             /\ Beside(s, t) /\ t.thread = s.thread /\ t.notice = s.notice
             /\ t.sess.recvN = s.sess.recvN
             /\ \A m \in New(s, t) : \E k \in DOMAIN bs :
                   m = Dm(n, p, s.sess, s.sess.sendN + k - 1, bs[k])
             /\ Apart(s, t) /\ t.resync = s.resync
             /\ s.addr => \A k \in DOMAIN bs : Utters(t, bs[k])
  <1> DEFINE e == [s.sess EXCEPT !.sendN = @ + Len(bs)]
             b == [s EXCEPT !.sess.sendN = @ + Len(bs)]
             pk == {Dm(n, p, s.sess, s.sess.sendN + k - 1, bs[k]) : k \in DOMAIN bs}
             o == IF s.addr THEN s.out \cup pk ELSE s.out
             t == encrypt_and_send(n, p, s, bs)
  <1>1. s.sess \in Session /\ s.sess.sendN \in Nat /\ Len(bs) \in Nat
    BY DEF PeerState, Session
  <1>2. DOMAIN bs = 1 .. Len(bs) /\ \A k \in DOMAIN bs : bs[k] \in Body
    OBVIOUS
  <1>3. \A k \in DOMAIN bs : s.sess.sendN + k - 1 \in Nat
    BY <1>1, <1>2
  <1>4. \A k \in DOMAIN bs : LET m == Dm(n, p, s.sess, s.sess.sendN + k - 1, bs[k])
                             IN  /\ Under(n, p, s.sess, m) /\ m.type = "dm"
                                 /\ m.nonce = s.sess.sendN + k - 1
    <2> SUFFICES ASSUME NEW k \in DOMAIN bs
                 PROVE  LET m == Dm(n, p, s.sess, s.sess.sendN + k - 1, bs[k])
                        IN  /\ Under(n, p, s.sess, m) /\ m.type = "dm"
                            /\ m.nonce = s.sess.sendN + k - 1
      OBVIOUS
    <2>1. Dm(n, p, s.sess, s.sess.sendN + k - 1, bs[k]) \in Ciphertext
      BY <1>1, <1>2, <1>3, DmType
    <2> QED BY <2>1 DEF Under, Dm
  <1>5. /\ e \in Session /\ HalfOf(e) = HalfOf(s.sess) /\ e.rs = s.sess.rs
        /\ e.sendN = s.sess.sendN + Len(bs) /\ e.recvN = s.sess.recvN
    BY <1>1 DEF Session, HalfOf
  <1>6. b = [s EXCEPT !.sess = e]
    BY DEF PeerState
  <1>7. t = [s EXCEPT !.sess = e, !.out = o]
    <2>1. t = send_directed(b, pk)
      BY DEF encrypt_and_send
    <2>2. b.addr = s.addr /\ b.out = s.out
      BY <1>6 DEF PeerState
    <2>3. t = [b EXCEPT !.out = o]
      <3> HIDE DEF t, b, pk
      <3> QED BY <2>1, <2>2 DEF send_directed
    <2> HIDE DEF e, o, b, t
    <2> QED BY <1>6, <2>3 DEF PeerState
  <1>8. pk \subseteq Packet
    BY <1>4 DEF Under, Packet
  <1>9. o \in SUBSET Packet
    <2> HIDE DEF pk
    <2> QED BY <1>8 DEF PeerState
  <1>10. /\ t \in PeerState /\ t.sess = e /\ t.out = o /\ Beside(s, t)
         /\ t.thread = s.thread /\ t.notice = s.notice
         /\ t.attempts = s.attempts /\ t.last = s.last /\ t.resync = s.resync
    <2> HIDE DEF t, e, o
    <2> QED BY <1>5, <1>7, <1>9 DEF PeerState, Beside
  <1> HIDE DEF t
  <1>18. s.out \subseteq t.out /\ CallsOf(t) = CallsOf(s)
    <2>1. \A m \in pk : ~IsHandshake(m)
      BY <1>4 DEF IsHandshake
    <2> HIDE DEF pk
    <2> QED BY <1>10, <2>1 DEF CallsOf
  <1>19. s.addr => \A k \in DOMAIN bs : Utters(t, bs[k])
    <2> SUFFICES ASSUME s.addr, NEW k \in DOMAIN bs PROVE Utters(t, bs[k])
      OBVIOUS
    <2> DEFINE m == Dm(n, p, s.sess, s.sess.sendN + k - 1, bs[k])
    <2>1. m \in pk /\ m.type = "dm" /\ m.body = bs[k]
      BY DEF Dm
    <2>2. m \in t.out
      <3> HIDE DEF pk, m
      <3> QED BY <1>10, <2>1
    <2> QED BY <2>1, <2>2 DEF Utters
  <1>11. \A m \in New(s, t) : m \in pk
    <2> HIDE DEF pk
    <2> QED BY <1>10 DEF New
  <1>12. \A m \in New(s, t) : \E k \in DOMAIN bs :
            m = Dm(n, p, s.sess, s.sess.sendN + k - 1, bs[k])
    BY <1>11
  <1> HIDE DEF e, o, pk
  <1>13. \A m \in New(s, t) : \E k \in DOMAIN bs :
            /\ m = Dm(n, p, s.sess, s.sess.sendN + k - 1, bs[k])
            /\ Under(n, p, s.sess, m) /\ m.nonce = s.sess.sendN + k - 1
    BY <1>4, <1>12
  <1>14. \A m \in New(s, t) : /\ Under(n, p, s.sess, m)
                              /\ s.sess.sendN <= m.nonce /\ m.nonce < t.sess.sendN
    BY <1>1, <1>2, <1>5, <1>10, <1>13
  <1>15. ASSUME NEW m \in New(s, t), NEW k \in New(s, t), m.nonce = k.nonce
         PROVE  m = k
    <2>1. PICK i \in DOMAIN bs : /\ m = Dm(n, p, s.sess, s.sess.sendN + i - 1, bs[i])
                                 /\ m.nonce = s.sess.sendN + i - 1
      BY <1>13
    <2>2. PICK j \in DOMAIN bs : /\ k = Dm(n, p, s.sess, s.sess.sendN + j - 1, bs[j])
                                 /\ k.nonce = s.sess.sendN + j - 1
      BY <1>13
    <2>3. i = j
      BY <1>1, <1>2, <1>15, <2>1, <2>2
    <2> QED BY <2>1, <2>2, <2>3
  <1>16. e.recvN \in Nat /\ e.sendN \in Nat
    BY <1>5 DEF Session
  <1>17. Works(n, p, s, t)
    BY <1>1, <1>5, <1>10, <1>14, <1>15, <1>16 DEF Works
  <1> QED BY <1>5, <1>10, <1>12, <1>17, <1>18, <1>19 DEF t, Apart

\* Storing a row touches only that row.
LEMMA PutDmKeeps ==
  ASSUME NEW s \in PeerState, NEW row \in Row
  PROVE  /\ Beside(s, put_dm(s, row)) /\ put_dm(s, row).notice = s.notice
         /\ Apart(s, put_dm(s, row)) /\ put_dm(s, row).resync = s.resync
         /\ put_dm(s, row).thread[row] = s.thread[row] + 1
         /\ \A r \in Row : r # row => put_dm(s, row).thread[r] = s.thread[r]
  <1> DEFINE th == [s.thread EXCEPT ![row] = @ + 1]
  <1>1. s.thread \in [Row -> Nat]
    BY DEF PeerState
  <1>2. put_dm(s, row) = [s EXCEPT !.thread = th]
    BY DEF put_dm, PeerState
  <1>3. th[row] = s.thread[row] + 1 /\ \A r \in Row : r # row => th[r] = s.thread[r]
    BY <1>1
  <1> HIDE DEF th
  <1> QED BY <1>2, <1>3 DEF PeerState, Beside, Apart, CallsOf

\* The rows that came from the peer, and the rows of the user's own texts.
Theirs(b) == <<FALSE, b>>
Ours(b) == <<TRUE, b>>
SameOurs(s, t) == \A x \in Text : t.thread[Ours(x)] = s.thread[Ours(x)]

\* The notice that is owed goes out at most once, and only if it is owed.
LEMMA NoticeWorks ==
  ASSUME NEW n \in Node, NEW p \in Node, NEW s \in PeerState
  PROVE  LET t == try_send_verify_notice(n, p, s)
         IN  /\ Works(n, p, s, t) /\ Beside(s, t)
             /\ \A b \in Body \cup {KeyChanged} : t.thread[Theirs(b)] = s.thread[Theirs(b)]
             /\ t.notice => s.notice
             /\ t.sess.recvN = s.sess.recvN
             /\ \A m \in New(s, t) : m.body = "notice" /\ s.notice
             /\ Apart(s, t) /\ t.resync = s.resync /\ SameOurs(s, t)
  <1> DEFINE a == [s EXCEPT !.notice = FALSE]
             row == <<TRUE, "notice">>
             b == put_dm(a, row)
             u == encrypt_and_send(n, p, b, <<"notice">>)
             t == try_send_verify_notice(n, p, s)
  <1>1. a \in PeerState /\ a.sess = s.sess /\ a.out = s.out /\ a.thread = s.thread
        /\ Beside(s, a) /\ a.notice = FALSE
        /\ Apart(s, a) /\ a.resync = s.resync
    BY DEF PeerState, Beside, Apart, CallsOf
  <1> HIDE DEF a
  <1>2. row \in Row /\ "notice" \in Body
    BY DEF Row, Body, Control
  <1>3. /\ b \in PeerState /\ b.sess = s.sess /\ b.out = s.out /\ Beside(s, b)
        /\ b.notice = FALSE
        /\ \A x \in Body \cup {KeyChanged} : b.thread[Theirs(x)] = s.thread[Theirs(x)]
        /\ Apart(s, b) /\ b.resync = s.resync /\ SameOurs(s, b)
    <2>1. /\ b \in PeerState /\ b.sess = a.sess /\ b.out = a.out
          /\ Beside(a, b) /\ b.notice = a.notice
          /\ Apart(a, b) /\ b.resync = a.resync
          /\ \A r \in Row : r # row => b.thread[r] = a.thread[r]
      BY <1>1, <1>2, PutDmType, PutDmKeeps
    <2>2. \A x \in Body \cup {KeyChanged} : Theirs(x) \in Row /\ Theirs(x) # row
      BY DEF Theirs, Row
    <2>3. \A x \in Text : Ours(x) \in Row /\ Ours(x) # row
      BY TextAssumption DEF Ours, Row, Body, Control
    <2> HIDE DEF b, row
    <2> QED BY <1>1, <2>1, <2>2, <2>3 DEF Beside, Apart, SameOurs
  <1> HIDE DEF b, row
  <1>4. <<"notice">> \in Seq(Body)
    BY <1>2
  <1>5. /\ Works(n, p, b, u) /\ Beside(b, u) /\ u.thread = b.thread
        /\ u.notice = b.notice /\ u.sess.recvN = b.sess.recvN
        /\ Apart(b, u) /\ u.resync = b.resync
        /\ \A m \in New(b, u) : \E k \in DOMAIN <<"notice">> :
              m = Dm(n, p, b.sess, b.sess.sendN + k - 1, <<"notice">>[k])
    BY <1>3, <1>4, EncryptWorks
  <1>6. \A m \in New(b, u) : m.body = "notice"
    BY <1>5 DEF Dm
  <1>7. New(s, u) = New(b, u)
    BY <1>3 DEF New
  <1> HIDE DEF u
  <1>8. /\ Works(n, p, s, u) /\ Beside(s, u) /\ u.notice = FALSE
        /\ Apart(s, u) /\ u.resync = s.resync /\ SameOurs(s, u)
    BY <1>3, <1>5, <1>7 DEF Works, Beside, Apart, SameOurs
  <1>9. t = IF Ready(s) /\ s.notice THEN u ELSE s
    BY DEF try_send_verify_notice, send_control_dm, u, b, a, row
  <1>10. CASE Ready(s) /\ s.notice
    <2>1. t = u
      BY <1>9, <1>10
    <2> HIDE DEF t
    <2> QED BY <1>3, <1>5, <1>6, <1>7, <1>8, <1>10, <2>1 DEF t
  <1>11. CASE ~(Ready(s) /\ s.notice)
    <2>1. t = s
      BY <1>9, <1>11
    <2>2. New(s, s) = {}
      BY DEF New
    <2>3. s.sess.sendN \in Nat /\ s.sess.recvN \in Nat
      BY DEF PeerState, Session
    <2>4. Works(n, p, s, s) /\ Beside(s, s) /\ Apart(s, s) /\ SameOurs(s, s)
      BY <2>2, <2>3 DEF Works, Beside, Apart, SameOurs
    <2> HIDE DEF t
    <2> QED BY <2>1, <2>2, <2>4 DEF t
  <1> QED BY <1>10, <1>11

\* The nonce expected next is past every accepted one, and never goes back.
LEMMA NextNoncePast ==
  ASSUME NEW e \in Session, NEW cs \in Seq(Ciphertext)
  PROVE  LET ok == Accepted(e, cs)
         IN  /\ e.recvN <= NextNonce(e, cs, ok)
             /\ \A k \in ok : cs[k].nonce < NextNonce(e, cs, ok)
  <1> DEFINE ok == Accepted(e, cs)
             top == CHOOSE k \in ok : \A j \in ok : j <= k
  <1>1. DOMAIN cs = 1 .. Len(cs) /\ Len(cs) \in Nat /\ e.recvN \in Nat
    BY DEF Session
  <1>2. ok \subseteq DOMAIN cs
    BY DEF Accepted
  <1>3. \A k \in ok : cs[k] \in Ciphertext /\ cs[k].nonce \in Nat
    <2>1. \A k \in DOMAIN cs : cs[k] \in Ciphertext
      OBVIOUS
    <2> QED BY <1>2, <2>1 DEF Ciphertext
  <1>4. CASE ok = {}
    BY <1>1, <1>4 DEF NextNonce
  <1>5. CASE ok # {}
    <2>1. top \in ok /\ \A j \in ok : j <= top
      <3>1. \E k \in ok : \A j \in ok : j <= k
        <4> HIDE DEF ok
        <4> QED BY <1>1, <1>2, <1>5, MaxExists
      <3> QED BY <3>1
    <2>2. NextNonce(e, cs, ok) = cs[top].nonce + 1
      BY <1>5 DEF NextNonce
    <2> HIDE DEF top
    <2>3. e.recvN <= cs[top].nonce
      BY <2>1 DEF Accepted
    <2>4. ASSUME NEW k \in ok PROVE cs[k].nonce <= cs[top].nonce
      <3>1. CASE k = top
        BY <1>3, <2>1, <3>1
      <3>2. CASE k # top
        <4>1. k \in 1 .. top - 1
          <5> HIDE DEF ok
          <5> QED BY <1>1, <1>2, <2>1, <3>2
        <4>2. Opens(e, cs[k]) /\ \A j \in 1 .. top - 1 :
                                    Opens(e, cs[j]) => cs[j].nonce < cs[top].nonce
          BY <2>1 DEF Accepted
        <4>3. cs[k].nonce < cs[top].nonce
          BY <4>1, <4>2
        <4> HIDE DEF ok
        <4> QED BY <1>3, <2>1, <4>3
      <3> QED BY <3>1, <3>2
    <2> HIDE DEF ok
    <2>5. cs[top].nonce \in Nat
      BY <1>3, <2>1
    <2>6. \A k \in ok : cs[k].nonce < cs[top].nonce + 1
      BY <1>3, <2>4, <2>5
    <2> QED BY <1>1, <2>2, <2>3, <2>5, <2>6 DEF ok
  <1> QED BY <1>4, <1>5

\* What is taken from the ciphertexts cs into the thread: a row that grows is
\* in a ciphertext of the session whose nonce was expected and is so no more;
\* and it grows by one if there is but one such ciphertext.
Took(s, t, cs) ==
    \A b \in Body : t.thread[Theirs(b)] > s.thread[Theirs(b)] =>
        /\ \E c \in cs : /\ c.body = b /\ Opens(s.sess, c)
                         /\ s.sess.recvN <= c.nonce /\ c.nonce < t.sess.recvN
        /\ (\A c, d \in cs : c.body = b /\ d.body = b => c = d)
              => t.thread[Theirs(b)] = s.thread[Theirs(b)] + 1

Elements(q) == {q[k] : k \in DOMAIN q}

\* No row of the peer is lost; the receiving nonce moves only with a ciphertext
\* that is shown; and a session that has read nothing reads the first one.
Reads(s, t, cs) ==
    /\ \A b \in Body : s.thread[Theirs(b)] <= t.thread[Theirs(b)]
    /\ \/ t.sess.recvN = s.sess.recvN
       \/ \E c \in Elements(cs) : t.thread[Theirs(c.body)] > 0
    /\ s.sess.recvN = 0 /\ cs # <<>> /\ Opens(s.sess, cs[1])
          => t.thread[Theirs(cs[1].body)] > 0

\* Decrypting works on; it stores what it accepts and acks every notice.
LEMMA DecryptWorks ==
  ASSUME NEW n \in Node, NEW p \in Node, NEW s \in PeerState,
         NEW cs \in Seq(Ciphertext)
  PROVE  LET t == decrypt_and_emit(n, p, s, cs)
         IN  /\ Works(n, p, s, t) /\ Beside(s, t) /\ t.notice = s.notice
             /\ Took(s, t, Elements(cs))
             /\ t.thread[Marker] = s.thread[Marker]
             /\ \A m \in New(s, t) :
                   /\ m.body = "ack"
                   /\ \E c \in Elements(cs) : c.body = "notice" /\ Opens(s.sess, c)
             /\ Apart(s, t) /\ t.resync \in {s.resync, 0}
             /\ SameOurs(s, t) /\ Reads(s, t, cs)
  <1> DEFINE ok == Accepted(s.sess, cs)
             Carrying(b) == {k \in ok : cs[k].body = b}
             acks == Cardinality(Carrying("notice"))
             stored == [r \in Row |->
                     s.thread[r] + (IF r = <<TRUE, "ack">> THEN acks ELSE 0)
                                 + (IF r[1] THEN 0 ELSE Cardinality(Carrying(r[2])))]
             nn == NextNonce(s.sess, cs, ok)
             e == [s.sess EXCEPT !.recvN = nn]
             a == [s EXCEPT !.resync = IF ok = {} THEN @ ELSE 0,
                            !.sess.recvN = nn,
                            !.thread = stored]
             bs == [k \in 1 .. acks |-> "ack"]
             t == decrypt_and_emit(n, p, s, cs)
  <1>1. s.sess \in Session /\ s.thread \in [Row -> Nat] /\ s.sess.recvN \in Nat
        /\ s.sess.sendN \in Nat
    BY DEF PeerState, Session
  <1>2. ok \in SUBSET DOMAIN cs
    BY DEF Accepted
  <1>3. \A b : Cardinality(Carrying(b)) \in Nat
    BY <1>2, CountType
  <1>4. acks \in Nat
    BY <1>3
  <1>5. nn \in Nat /\ s.sess.recvN <= nn /\ \A k \in ok : cs[k].nonce < nn
    BY <1>1, <1>2, NextNonceType, NextNoncePast
  <1>6. \A k \in ok : /\ cs[k] \in Elements(cs) /\ Opens(s.sess, cs[k])
                      /\ s.sess.recvN <= cs[k].nonce
    BY DEF Accepted, Elements
  <1>7. \A j, k \in ok : cs[j] = cs[k] => j = k
    <2> SUFFICES ASSUME NEW j \in ok, NEW k \in ok, cs[j] = cs[k] PROVE j = k
      OBVIOUS
    <2>1. DOMAIN cs = 1 .. Len(cs) /\ Len(cs) \in Nat
      OBVIOUS
    <2>2. j \in Nat /\ k \in Nat /\ j >= 1 /\ k >= 1
      <3> HIDE DEF ok
      <3> QED BY <1>2, <2>1
    <2>3. cs[k].nonce \in Nat
      <3>1. cs[k] \in Ciphertext
        <4> HIDE DEF ok
        <4> QED BY <1>2
      <3> QED BY <3>1 DEF Ciphertext
    <2>4. j < k => cs[j].nonce < cs[k].nonce
      BY <2>2 DEF Accepted
    <2>5. k < j => cs[k].nonce < cs[j].nonce
      BY <2>2 DEF Accepted
    <2> HIDE DEF ok
    <2> QED BY <2>2, <2>3, <2>4, <2>5
  <1>8. \A b \in Body \cup {KeyChanged} :
           stored[Theirs(b)] = s.thread[Theirs(b)] + Cardinality(Carrying(b))
    <2> SUFFICES ASSUME NEW b \in Body \cup {KeyChanged}
                 PROVE  stored[Theirs(b)] = s.thread[Theirs(b)] + Cardinality(Carrying(b))
      OBVIOUS
    <2>1. /\ Theirs(b) \in Row /\ Theirs(b) # <<TRUE, "ack">>
          /\ Theirs(b)[1] = FALSE /\ Theirs(b)[2] = b
      BY DEF Theirs, Row
    <2>2. Cardinality(Carrying(b)) \in Nat /\ s.thread[Theirs(b)] \in Nat
      BY <1>1, <1>3, <2>1
    <2> DEFINE c == Cardinality(Carrying(b))
    <2>3. stored[Theirs(b)] = s.thread[Theirs(b)] + 0 + c
      <3> HIDE DEF acks
      <3> QED BY <2>1
    <2> HIDE DEF c, stored
    <2> QED BY <2>2, <2>3 DEF c
  <1>9. stored \in [Row -> Nat]
    <2> DEFINE A(r) == IF r = <<TRUE, "ack">> THEN acks ELSE 0
               B(r) == IF r[1] THEN 0 ELSE Cardinality(Carrying(r[2]))
    <2>1. \A r \in Row : s.thread[r] \in Nat /\ A(r) \in Nat /\ B(r) \in Nat
      <3> HIDE DEF acks, Carrying
      <3> QED BY <1>1, <1>3, <1>4
    <2>2. stored = [r \in Row |-> s.thread[r] + A(r) + B(r)]
      OBVIOUS
    <2> HIDE DEF A, B, stored
    <2> QED BY <2>1, <2>2
  <1>10. /\ e \in Session /\ HalfOf(e) = HalfOf(s.sess) /\ e.rs = s.sess.rs
         /\ e.sendN = s.sess.sendN /\ e.recvN = nn
    <2> HIDE DEF nn
    <2> QED BY <1>1, <1>5 DEF Session, HalfOf
  <1>11. a = [s EXCEPT !.resync = IF ok = {} THEN @ ELSE 0, !.sess = e, !.thread = stored]
    <2> HIDE DEF ok, stored, nn
    <2> QED BY DEF PeerState
  <1>12. /\ a \in PeerState /\ a.sess = e /\ a.out = s.out /\ Beside(s, a)
         /\ a.notice = s.notice /\ a.thread = stored
         /\ Apart(s, a) /\ a.resync \in {s.resync, 0}
    <2> HIDE DEF ok, stored, e, a
    <2> QED BY <1>9, <1>10, <1>11 DEF PeerState, Beside, Apart, CallsOf
  <1>13. bs \in Seq(Body) /\ DOMAIN bs = 1 .. acks /\ \A k \in DOMAIN bs : bs[k] = "ack"
    <2> HIDE DEF acks
    <2> QED BY <1>4, IsASeq DEF Body, Control
  <1>14. t = encrypt_and_send(n, p, a, bs)
    BY DEF decrypt_and_emit
  <1> HIDE DEF a, bs, t, stored, nn, e
  <1>15. /\ Works(n, p, a, t) /\ Beside(a, t) /\ t.thread = a.thread
         /\ t.notice = a.notice /\ t.sess.recvN = a.sess.recvN
         /\ Apart(a, t) /\ t.resync = a.resync
         /\ \A m \in New(a, t) : \E k \in DOMAIN bs :
               m = Dm(n, p, a.sess, a.sess.sendN + k - 1, bs[k])
    BY <1>12, <1>13, <1>14, EncryptWorks
  <1>16. Works(n, p, s, a)
    <2>1. New(s, a) = {}
      BY <1>12 DEF New
    <2> QED BY <1>1, <1>5, <1>10, <1>12, <2>1 DEF Works
  <1>17. Works(n, p, s, t) /\ Beside(s, t) /\ t.notice = s.notice
    BY <1>12, <1>15, <1>16, WorksTrans DEF Beside
  <1>18. ASSUME NEW m \in New(s, t)
         PROVE  /\ m.body = "ack"
                /\ \E c \in Elements(cs) : c.body = "notice" /\ Opens(s.sess, c)
    <2>1. m \in New(a, t)
      BY <1>12 DEF New
    <2>2. PICK k \in DOMAIN bs : m = Dm(n, p, a.sess, a.sess.sendN + k - 1, bs[k])
      BY <1>15, <2>1
    <2>3. m.body = "ack"
      BY <1>13, <2>2 DEF Dm
    <2>4. acks # 0
      <3> HIDE DEF acks
      <3> QED BY <1>4, <1>13, <2>2
    <2>5. Carrying("notice") # {}
      <3>1. Cardinality({}) = 0
        BY FS_EmptySet
      <3> QED BY <2>4, <3>1
    <2>6. PICK j \in ok : cs[j].body = "notice"
      BY <2>5
    <2> HIDE DEF ok
    <2> QED BY <1>6, <2>3, <2>6
  <1>19. t.thread = stored /\ t.sess.recvN = nn
    BY <1>10, <1>12, <1>15
  <1>20. ASSUME NEW b \in Body, t.thread[Theirs(b)] > s.thread[Theirs(b)]
         PROVE  /\ \E c \in Elements(cs) :
                     /\ c.body = b /\ Opens(s.sess, c)
                     /\ s.sess.recvN <= c.nonce /\ c.nonce < t.sess.recvN
                /\ (\A c, d \in Elements(cs) : c.body = b /\ d.body = b => c = d)
                      => t.thread[Theirs(b)] = s.thread[Theirs(b)] + 1
    <2>1. Theirs(b) \in Row
      BY DEF Theirs, Row
    <2>2. s.thread[Theirs(b)] \in Nat
      BY <1>1, <2>1
    <2>3. t.thread[Theirs(b)] = s.thread[Theirs(b)] + Cardinality(Carrying(b))
      BY <1>8, <1>19
    <2>4. Cardinality(Carrying(b)) \in Nat
      BY <1>3
    <2>5. Cardinality(Carrying(b)) # 0
      <3> DEFINE c == Cardinality(Carrying(b))
      <3> HIDE DEF c
      <3> QED BY <1>20, <2>2, <2>3, <2>4 DEF c
    <2>6. PICK k \in ok : cs[k].body = b
      <3>1. Cardinality({}) = 0
        BY FS_EmptySet
      <3> QED BY <2>5, <3>1
    <2>7. \E c \in Elements(cs) :
             /\ c.body = b /\ Opens(s.sess, c)
             /\ s.sess.recvN <= c.nonce /\ c.nonce < t.sess.recvN
      <3> HIDE DEF ok
      <3> QED BY <1>5, <1>6, <1>19, <2>6
    <2>8. ASSUME \A c, d \in Elements(cs) : c.body = b /\ d.body = b => c = d
          PROVE  t.thread[Theirs(b)] = s.thread[Theirs(b)] + 1
      <3>1. \A j \in ok : cs[j].body = b => j = k
        <4> HIDE DEF ok
        <4> QED BY <1>6, <1>7, <2>6, <2>8
      <3>2. Carrying(b) = {k}
        <4> HIDE DEF ok
        <4> QED BY <2>6, <3>1
      <3>3. Cardinality({k}) = 1
        BY FS_Singleton
      <3> HIDE DEF Carrying
      <3> QED BY <2>3, <3>2, <3>3
    <2> QED BY <2>7, <2>8
  <1>21. t.thread[Marker] = s.thread[Marker]
    <2>1. KeyChanged \notin Body
      BY TextAssumption DEF Body, Control, KeyChanged
    <2>2. \A k \in ok : cs[k].body \in Body
      <3>1. \A k \in DOMAIN cs : cs[k] \in Ciphertext
        OBVIOUS
      <3> HIDE DEF ok
      <3> QED BY <1>2, <3>1 DEF Ciphertext
    <2>3. Carrying(KeyChanged) = {}
      <3> HIDE DEF ok
      <3> QED BY <2>1, <2>2
    <2>4. Cardinality({}) = 0
      BY FS_EmptySet
    <2>5. stored[Theirs(KeyChanged)] = s.thread[Theirs(KeyChanged)] + 0
      BY <1>8, <2>3, <2>4
    <2>6. Marker \in Row /\ Theirs(KeyChanged) = Marker
      BY DEF Theirs, Marker, Row
    <2>7. s.thread[Marker] \in Nat
      BY <1>1, <2>6
    <2> QED BY <1>19, <2>5, <2>6, <2>7
  <1>22. Took(s, t, Elements(cs))
    BY <1>20 DEF Took
  <1>23. Apart(s, t) /\ t.resync \in {s.resync, 0}
    BY <1>12, <1>15 DEF Apart
  <1>24. SameOurs(s, t)
    <2> SUFFICES ASSUME NEW x \in Text PROVE stored[Ours(x)] = s.thread[Ours(x)]
      BY <1>19 DEF SameOurs
    <2>1. /\ Ours(x) \in Row /\ Ours(x) # <<TRUE, "ack">> /\ Ours(x)[1] = TRUE
      BY TextAssumption DEF Ours, Row, Body, Control
    <2>2. s.thread[Ours(x)] \in Nat
      BY <1>1, <2>1
    <2>3. stored[Ours(x)] = s.thread[Ours(x)] + 0 + 0
      <3> HIDE DEF acks, Carrying
      <3> QED BY <2>1 DEF stored
    <2> HIDE DEF stored
    <2> QED BY <2>2, <2>3
  <1>25. \A b \in Body : /\ s.thread[Theirs(b)] \in Nat
                         /\ t.thread[Theirs(b)] = s.thread[Theirs(b)] + Cardinality(Carrying(b))
    BY <1>1, <1>8, <1>19 DEF Theirs, Row
  <1>26. \A k \in ok : cs[k].body \in Body /\ t.thread[Theirs(cs[k].body)] > 0
    <2> SUFFICES ASSUME NEW k \in ok
                 PROVE  cs[k].body \in Body /\ t.thread[Theirs(cs[k].body)] > 0
      OBVIOUS
    <2> DEFINE b == cs[k].body
               C == Carrying(b)
    <2>1. cs[k] \in Ciphertext
      <3> HIDE DEF ok
      <3> QED BY <1>2
    <2>2. b \in Body
      BY <2>1 DEF Ciphertext
    <2>3. C \in SUBSET (1 .. Len(cs)) /\ Len(cs) \in Nat /\ k \in C
      <3> HIDE DEF ok
      <3> QED BY <1>2
    <2> HIDE DEF C
    <2>4. IsFiniteSet(C)
      <3>1. IsFiniteSet(1 .. Len(cs))
        BY <2>3, FS_Interval
      <3> QED BY <2>3, <3>1, FS_Subset
    <2>5. Cardinality(C) # 0 /\ Cardinality(C) \in Nat
      BY <2>3, <2>4, FS_EmptySet, FS_CardinalityType
    <2>6. t.thread[Theirs(b)] = s.thread[Theirs(b)] + Cardinality(C) /\ s.thread[Theirs(b)] \in Nat
      BY <1>25, <2>2 DEF C
    <2>7. t.thread[Theirs(b)] > 0
      <3> DEFINE x == s.thread[Theirs(b)]
                 y == t.thread[Theirs(b)]
                 z == Cardinality(C)
      <3>1. x \in Nat /\ z \in Nat /\ z # 0 /\ y = x + z
        BY <2>5, <2>6
      <3> HIDE DEF x, y, z
      <3>2. y > 0
        BY <3>1
      <3> QED BY <3>2 DEF y
    <2> QED BY <2>2, <2>7
  <1>27. \A b \in Body : s.thread[Theirs(b)] <= t.thread[Theirs(b)]
    <2> SUFFICES ASSUME NEW b \in Body PROVE s.thread[Theirs(b)] <= t.thread[Theirs(b)]
      OBVIOUS
    <2> DEFINE x == s.thread[Theirs(b)]
               y == t.thread[Theirs(b)]
               z == Cardinality(Carrying(b))
    <2>1. x \in Nat /\ z \in Nat /\ y = x + z
      BY <1>3, <1>25
    <2> HIDE DEF x, y, z
    <2>2. x <= y
      BY <2>1
    <2> QED BY <2>2 DEF x, y
  <1>28. \/ t.sess.recvN = s.sess.recvN
         \/ \E c \in Elements(cs) : t.thread[Theirs(c.body)] > 0
    <2>1. ok = {} => nn = s.sess.recvN
      BY DEF nn, NextNonce
    <2> HIDE DEF ok
    <2> QED BY <1>6, <1>19, <1>26, <2>1
  <1>29. ASSUME s.sess.recvN = 0, cs # <<>>, Opens(s.sess, cs[1])
         PROVE  t.thread[Theirs(cs[1].body)] > 0
    <2>1. 1 \in DOMAIN cs /\ cs[1] \in Ciphertext
      BY <1>29
    <2>2. cs[1].nonce >= s.sess.recvN
      BY <1>29, <2>1 DEF Ciphertext
    <2>3. 1 \in ok
      BY <1>29, <2>1, <2>2 DEF Accepted
    <2> HIDE DEF ok
    <2> QED BY <1>26, <2>3
  <1>30. Reads(s, t, cs)
    BY <1>27, <1>28, <1>29 DEF Reads
  <1> QED BY <1>17, <1>18, <1>21, <1>22, <1>23, <1>24, <1>30 DEF t

Distinct(q) == \A j, k \in DOMAIN q : q[j] = q[k] => j = k

\* The texts among the new ciphertexts N are those of the queue q, each at
\* most once if q holds it at most once.
Carries1(q, N) ==
    /\ \A m \in N : m.body \in Text => m.body \in Elements(q)
    /\ Distinct(q) => \A m, k \in N : m.body \in Text /\ m.body = k.body => m = k

\* The texts are no control messages.
LEMMA TextIsNoControl == "notice" \notin Text /\ "ack" \notin Text
  BY TextAssumption DEF Control

\* Encrypting a queue of texts carries them.
LEMMA EncryptCarries ==
  ASSUME NEW n \in Node, NEW p \in Node, NEW s \in PeerState, NEW q \in Seq(Text)
  PROVE  LET t == encrypt_and_send(n, p, s, q)
         IN  /\ Carries1(q, New(s, t))
             /\ \A m \in New(s, t) : m.body \in Text
  <1> DEFINE t == encrypt_and_send(n, p, s, q)
  <1>1. q \in Seq(Body)
    BY SeqMonotonic DEF Body
  <1>2. \A m \in New(s, t) : \E k \in DOMAIN q :
           m = Dm(n, p, s.sess, s.sess.sendN + k - 1, q[k])
    BY <1>1, EncryptWorks
  <1> HIDE DEF t
  <1>3. \A m \in New(s, t) : \E k \in DOMAIN q :
           m = Dm(n, p, s.sess, s.sess.sendN + k - 1, q[k]) /\ m.body = q[k]
    BY <1>2 DEF Dm
  <1>4. \A k \in DOMAIN q : q[k] \in Text
    OBVIOUS
  <1>5. \A m \in New(s, t) : m.body \in Elements(q) /\ m.body \in Text
    BY <1>3, <1>4 DEF Elements
  <1>6. ASSUME Distinct(q), NEW m \in New(s, t), NEW k \in New(s, t), m.body = k.body
        PROVE  m = k
    <2>1. PICK i \in DOMAIN q :
             m = Dm(n, p, s.sess, s.sess.sendN + i - 1, q[i]) /\ m.body = q[i]
      BY <1>3
    <2>2. PICK j \in DOMAIN q :
             k = Dm(n, p, s.sess, s.sess.sendN + j - 1, q[j]) /\ k.body = q[j]
      BY <1>3
    <2>3. i = j
      BY <1>6, <2>1, <2>2 DEF Distinct
    <2> QED BY <2>1, <2>2, <2>3
  <1> QED BY <1>5, <1>6 DEF Carries1, t

\* A ready session that is bound to the announced key works off what waited:
\* the notice that is owed, the queued texts and the early ciphertexts.
WorksOff(n, p, s, t) ==
    /\ s.sess.rs = s.dh
    /\ Works(n, p, s, t)
    /\ t.pend = <<>> /\ t.inb = <<>> /\ t.envs = s.envs
    /\ t.peer = s.peer /\ t.addr = s.addr /\ t.dh = s.dh
    /\ t.notice => s.notice
    /\ Took(s, t, Elements(s.inb))
    /\ t.thread[Marker] = s.thread[Marker]
    /\ Carries1(s.pend, New(s, t))
    /\ \A m \in New(s, t) :
          /\ m.body = "notice" => s.notice
          /\ m.body = "ack" =>
                \E c \in Elements(s.inb) : c.body = "notice" /\ Opens(s.sess, c)

\* The retry bookkeeping and the resync tally are cleared, the texts that waited
\* are sent to a peer in reach, and the ciphertexts that came early are read.
Completes(s, t) ==
    /\ s.out \subseteq t.out /\ CallsOf(t) = CallsOf(s)
    /\ t.attempts = Absent /\ t.last = FALSE /\ t.resync = 0
    /\ SameOurs(s, t) /\ Reads(s, t, s.inb)
    /\ s.addr => \A k \in DOMAIN s.pend : Utters(t, s.pend[k])

\* One that is not is dropped with the queued texts.
DropsSession(s, t) ==
    /\ s.sess.rs # s.dh
    /\ t \in PeerState /\ t.sess = NoSession /\ t.out = s.out
    /\ t.pend = <<>> /\ t.inb = s.inb /\ t.envs = s.envs
    /\ t.peer = s.peer /\ t.addr = s.addr /\ t.dh = s.dh
    /\ t.notice = s.notice /\ t.thread = s.thread

\* finish_session does one or the other.
LEMMA FinishWorks ==
  ASSUME NEW n \in Node, NEW p \in Node, NEW s \in PeerState
  PROVE  LET t == finish_session(n, p, s)
         IN  (WorksOff(n, p, s, t) /\ Completes(s, t)) \/ DropsSession(s, t)
  <1> DEFINE reset == [s EXCEPT !.last = FALSE, !.attempts = Absent]
             clear == [reset EXCEPT !.resync = 0]
             told == try_send_verify_notice(n, p, clear)
             queue == [told EXCEPT !.pend = <<>>]
             flushed == encrypt_and_send(n, p, queue, s.pend)
             ready == [flushed EXCEPT !.inb = <<>>]
             done == decrypt_and_emit(n, p, ready, s.inb)
             dropped == [reset EXCEPT !.sess = NoSession, !.pend = <<>>]
  <1>0. <<>> \in Seq(Text) /\ <<>> \in Seq(Ciphertext) /\ NoSession \in Session
    BY SessionTypes
  <1>1. /\ reset \in PeerState /\ reset.sess = s.sess /\ reset.out = s.out
        /\ Beside(s, reset) /\ reset.notice = s.notice /\ reset.thread = s.thread
        /\ reset.attempts = Absent /\ reset.last = FALSE
    BY DEF PeerState, Beside
  <1> HIDE DEF reset
  <1>2. s.sess.rs # s.dh => DropsSession(s, dropped)
    BY <1>0, <1>1 DEF PeerState, DropsSession, Beside
  <1>3. /\ clear \in PeerState /\ clear.sess = s.sess /\ clear.out = s.out
        /\ Beside(s, clear) /\ clear.notice = s.notice /\ clear.thread = s.thread
        /\ clear.attempts = Absent /\ clear.last = FALSE /\ clear.resync = 0
    BY <1>1 DEF PeerState, Beside
  <1> HIDE DEF clear
  <1>4. /\ Works(n, p, clear, told) /\ Beside(clear, told)
        /\ \A b \in Body \cup {KeyChanged} :
              told.thread[Theirs(b)] = clear.thread[Theirs(b)]
        /\ told.notice => clear.notice
        /\ told.sess.recvN = clear.sess.recvN
        /\ Apart(clear, told) /\ told.resync = clear.resync /\ SameOurs(clear, told)
        /\ \A m \in New(clear, told) : m.body = "notice" /\ clear.notice
    BY <1>3, NoticeWorks
  <1> HIDE DEF told
  <1>5. New(clear, told) = New(s, told)
    BY <1>3 DEF New
  <1>6. Works(n, p, s, told) /\ told \in PeerState
    BY <1>3, <1>4, <1>5 DEF Works
  <1>7. /\ queue \in PeerState /\ queue.sess = told.sess /\ queue.out = told.out
        /\ queue.pend = <<>> /\ queue.inb = told.inb /\ queue.envs = told.envs
        /\ queue.peer = told.peer /\ queue.addr = told.addr /\ queue.dh = told.dh
        /\ queue.notice = told.notice /\ queue.thread = told.thread
        /\ queue.attempts = told.attempts /\ queue.last = told.last
        /\ queue.resync = told.resync
    BY <1>0, <1>6 DEF PeerState
  <1> HIDE DEF queue
  <1>8. s.pend \in Seq(Text) /\ s.pend \in Seq(Body) /\ s.inb \in Seq(Ciphertext)
    <2>1. s.pend \in Seq(Text) /\ s.inb \in Seq(Ciphertext) /\ Text \subseteq Body
      BY DEF PeerState, Body
    <2> QED BY <2>1, SeqMonotonic
  <1>9. /\ Works(n, p, queue, flushed) /\ Beside(queue, flushed)
        /\ flushed.thread = queue.thread /\ flushed.notice = queue.notice
        /\ flushed.sess.recvN = queue.sess.recvN
        /\ Apart(queue, flushed) /\ flushed.resync = queue.resync
        /\ queue.addr => \A k \in DOMAIN s.pend : Utters(flushed, s.pend[k])
        /\ Carries1(s.pend, New(queue, flushed))
        /\ \A m \in New(queue, flushed) : m.body \in Text
    BY <1>7, <1>8, EncryptWorks, EncryptCarries
  <1> HIDE DEF flushed
  <1>10. New(queue, flushed) = New(told, flushed)
    BY <1>7 DEF New
  <1>11. Works(n, p, told, flushed) /\ flushed \in PeerState
    BY <1>7, <1>9, <1>10 DEF Works
  <1>12. /\ Works(n, p, s, flushed)
         /\ \A m \in New(s, flushed) : m \in New(s, told) \/ m \in New(told, flushed)
    BY <1>6, <1>11, WorksTrans
  <1>13. /\ ready \in PeerState /\ ready.sess = flushed.sess /\ ready.out = flushed.out
         /\ ready.pend = flushed.pend /\ ready.inb = <<>> /\ ready.envs = flushed.envs
         /\ ready.peer = flushed.peer /\ ready.addr = flushed.addr
         /\ ready.dh = flushed.dh
         /\ ready.notice = flushed.notice /\ ready.thread = flushed.thread
         /\ ready.attempts = flushed.attempts /\ ready.last = flushed.last
         /\ ready.resync = flushed.resync
    BY <1>0, <1>11 DEF PeerState
  <1> HIDE DEF ready
  <1>14. /\ Works(n, p, ready, done) /\ Beside(ready, done) /\ done.notice = ready.notice
         /\ Took(ready, done, Elements(s.inb))
         /\ done.thread[Marker] = ready.thread[Marker]
         /\ Apart(ready, done) /\ done.resync \in {ready.resync, 0}
         /\ SameOurs(ready, done) /\ Reads(ready, done, s.inb)
         /\ \A m \in New(ready, done) :
               /\ m.body = "ack"
               /\ \E c \in Elements(s.inb) : c.body = "notice" /\ Opens(ready.sess, c)
    BY <1>8, <1>13, DecryptWorks
  <1> HIDE DEF done
  <1>15. New(ready, done) = New(flushed, done)
    BY <1>13 DEF New
  <1>16. Works(n, p, flushed, done)
    BY <1>13, <1>14, <1>15 DEF Works
  <1>17. /\ Works(n, p, s, done)
         /\ \A m \in New(s, done) : m \in New(s, flushed) \/ m \in New(flushed, done)
    BY <1>12, <1>16, WorksTrans
  <1>18. \A c : Opens(ready.sess, c) <=> Opens(s.sess, c)
    <2>1. HalfOf(ready.sess) = HalfOf(s.sess)
      BY <1>12, <1>13 DEF Works
    <2> QED BY <2>1 DEF HalfOf, Opens, KeyI, KeyR
  <1>19. /\ done.pend = <<>> /\ done.inb = <<>> /\ done.envs = s.envs
         /\ done.peer = s.peer /\ done.addr = s.addr /\ done.dh = s.dh
         /\ done.notice => s.notice
    BY <1>3, <1>4, <1>7, <1>9, <1>13, <1>14 DEF Beside
  <1>20. \A b \in Body \cup {KeyChanged} : ready.thread[Theirs(b)] = s.thread[Theirs(b)]
    BY <1>3, <1>4, <1>7, <1>9, <1>13
  <1>21. ready.sess.recvN = s.sess.recvN
    BY <1>3, <1>4, <1>7, <1>9, <1>13
  <1>22. Took(s, done, Elements(s.inb))
    BY <1>14, <1>18, <1>20, <1>21 DEF Took
  <1>23. done.thread[Marker] = s.thread[Marker]
    BY <1>14, <1>20 DEF Marker, Theirs
  <1>24. \A m \in New(s, done) :
            \/ m.body = "notice" /\ s.notice
            \/ m \in New(queue, flushed) /\ m.body \in Text
            \/ m.body = "ack"
               /\ \E c \in Elements(s.inb) : c.body = "notice" /\ Opens(s.sess, c)
    BY <1>3, <1>4, <1>5, <1>9, <1>10, <1>12, <1>14, <1>15, <1>17, <1>18
  <1>25. Carries1(s.pend, New(s, done))
    <2>1. \A m \in New(s, done) : m.body \in Text => m \in New(queue, flushed)
      BY <1>24, TextIsNoControl
    <2>2. ASSUME Distinct(s.pend), NEW m \in New(s, done), NEW k \in New(s, done),
                 m.body \in Text, m.body = k.body
          PROVE  m = k
      BY <1>9, <2>1, <2>2 DEF Carries1
    <2> QED BY <1>9, <2>1, <2>2 DEF Carries1
  <1>26. \A m \in New(s, done) :
          /\ m.body = "notice" => s.notice
          /\ m.body = "ack" =>
                \E c \in Elements(s.inb) : c.body = "notice" /\ Opens(s.sess, c)
    BY <1>24, TextIsNoControl
  <1>28. /\ s.out \subseteq done.out /\ CallsOf(done) = CallsOf(s)
         /\ done.attempts = Absent /\ done.last = FALSE /\ done.resync = 0
    BY <1>3, <1>4, <1>7, <1>9, <1>13, <1>14 DEF Apart, CallsOf
  <1>29. SameOurs(s, done)
    BY <1>3, <1>4, <1>7, <1>9, <1>13, <1>14 DEF SameOurs
  <1>30. Reads(s, done, s.inb)
    <2>1. \A b \in Body : ready.thread[Theirs(b)] = s.thread[Theirs(b)]
      BY <1>20
    <2> QED BY <1>14, <1>18, <1>21, <2>1 DEF Reads
  <1>31. s.addr => \A k \in DOMAIN s.pend : Utters(done, s.pend[k])
    <2>1. s.addr => queue.addr
      BY <1>3, <1>4, <1>7 DEF Beside
    <2>2. flushed.out \subseteq done.out
      BY <1>13, <1>14 DEF Apart
    <2> QED BY <1>9, <2>1, <2>2 DEF Utters
  <1>32. Completes(s, done)
    BY <1>28, <1>29, <1>30, <1>31 DEF Completes
  <1>27. finish_session(n, p, s) = IF s.sess.rs = s.dh THEN done ELSE dropped
    BY DEF finish_session, done, ready, flushed, queue, told, clear, reset
  <1> HIDE DEF dropped
  <1> QED BY <1>2, <1>17, <1>19, <1>22, <1>23, <1>25, <1>26, <1>27, <1>32 DEF WorksOff

(***************************************************************************)
(* Queues of texts.                                                        *)
(***************************************************************************)
LEMMA ConcatDistinct ==
  ASSUME NEW q \in Seq(Text), NEW r \in Seq(Text), Distinct(q), Distinct(r),
         Elements(q) \cap Elements(r) = {}
  PROVE  /\ Distinct(q \o r)
         /\ Elements(q \o r) \subseteq Elements(q) \cup Elements(r)
  <1> DEFINE z == q \o r
  <1>1. /\ Len(q) \in Nat /\ Len(r) \in Nat /\ DOMAIN q = 1 .. Len(q)
        /\ DOMAIN r = 1 .. Len(r) /\ DOMAIN z = 1 .. Len(q) + Len(r)
        /\ \A k \in 1 .. Len(q) + Len(r) :
              z[k] = IF k <= Len(q) THEN q[k] ELSE r[k - Len(q)]
    BY ConcatProperties
  <1> HIDE DEF z
  <1>2. \A k \in DOMAIN z : \/ k \in DOMAIN q /\ z[k] = q[k]
                            \/ k - Len(q) \in DOMAIN r /\ z[k] = r[k - Len(q)]
    BY <1>1
  <1>3. Elements(z) \subseteq Elements(q) \cup Elements(r)
    BY <1>2 DEF Elements
  <1>4. ASSUME NEW j \in DOMAIN z, NEW k \in DOMAIN z, z[j] = z[k] PROVE j = k
    <2>1. \A a \in DOMAIN q, b \in DOMAIN r : q[a] # r[b]
      BY DEF Elements
    <2>2. CASE j \in DOMAIN q /\ z[j] = q[j] /\ k \in DOMAIN q /\ z[k] = q[k]
      BY <1>4, <2>2 DEF Distinct
    <2>3. CASE /\ j - Len(q) \in DOMAIN r /\ z[j] = r[j - Len(q)]
               /\ k - Len(q) \in DOMAIN r /\ z[k] = r[k - Len(q)]
      <3>1. j - Len(q) = k - Len(q)
        BY <1>4, <2>3 DEF Distinct
      <3> QED BY <1>1, <3>1
    <2> QED BY <1>2, <1>4, <2>1, <2>2, <2>3
  <1> QED BY <1>3, <1>4 DEF Distinct, z

\* Part of a queue repeats nothing that the queue does not repeat.
LEMMA SubSeqDistinct ==
  ASSUME NEW q \in Seq(Text), NEW a \in Nat, Distinct(q), a >= 1
  PROVE  LET z == SubSeq(q, a, Len(q))
         IN  z \in Seq(Text) /\ Distinct(z) /\ Elements(z) \subseteq Elements(q)
  <1> DEFINE z == SubSeq(q, a, Len(q))
  <1>1. Len(q) \in Nat /\ DOMAIN q = 1 .. Len(q)
    OBVIOUS
  <1>2. z \in Seq(Text)
    <2>1. \A i \in a .. Len(q) : q[i] \in Text
      BY <1>1
    <2> QED BY <1>1, <2>1, SubSeqProperties
  <1>3. /\ DOMAIN z = 1 .. Len(z)
        /\ Len(z) = IF a <= Len(q) THEN Len(q) - a + 1 ELSE 0
        /\ \A i \in 1 .. Len(q) - a + 1 : z[i] = q[a + i - 1]
    BY <1>1, <1>2, SubSeqProperties
  <1> HIDE DEF z
  <1>4. \A i \in DOMAIN z : a + i - 1 \in DOMAIN q /\ z[i] = q[a + i - 1]
    BY <1>1, <1>3
  <1>5. Elements(z) \subseteq Elements(q)
    BY <1>4 DEF Elements
  <1>6. ASSUME NEW j \in DOMAIN z, NEW k \in DOMAIN z, z[j] = z[k] PROVE j = k
    <2>1. a + j - 1 = a + k - 1
      BY <1>4, <1>6 DEF Distinct
    <2> QED BY <1>3, <2>1
  <1> QED BY <1>2, <1>5, <1>6 DEF Distinct, z

\* A queue of one text.
LEMMA OneDistinct ==
  ASSUME NEW x \in Text
  PROVE  <<x>> \in Seq(Text) /\ Distinct(<<x>>) /\ Elements(<<x>>) = {x}
  BY DEF Distinct, Elements

\* The empty queue.
LEMMA NoneDistinct == Distinct(<<>>) /\ Elements(<<>>) = {}
  BY DEF Distinct, Elements

(***************************************************************************)
(* The texts n still holds for p, and that it holds each but once.         *)
(***************************************************************************)
HeldSet(s) == Elements(s.pend) \cup Elements(s.envs)

Single(s) == /\ Distinct(s.pend) /\ Distinct(s.envs)
             /\ Elements(s.pend) \cap Elements(s.envs) = {}

\* A step that is given the texts F keeps them, sends them or drops them: what
\* it sends it no longer holds, and it sends each text once.
TextMove(s, t, F) ==
    Single(s) /\ F \cap HeldSet(s) = {} =>
        /\ Single(t)
        /\ HeldSet(t) \subseteq HeldSet(s) \cup F
        /\ \A m \in New(s, t) : m.body \in Text =>
              (m.body \in HeldSet(s) \/ m.body \in F) /\ m.body \notin HeldSet(t)
        /\ \A m, k \in New(s, t) : m.body \in Text /\ m.body = k.body => m = k

\* Holding an envelope repeats nothing.
LEMMA EnvelopeMove ==
  ASSUME NEW s \in PeerState, NEW x \in Text
  PROVE  LET t == queue_envelope(s, x)
         IN  /\ t \in PeerState /\ t.sess = s.sess /\ t.out = s.out
             /\ t.pend = s.pend /\ t.inb = s.inb /\ t.peer = s.peer
             /\ t.addr = s.addr /\ t.dh = s.dh /\ t.notice = s.notice
             /\ t.thread = s.thread
             /\ TextMove(s, t, {x})
  <1> DEFINE r == SubSeq(s.envs, s.aged + 1, Len(s.envs))
             q == Append(r, x)
             over == IF Len(q) > EnvelopeCap THEN Len(q) - EnvelopeCap ELSE 0
             z == SubSeq(q, over + 1, Len(q))
             t == queue_envelope(s, x)
  <1>1. s.envs \in Seq(Text) /\ s.aged \in Nat /\ s.aged + 1 \in Nat
    BY DEF PeerState
  <1>2. r \in Seq(Text)
    BY <1>1
  <1>3. q \in Seq(Text)
    <2> HIDE DEF r
    <2> QED BY <1>2
  <1>0. q = r \o <<x>>
    <2> HIDE DEF r
    <2> QED BY <1>2, AppendIsConcat
  <1>4. over \in Nat /\ over + 1 \in Nat /\ over + 1 >= 1
    <2> HIDE DEF q
    <2> QED BY <1>3, BoundAssumption
  <1>5. z \in Seq(Text)
    <2> HIDE DEF q, over
    <2> QED BY <1>3, <1>4
  <1>6. Single(s) /\ {x} \cap HeldSet(s) = {} =>
           Distinct(z) /\ Elements(z) \subseteq Elements(s.envs) \cup {x}
    <2> SUFFICES ASSUME Single(s), {x} \cap HeldSet(s) = {}
                 PROVE  Distinct(z) /\ Elements(z) \subseteq Elements(s.envs) \cup {x}
      OBVIOUS
    <2>1. Distinct(s.envs) /\ x \notin Elements(s.envs)
      BY DEF Single, HeldSet
    <2>2. Distinct(r) /\ Elements(r) \subseteq Elements(s.envs)
      BY <1>1, <2>1, SubSeqDistinct
    <2> HIDE DEF r
    <2>3. <<x>> \in Seq(Text) /\ Distinct(<<x>>) /\ Elements(<<x>>) = {x}
      BY OneDistinct
    <2>4. Distinct(q) /\ Elements(q) \subseteq Elements(r) \cup {x}
      <3>1. Elements(r) \cap Elements(<<x>>) = {}
        BY <2>1, <2>2, <2>3
      <3>2. /\ Distinct(r \o <<x>>)
            /\ Elements(r \o <<x>>) \subseteq Elements(r) \cup Elements(<<x>>)
        <4> HIDE DEF q, over, z, t
        <4> QED BY <1>2, <2>2, <2>3, <3>1, ConcatDistinct
      <3> QED BY <1>0, <2>3, <3>2
    <2> HIDE DEF q, over
    <2>5. Distinct(z) /\ Elements(z) \subseteq Elements(q)
      BY <1>3, <1>4, <2>4, SubSeqDistinct
    <2> QED BY <2>2, <2>4, <2>5
  <1>7. t = [s EXCEPT !.envs = z, !.aged = 0]
    BY DEF queue_envelope
  <1> HIDE DEF z, t, q, r, over
  <1>8. /\ t \in PeerState /\ t.sess = s.sess /\ t.out = s.out
        /\ t.pend = s.pend /\ t.inb = s.inb /\ t.peer = s.peer
        /\ t.addr = s.addr /\ t.dh = s.dh /\ t.notice = s.notice
        /\ t.thread = s.thread /\ t.envs = z
    BY <1>5, <1>7 DEF PeerState
  <1>9. New(s, t) = {}
    BY <1>8 DEF New
  <1>10. TextMove(s, t, {x})
    BY <1>6, <1>8, <1>9 DEF TextMove, Single, HeldSet
  <1> QED BY <1>8, <1>10 DEF t

\* The rows of the peer, and the marker, are as they were.
SameTheirs(s, t) ==
    \A b \in Body \cup {KeyChanged} : t.thread[Theirs(b)] = s.thread[Theirs(b)]

\* What sending texts leaves alone, and what it does to the session: it works
\* on with a ready one, starts one if there is none, or touches nothing.
Sends(n, p, s, t, id) ==
    /\ t \in PeerState
    /\ t.inb = s.inb /\ t.peer = s.peer /\ t.addr = s.addr /\ t.dh = s.dh
    /\ t.notice = s.notice /\ SameTheirs(s, t)
    /\ s.addr => t.envs = s.envs
    /\ \/ t.sess = s.sess /\ t.out = s.out
       \/ /\ Ready(s) /\ Works(n, p, s, t) /\ t.sess.recvN = s.sess.recvN
          /\ \A m \in New(s, t) : m.body \in Text
          /\ s.addr \/ t.out = s.out
       \/ /\ s.addr /\ ~HasSession(s)
          /\ t.sess = new_initiator(id)
          /\ \A m \in t.out : m \in s.out \/ m = Msg1(n, p, id)

\* send_dms does that, and moves the texts.
LEMMA SendMove ==
  ASSUME NEW n \in Node, NEW p \in Node, NEW s \in PeerState,
         NEW ts \in Seq(Text), NEW id \in Nat, Distinct(ts),
         Ready(s) => HasSession(s)
  PROVE  LET t == send_dms(n, p, s, ts, id)
         IN  Sends(n, p, s, t, id) /\ TextMove(s, t, Elements(ts))
  <1> DEFINE th == [r \in Row |-> s.thread[r] + (IF r[1]
                     THEN Cardinality({k \in DOMAIN ts : ts[k] = r[2]}) ELSE 0)]
             own == [s EXCEPT !.thread = th]
             queued == [own EXCEPT !.pend = @ \o ts]
             started == begin_handshake(n, p, queued, id)
             NoRetry(q) == [q EXCEPT !.attempts = Absent, !.last = FALSE]
  <1>1. th \in [Row -> Nat]
    <2> DEFINE A(r) == IF r[1] THEN Cardinality({k \in DOMAIN ts : ts[k] = r[2]}) ELSE 0
    <2>1. \A x : Cardinality({k \in DOMAIN ts : ts[k] = x}) \in Nat
      BY CountType
    <2>2. \A r \in Row : s.thread[r] \in Nat /\ A(r) \in Nat
      BY <2>1 DEF PeerState
    <2>3. th = [r \in Row |-> s.thread[r] + A(r)]
      OBVIOUS
    <2> HIDE DEF A, th
    <2> QED BY <2>2, <2>3
  <1>2. \A b \in Body \cup {KeyChanged} : th[Theirs(b)] = s.thread[Theirs(b)]
    <2> SUFFICES ASSUME NEW b \in Body \cup {KeyChanged}
                 PROVE  th[Theirs(b)] = s.thread[Theirs(b)]
      OBVIOUS
    <2>1. Theirs(b) \in Row /\ Theirs(b)[1] = FALSE
      BY DEF Theirs, Row
    <2>2. s.thread[Theirs(b)] \in Nat
      BY <2>1 DEF PeerState
    <2> QED BY <2>1, <2>2
  <1>3. /\ own \in PeerState /\ own.sess = s.sess /\ own.out = s.out /\ Beside(s, own)
        /\ own.notice = s.notice /\ own.thread = th
    <2> HIDE DEF th
    <2> QED BY <1>1 DEF PeerState, Beside
  <1>4. SameTheirs(s, own)
    BY <1>2, <1>3 DEF SameTheirs
  <1> HIDE DEF own, th
  <1>5. /\ queued \in PeerState /\ queued.sess = s.sess /\ queued.out = s.out
        /\ queued.inb = s.inb /\ queued.envs = s.envs /\ queued.peer = s.peer
        /\ queued.addr = s.addr /\ queued.dh = s.dh /\ queued.notice = s.notice
        /\ queued.pend = s.pend \o ts /\ queued.thread = own.thread
    <2>1. own.pend \o ts \in Seq(Text)
      BY <1>3 DEF PeerState
    <2> QED BY <1>3, <2>1 DEF PeerState, Beside
  <1> HIDE DEF queued
  <1>6. \/ /\ Distinct(s.pend \o ts)
           /\ Elements(s.pend \o ts) \subseteq Elements(s.pend) \cup Elements(ts)
        \/ ~(Single(s) /\ Elements(ts) \cap HeldSet(s) = {})
    <2>1. s.pend \in Seq(Text)
      BY DEF PeerState
    <2> QED BY <2>1, ConcatDistinct DEF Single, HeldSet
  <1>7. \A t : /\ t.pend = s.pend \o ts /\ t.envs = s.envs /\ New(s, t) = {}
               => TextMove(s, t, Elements(ts))
    BY <1>6 DEF TextMove, Single, HeldSet
  <1>8. /\ started \in PeerState /\ started.sess = new_initiator(id)
        /\ \A m \in started.out : m \in s.out \/ m = Msg1(n, p, id)
        /\ started.inb = s.inb /\ started.envs = s.envs /\ started.peer = s.peer
        /\ started.addr = s.addr /\ started.dh = s.dh /\ started.notice = s.notice
        /\ started.pend = s.pend \o ts /\ started.thread = own.thread
    <2>1. Begun(n, p, queued, started, id)
      BY <1>5, BeginBegun
    <2>2. /\ started.inb = queued.inb /\ started.envs = queued.envs
          /\ started.peer = queued.peer /\ started.addr = queued.addr
          /\ started.dh = queued.dh /\ started.notice = queued.notice
          /\ started.pend = queued.pend /\ started.thread = queued.thread
      BY <1>5 DEF begin_handshake, send_directed, PeerState
    <2> HIDE DEF started
    <2> QED BY <1>5, <2>1, <2>2 DEF Begun
  <1> HIDE DEF started
  <1>9. \A q \in PeerState : LET t == NoRetry(q)
                             IN  /\ t \in PeerState /\ t.sess = q.sess /\ t.out = q.out
                                 /\ Beside(q, t) /\ t.notice = q.notice
                                 /\ t.thread = q.thread
    BY DEF PeerState, Beside
  <1> HIDE DEF NoRetry
  <1>10. \A t : (\A m \in t.out : m \in s.out \/ m = Msg1(n, p, id)) => New(s, t) = {}
    BY DEF New, Msg1
  <1>11. ASSUME NEW t, t = started \/ t = NoRetry(started), s.addr, ~HasSession(s)
         PROVE  Sends(n, p, s, t, id) /\ TextMove(s, t, Elements(ts))
    <2>1. /\ t \in PeerState /\ t.sess = started.sess /\ t.out = started.out
          /\ Beside(started, t) /\ t.notice = started.notice /\ t.thread = started.thread
      <3>1. CASE t = started
        BY <1>8, <3>1 DEF Beside
      <3>2. CASE t = NoRetry(started)
        BY <1>8, <1>9, <3>2
      <3> QED BY <1>11, <3>1, <3>2
    <2>2. TextMove(s, t, Elements(ts))
      BY <1>7, <1>8, <1>10, <2>1 DEF Beside
    <2>3. SameTheirs(s, t)
      BY <1>4, <1>8, <2>1 DEF SameTheirs
    <2> QED BY <1>8, <1>11, <2>1, <2>2, <2>3 DEF Sends, Beside
  <1>12. Sends(n, p, s, NoRetry(queued), id) /\ TextMove(s, NoRetry(queued), Elements(ts))
    <2> DEFINE t == NoRetry(queued)
    <2>1. /\ t \in PeerState /\ t.sess = s.sess /\ t.out = s.out
          /\ Beside(queued, t) /\ t.notice = s.notice /\ t.thread = own.thread
      BY <1>5, <1>9
    <2> HIDE DEF t
    <2>2. New(s, t) = {}
      BY <2>1 DEF New
    <2>3. TextMove(s, t, Elements(ts))
      BY <1>5, <1>7, <2>1, <2>2 DEF Beside
    <2>4. SameTheirs(s, t)
      BY <1>4, <2>1 DEF SameTheirs
    <2> QED BY <1>5, <2>1, <2>3, <2>4 DEF Sends, Beside, t
  <1>13. ASSUME Ready(s)
         PROVE  LET t == encrypt_and_send(n, p, own, ts)
                IN  Sends(n, p, s, t, id) /\ TextMove(s, t, Elements(ts))
    <2> DEFINE t == encrypt_and_send(n, p, own, ts)
    <2>1. ts \in Seq(Body)
      BY SeqMonotonic DEF Body
    <2>2. /\ Works(n, p, own, t) /\ Beside(own, t) /\ t.thread = own.thread
          /\ t.notice = own.notice /\ t.sess.recvN = own.sess.recvN
          /\ Carries1(ts, New(own, t)) /\ \A m \in New(own, t) : m.body \in Text
      BY <1>3, <2>1, EncryptWorks, EncryptCarries
    <2>3. own.addr \/ t.out = own.out
      <3>1. LET b == [own EXCEPT !.sess.sendN = @ + Len(ts)]
            IN  b.addr = own.addr /\ b.out = own.out
        BY <1>3 DEF PeerState
      <3>2. t.out = own.out \/ own.addr
        BY <1>3, <3>1 DEF encrypt_and_send, send_directed, PeerState
      <3> QED BY <3>2
    <2> HIDE DEF t
    <2>4. New(s, t) = New(own, t)
      BY <1>3 DEF New
    <2>5. Works(n, p, s, t)
      BY <1>3, <2>2, <2>4 DEF Works
    <2>6. TextMove(s, t, Elements(ts))
      BY <1>3, <2>2, <2>4 DEF Carries1, Beside, TextMove, Single, HeldSet
    <2>7. SameTheirs(s, t)
      BY <1>4, <2>2 DEF SameTheirs
    <2>8. t \in PeerState
      BY <2>5 DEF Works
    <2>9. Sends(n, p, s, t, id)
      BY <1>3, <1>13, <2>2, <2>3, <2>4, <2>5, <2>7, <2>8 DEF Sends, Beside
    <2> QED BY <2>6, <2>9 DEF t
  <1>14. ASSUME ts # <<>>, ~s.addr, Len(ts) = 1 \/ Len(ts) # 1
         PROVE  Sends(n, p, s, queue_envelope(own, ts[1]), id)
                /\ TextMove(s, queue_envelope(own, ts[1]), Elements(ts))
    <2> DEFINE t == queue_envelope(own, ts[1])
    <2>1. ts[1] \in Text /\ ts[1] \in Elements(ts)
      BY <1>14 DEF Elements
    <2>2. /\ t \in PeerState /\ t.sess = own.sess /\ t.out = own.out
          /\ t.pend = own.pend /\ t.inb = own.inb /\ t.peer = own.peer
          /\ t.addr = own.addr /\ t.dh = own.dh /\ t.notice = own.notice
          /\ t.thread = own.thread
          /\ TextMove(own, t, {ts[1]})
      BY <1>3, <2>1, EnvelopeMove
    <2> HIDE DEF t
    <2>3. New(s, t) = {} /\ New(own, t) = {}
      BY <1>3, <2>2 DEF New
    <2>4. TextMove(s, t, Elements(ts))
      BY <1>3, <2>1, <2>2, <2>3 DEF TextMove, Single, HeldSet, Beside
    <2>5. SameTheirs(s, t)
      BY <1>4, <2>2 DEF SameTheirs
    <2> QED BY <1>3, <1>14, <2>2, <2>4, <2>5 DEF Sends, Beside, t
  <1>15. Sends(n, p, s, s, id) /\ TextMove(s, s, Elements(ts))
    <2>1. New(s, s) = {}
      BY DEF New
    <2> QED BY <2>1 DEF Sends, TextMove, SameTheirs
  <1>16. send_dms(n, p, s, ts, id) =
           CASE ts = <<>> -> s
             [] ts # <<>> /\ Ready(s) -> encrypt_and_send(n, p, own, ts)
             [] ts # <<>> /\ ~Ready(s) /\ ~s.addr -> queue_envelope(own, ts[1])
             [] ts # <<>> /\ Handshaking(s) /\ s.addr -> NoRetry(queued)
             [] ts # <<>> /\ ~HasSession(s) /\ s.addr ->
                   IF Len(ts) = 1 THEN started ELSE NoRetry(started)
    BY DEF send_dms, own, th, queued, started, NoRetry
  <1>17. \/ ts = <<>>
         \/ ts # <<>> /\ Ready(s)
         \/ ts # <<>> /\ ~Ready(s) /\ ~s.addr
         \/ ts # <<>> /\ Handshaking(s) /\ s.addr
         \/ ts # <<>> /\ ~HasSession(s) /\ s.addr
    BY DEF Handshaking
  <1>18. CASE ts = <<>>
    BY <1>15, <1>16, <1>18
  <1>19. CASE ts # <<>> /\ Ready(s)
    <2>1. send_dms(n, p, s, ts, id) = encrypt_and_send(n, p, own, ts)
      BY <1>16, <1>19 DEF Handshaking
    <2> QED BY <1>13, <1>19, <2>1
  <1>20. CASE ts # <<>> /\ ~Ready(s) /\ ~s.addr
    <2>1. send_dms(n, p, s, ts, id) = queue_envelope(own, ts[1])
      BY <1>16, <1>20 DEF Handshaking
    <2> QED BY <1>14, <1>20, <2>1
  <1>21. CASE ts # <<>> /\ ~Ready(s) /\ Handshaking(s) /\ s.addr
    <2>1. send_dms(n, p, s, ts, id) = NoRetry(queued)
      BY <1>16, <1>21 DEF Handshaking
    <2> QED BY <1>12, <2>1
  <1>22. CASE ts # <<>> /\ ~Ready(s) /\ ~HasSession(s) /\ s.addr
    <2>1. send_dms(n, p, s, ts, id) = started \/ send_dms(n, p, s, ts, id) = NoRetry(started)
      BY <1>16, <1>22 DEF Handshaking
    <2> QED BY <1>11, <1>22, <2>1
  <1> QED BY <1>17, <1>18, <1>19, <1>20, <1>21, <1>22 DEF Handshaking

-----------------------------------------------------------------------------
(***************************************************************************)
(* The steps.  s is the state of n about p before a step and t the state   *)
(* it ends in; x is the next ephemeral key, cs the ciphertexts the step    *)
(* has before it, and F the texts the user gives it.  The session goes on  *)
(* (and may become ready), ends, or gives way to a fresh one.              *)
(***************************************************************************)
GoesOn(n, p, s, t) ==
    /\ t.sess.role = s.sess.role /\ t.sess.own = s.sess.own
    /\ s.sess.ready => t.sess.ready /\ t.sess.re = s.sess.re
    /\ s.sess.sendN <= t.sess.sendN /\ s.sess.recvN <= t.sess.recvN
    /\ \A m \in New(s, t) : /\ Under(n, p, t.sess, m) /\ t.sess.ready
                            /\ s.sess.sendN <= m.nonce /\ m.nonce < t.sess.sendN
    /\ \A m, k \in New(s, t) : m.nonce = k.nonce => m = k

Ends(s, t) == t.sess = NoSession /\ New(s, t) = {}

Starts(s, t, x) == /\ t.sess.own = x /\ t.sess.role # "none" /\ ~t.sess.ready
                   /\ New(s, t) = {}

SessMove(n, p, s, t, x) == GoesOn(n, p, s, t) \/ Ends(s, t) \/ Starts(s, t, x)

\* As Took, for a session that may have become ready in the step.
Takes(s, t, cs) ==
    \A b \in Body : t.thread[Theirs(b)] > s.thread[Theirs(b)] =>
        /\ \E c \in cs : /\ c.body = b /\ Opens(t.sess, c)
                         /\ s.sess.recvN <= c.nonce /\ c.nonce < t.sess.recvN
        /\ (\A c, d \in cs : c.body = b /\ d.body = b => c = d)
              => t.thread[Theirs(b)] = s.thread[Theirs(b)] + 1

\* A notice goes out only if it is owed, to a verified peer; an ack answers a
\* notice; and who is no longer verified has no session and no ack.
TrustMove(s, t, cs) ==
    /\ t.notice => s.notice \/ t.peer.verified
    /\ s.peer.verified /\ ~t.peer.verified =>
          Ends(s, t) /\ ~t.notice /\ t.thread[Theirs("ack")] = 0
    /\ \A m \in New(s, t) :
          /\ m.body = "notice" => s.notice \/ t.peer.verified
          /\ m.body = "ack" => \E c \in cs : c.body = "notice" /\ Opens(t.sess, c)

\* Nothing is held for a peer that can be reached.
AwayMove(s, t) == (s.addr => s.envs = <<>>) => (t.addr => t.envs = <<>>)

\* n has the ephemeral key k from a handshake packet of p, or it is garbage.
Heard(n, p, k) ==
    \/ k = Garbage
    \/ \E m \in net : /\ IsHandshake(m) /\ m.src = p /\ m.dst = n
                      /\ k = m.i \/ (m.type # "msg1" /\ k = m.r)

Made(n, p, s, t, k) == k \in {s.sess.own, t.sess.own} \/ Heard(n, p, k)

\* Nothing is sent to a peer out of reach; a peer in reach has a record; the
\* keys of what is sent are n's own or were heard; a session becomes ready
\* only when its own key was heard back, bound to the announced key; and a
\* change of the announced key under a ready session leaves a marker.
KeyMove(n, p, s, t) ==
    /\ t.out = {} \/ t.addr
    /\ t.addr => s.addr \/ t.peer.exists
    /\ s.peer.exists /\ ~t.peer.exists => t.sess = NoSession /\ ~t.addr
    /\ t.sess.re \in {0, s.sess.re} \/ Heard(n, p, t.sess.re)
    /\ \A m \in t.out : IsHandshake(m) =>
          /\ m.src = n /\ m.dst = p /\ Made(n, p, s, t, m.i)
          /\ m.type # "msg1" => Made(n, p, s, t, m.r)
    /\ t.sess.ready /\ ~s.sess.ready =>
          /\ t.sess.rs = t.dh /\ s.dh # NoKey /\ t.dh = s.dh /\ t.peer = s.peer
          /\ Heard(n, p, s.sess.own)
    /\ t.dh = s.dh \/ t.dh # NoKey
    /\ s.sess.ready /\ t.sess.ready =>
          /\ t.sess.rs = s.sess.rs
          /\ t.dh # s.dh /\ s.dh # NoKey /\ s.peer.exists =>
                t.thread[Marker] > s.thread[Marker]

Move(n, p, s, t, x, cs, F) ==
    /\ t \in PeerState
    /\ SessMove(n, p, s, t, x)
    /\ TextMove(s, t, F)
    /\ Takes(s, t, cs)
    /\ Elements(t.inb) \subseteq cs
    /\ TrustMove(s, t, cs)
    /\ AwayMove(s, t)
    /\ KeyMove(n, p, s, t)

\* The user's marks on the peer are as they were, and no marker is gone.
SameTrust(s, t) == t.peer.verified = s.peer.verified /\ t.peer.petname = s.peer.petname
KeepsMarker(s, t) == s.thread[Marker] <= t.thread[Marker]

(***************************************************************************)
(* What the operators do to a row is a move.                               *)
(***************************************************************************)
\* A row of the peer is a number.
LEMMA TheirsType ==
  ASSUME NEW s \in PeerState, NEW b \in Body \cup {KeyChanged}
  PROVE  Theirs(b) \in Row /\ s.thread[Theirs(b)] \in Nat
  BY DEF Theirs, Row, PeerState

\* A step without ciphertexts that stores nothing of the peer's and holds no
\* more than before.
Silent(s, t) ==
    /\ t \in PeerState /\ New(s, t) = {}
    /\ t.pend \in {s.pend, <<>>} /\ t.envs = s.envs
    /\ t.addr => s.addr
    /\ \A b \in Body : t.thread[Theirs(b)] \in {0, s.thread[Theirs(b)]}

LEMMA SilentMove ==
  ASSUME NEW s \in PeerState, NEW t, Silent(s, t), NEW cs, NEW F
  PROVE  TextMove(s, t, F) /\ Takes(s, t, cs) /\ AwayMove(s, t)
  <1>1. \A b \in Body : ~(t.thread[Theirs(b)] > s.thread[Theirs(b)])
    <2> SUFFICES ASSUME NEW b \in Body PROVE ~(t.thread[Theirs(b)] > s.thread[Theirs(b)])
      OBVIOUS
    <2>1. s.thread[Theirs(b)] \in Nat
      BY TheirsType
    <2>2. t.thread[Theirs(b)] = 0 \/ t.thread[Theirs(b)] = s.thread[Theirs(b)]
      BY DEF Silent
    <2> QED BY <2>1, <2>2
  <1>2. Takes(s, t, cs)
    BY <1>1 DEF Takes
  <1>3. Single(s) => Single(t) /\ HeldSet(t) \subseteq HeldSet(s)
    BY NoneDistinct DEF Silent, Single, HeldSet
  <1>4. TextMove(s, t, F)
    BY <1>3 DEF TextMove, Silent
  <1> QED BY <1>2, <1>4 DEF AwayMove, Silent

\* The session is as it was, nothing is sent, and the record is kept.
LEMMA StillMove ==
  ASSUME NEW n \in Node, NEW p \in Node, NEW s \in PeerState, s.out = {},
         NEW x \in Nat, NEW t, NEW cs, NEW F,
         Silent(s, t), t.sess = s.sess, t.out = {}, Elements(t.inb) \subseteq cs,
         t.addr = s.addr, t.dh = s.dh, t.notice = s.notice,
         t.peer.verified = s.peer.verified, s.peer.exists => t.peer.exists
  PROVE  Move(n, p, s, t, x, cs, F)
  <1>1. s.sess.sendN \in Nat /\ s.sess.recvN \in Nat /\ t \in PeerState
    BY DEF PeerState, Session, Silent
  <1>2. New(s, t) = {}
    BY DEF New
  <1>3. GoesOn(n, p, s, t)
    BY <1>1, <1>2 DEF GoesOn
  <1>4. TrustMove(s, t, cs)
    BY <1>2 DEF TrustMove
  <1>5. KeyMove(n, p, s, t)
    BY DEF KeyMove
  <1> QED BY <1>1, <1>3, <1>4, <1>5, SilentMove DEF Move, SessMove

\* The session ends and nothing is sent.
LEMMA EndMove ==
  ASSUME NEW n \in Node, NEW p \in Node, NEW s \in PeerState, s.out = {},
         NEW x \in Nat, NEW t, NEW cs, NEW F,
         Silent(s, t), t.sess = NoSession, t.out = {}, Elements(t.inb) \subseteq cs,
         t.dh = s.dh, t.notice => s.notice,
         s.peer.verified /\ ~t.peer.verified =>
             ~t.notice /\ t.thread[Theirs("ack")] = 0,
         s.peer.exists /\ ~t.peer.exists => ~t.addr
  PROVE  Move(n, p, s, t, x, cs, F)
  <1>1. t \in PeerState
    BY DEF Silent
  <1>2. New(s, t) = {}
    BY DEF New
  <1>3. Ends(s, t)
    BY <1>2 DEF Ends
  <1>4. TrustMove(s, t, cs)
    BY <1>2, <1>3 DEF TrustMove
  <1>5. t.sess.re = 0 /\ t.sess.ready = FALSE
    BY DEF NoSession
  <1>6. KeyMove(n, p, s, t)
    BY <1>5 DEF KeyMove, Silent
  <1> QED BY <1>1, <1>3, <1>4, <1>6, SilentMove DEF Move, SessMove

\* A session begins: as initiator, or as responder to a packet of p.
LEMMA StartMove ==
  ASSUME NEW n \in Node, NEW p \in Node, NEW s \in PeerState, s.out = {},
         NEW x \in Nat, NEW t, NEW cs, NEW F, NEW e,
         Silent(s, t), Elements(t.inb) \subseteq cs,
         \/ /\ t.sess = new_initiator(x)
            /\ \A m \in t.out : m = Msg1(n, p, x)
         \/ /\ t.sess = new_responder(x, e) /\ Heard(n, p, e)
            /\ \A m \in t.out : m = Msg2(n, p, e, x, dhkey[n]),
         t.addr = s.addr, t.out = {} \/ t.addr,
         t.dh = s.dh, t.notice = s.notice, t.peer = s.peer
  PROVE  Move(n, p, s, t, x, cs, F)
  <1>1. t \in PeerState /\ New(s, t) = {}
    BY DEF Silent
  <1>2. t.sess.own = x /\ t.sess.role # "none" /\ t.sess.ready = FALSE
    BY DEF new_initiator, new_responder, NoSession
  <1>3. Starts(s, t, x)
    BY <1>1, <1>2 DEF Starts
  <1>4. TrustMove(s, t, cs)
    BY <1>1 DEF TrustMove
  <1>5. t.sess.re = 0 \/ Heard(n, p, t.sess.re)
    BY DEF new_initiator, new_responder, NoSession
  <1>6. \A m \in t.out : /\ m.src = n /\ m.dst = p /\ Made(n, p, s, t, m.i)
                         /\ m.type # "msg1" => Made(n, p, s, t, m.r)
    <2>1. CASE t.sess = new_initiator(x) /\ \A m \in t.out : m = Msg1(n, p, x)
      BY <1>2, <2>1 DEF Msg1, Made
    <2>2. CASE /\ t.sess = new_responder(x, e) /\ Heard(n, p, e)
               /\ \A m \in t.out : m = Msg2(n, p, e, x, dhkey[n])
      BY <1>2, <2>2 DEF Msg2, Made
    <2> QED BY <2>1, <2>2
  <1>7. KeyMove(n, p, s, t)
    BY <1>2, <1>5, <1>6 DEF KeyMove
  <1> QED BY <1>1, <1>3, <1>4, <1>7, SilentMove DEF Move, SessMove

\* Sending texts is a move, and makes no session ready.
LEMMA SendsMove ==
  ASSUME NEW n \in Node, NEW p \in Node, NEW s \in PeerState, s.out = {},
         NEW x \in Nat, NEW t, NEW cs, NEW F,
         Sends(n, p, s, t, x), TextMove(s, t, F),
         Plain(n, p, s, t) \/ Begun(n, p, s, t, x), Elements(s.inb) \subseteq cs
  PROVE  Move(n, p, s, t, x, cs, F) /\ (t.sess.ready => s.sess.ready)
  <1>1. s.sess.sendN \in Nat /\ s.sess.recvN \in Nat /\ t \in PeerState
    BY DEF PeerState, Session, Sends
  <1>2. Takes(s, t, cs)
    <2>1. \A b \in Body : t.thread[Theirs(b)] = s.thread[Theirs(b)]
                          /\ s.thread[Theirs(b)] \in Nat
      BY TheirsType DEF Sends, SameTheirs
    <2> QED BY <2>1 DEF Takes
  <1>3. AwayMove(s, t)
    BY DEF AwayMove, Sends
  <1>4. Elements(t.inb) \subseteq cs
    BY DEF Sends
  <1>5. t.notice = s.notice /\ t.peer = s.peer /\ t.addr = s.addr /\ t.dh = s.dh
    BY DEF Sends
  <1>6. CASE t.sess = s.sess /\ t.out = s.out
    <2>1. New(s, t) = {}
      BY <1>6 DEF New
    <2>2. GoesOn(n, p, s, t)
      BY <1>1, <1>6, <2>1 DEF GoesOn
    <2>3. TrustMove(s, t, cs)
      BY <1>5, <2>1 DEF TrustMove
    <2>4. KeyMove(n, p, s, t)
      BY <1>5, <1>6 DEF KeyMove
    <2> QED BY <1>1, <1>2, <1>3, <1>4, <1>6, <2>2, <2>3, <2>4 DEF Move, SessMove
  <1>7. CASE /\ Ready(s) /\ Works(n, p, s, t) /\ t.sess.recvN = s.sess.recvN
             /\ \A m \in New(s, t) : m.body \in Text
             /\ s.addr \/ t.out = s.out
    <2>1. HalfOf(t.sess) = HalfOf(s.sess) /\ t.sess.rs = s.sess.rs
      BY <1>7 DEF Works
    <2>2. /\ t.sess.role = s.sess.role /\ t.sess.own = s.sess.own
          /\ t.sess.ready = s.sess.ready /\ t.sess.re = s.sess.re
      BY <2>1 DEF HalfOf
    <2>3. GoesOn(n, p, s, t)
      <3>1. \A m : Under(n, p, s.sess, m) => Under(n, p, t.sess, m)
        BY <2>2 DEF Under, KeyI, KeyR
      <3> QED BY <1>1, <1>7, <2>2, <3>1 DEF GoesOn, Works, Ready
    <2>4. TrustMove(s, t, cs)
      BY <1>5, <1>7, TextIsNoControl DEF TrustMove
    <2>5. ~Begun(n, p, s, t, x)
      BY <1>7, <2>2 DEF Begun, new_initiator, NoSession, Ready
    <2>6. \A m \in t.out : ~IsHandshake(m)
      BY <2>5 DEF Plain, Ciphertext, IsHandshake
    <2>7. KeyMove(n, p, s, t)
      BY <1>5, <1>7, <2>1, <2>2, <2>6 DEF KeyMove
    <2> QED BY <1>1, <1>2, <1>3, <1>4, <2>2, <2>3, <2>4, <2>7 DEF Move, SessMove
  <1>8. CASE /\ s.addr /\ ~HasSession(s)
             /\ t.sess = new_initiator(x)
             /\ \A m \in t.out : m \in s.out \/ m = Msg1(n, p, x)
    <2>1. t.sess.own = x /\ t.sess.role # "none" /\ t.sess.ready = FALSE /\ t.sess.re = 0
      BY <1>8 DEF new_initiator, NoSession
    <2>2. \A m \in t.out : m.type = "msg1" /\ m.src = n /\ m.dst = p /\ m.i = x
      BY <1>8 DEF Msg1
    <2>3. New(s, t) = {}
      BY <2>2 DEF New
    <2>4. Starts(s, t, x)
      BY <2>1, <2>3 DEF Starts
    <2>5. TrustMove(s, t, cs)
      BY <1>5, <2>3 DEF TrustMove
    <2>6. KeyMove(n, p, s, t)
      BY <1>5, <1>8, <2>1, <2>2 DEF KeyMove, Made
    <2> QED BY <1>1, <1>2, <1>3, <1>4, <2>1, <2>4, <2>5, <2>6 DEF Move, SessMove
  <1> QED BY <1>6, <1>7, <1>8 DEF Sends

\* So is an announce.
LEMMA AnnounceMove ==
  ASSUME NEW n \in Node, NEW p \in Node, NEW s \in PeerState, s.out = {}, Single(s),
         Ready(s) => HasSession(s),
         NEW k \in Nat, k # NoKey, NEW x \in Nat, NEW cs, Elements(s.inb) \subseteq cs
  PROVE  LET t == handle_announce(n, p, s, k, x)
         IN  Move(n, p, s, t, x, cs, {}) /\ SameTrust(s, t) /\ KeepsMarker(s, t)
  <1> DEFINE marked == IF s.dh \notin {NoKey, k} /\ s.peer.exists
                       THEN put_dm(s, <<FALSE, KeyChanged>>) ELSE s
             base == [marked EXCEPT !.dh = k, !.addr = TRUE, !.peer.exists = TRUE,
                                    !.envs = <<>>, !.aged = 0]
             t == send_dms(n, p, base, s.envs, x)
  <1>0. Marker \in Row /\ s.thread[Marker] \in Nat /\ Theirs(KeyChanged) = Marker
    BY DEF Marker, Row, PeerState, Theirs
  <1>1. /\ marked \in PeerState /\ marked.sess = s.sess /\ marked.out = s.out
        /\ Beside(s, marked) /\ marked.notice = s.notice
        /\ \A b \in Body : marked.thread[Theirs(b)] = s.thread[Theirs(b)]
        /\ marked.thread[Marker] =
             IF s.dh \notin {NoKey, k} /\ s.peer.exists
             THEN s.thread[Marker] + 1 ELSE s.thread[Marker]
    <2>1. KeyChanged \notin Body
      BY TextAssumption DEF Body, Control, KeyChanged
    <2>2. \A b \in Body : Theirs(b) \in Row /\ Theirs(b) # Marker
      BY <2>1 DEF Theirs, Row, Marker
    <2>3. /\ put_dm(s, Marker) \in PeerState /\ put_dm(s, Marker).sess = s.sess
          /\ put_dm(s, Marker).out = s.out
      BY <1>0, PutDmType
    <2>4. /\ Beside(s, put_dm(s, Marker)) /\ put_dm(s, Marker).notice = s.notice
          /\ put_dm(s, Marker).thread[Marker] = s.thread[Marker] + 1
          /\ \A b \in Body : put_dm(s, Marker).thread[Theirs(b)] = s.thread[Theirs(b)]
      BY <1>0, <2>2, PutDmKeeps
    <2>5. marked = IF s.dh \notin {NoKey, k} /\ s.peer.exists THEN put_dm(s, Marker) ELSE s
      BY DEF Marker
    <2> HIDE DEF marked
    <2>6. CASE s.dh \notin {NoKey, k} /\ s.peer.exists
      <3>1. marked = put_dm(s, Marker)
        BY <2>5, <2>6
      <3> QED BY <2>3, <2>4, <2>6, <3>1
    <2>7. CASE ~(s.dh \notin {NoKey, k} /\ s.peer.exists)
      <3>1. marked = s
        BY <2>5, <2>7
      <3> QED BY <2>7, <3>1 DEF Beside
    <2> QED BY <2>6, <2>7
  <1> HIDE DEF marked
  <1>2. /\ base \in PeerState /\ base.sess = s.sess /\ base.out = s.out
        /\ base.pend = s.pend /\ base.inb = s.inb /\ base.envs = <<>>
        /\ base.notice = s.notice /\ base.addr = TRUE /\ base.dh = k
        /\ base.peer.exists = TRUE /\ base.peer.verified = s.peer.verified
        /\ base.peer.petname = s.peer.petname
        /\ base.thread = marked.thread
    <2> DEFINE q == [marked.peer EXCEPT !.exists = TRUE]
    <2>1. /\ q \in [exists : BOOLEAN, verified : BOOLEAN, petname : BOOLEAN]
          /\ q.exists = TRUE /\ q.verified = s.peer.verified /\ q.petname = s.peer.petname
      BY <1>1 DEF PeerState, Beside
    <2>2. base = [marked EXCEPT !.dh = k, !.addr = TRUE, !.peer = q,
                                !.envs = <<>>, !.aged = 0]
      BY <1>1 DEF PeerState
    <2>3. <<>> \in Seq(Text) /\ k \in Key
      BY DEF Key
    <2> HIDE DEF q, base
    <2> QED BY <1>1, <2>1, <2>2, <2>3 DEF PeerState, Beside
  <1> HIDE DEF base
  <1>3. /\ s.envs \in Seq(Text) /\ Distinct(s.envs)
        /\ Ready(base) => HasSession(base)
    BY <1>2 DEF PeerState, Single, Ready, HasSession
  <1>4. Sends(n, p, base, t, x) /\ TextMove(base, t, Elements(s.envs))
    BY <1>2, <1>3, SendMove
  <1>5. Plain(n, p, base, t) \/ Begun(n, p, base, t, x)
    BY <1>2, <1>3, SendCases
  <1>6. handle_announce(n, p, s, k, x) = t
    BY DEF handle_announce, marked, base
  <1> HIDE DEF t
  <1>7. Move(n, p, base, t, x, cs, Elements(s.envs)) /\ (t.sess.ready => base.sess.ready)
    BY <1>2, <1>4, <1>5, SendsMove
  <1>8. New(s, t) = New(base, t)
    BY <1>2 DEF New
  <1>9. /\ t \in PeerState /\ t.inb = s.inb /\ t.peer = base.peer /\ t.addr = TRUE
        /\ t.dh = k /\ t.notice = s.notice /\ t.envs = <<>>
        /\ t.thread[Marker] = marked.thread[Marker]
    BY <1>0, <1>2, <1>4 DEF Sends, SameTheirs
  <1>10. SessMove(n, p, s, t, x)
    BY <1>2, <1>7, <1>8 DEF Move, SessMove, GoesOn, Ends, Starts
  <1>11. TextMove(s, t, {})
    <2> SUFFICES ASSUME Single(s)
                 PROVE  /\ Single(t)
                        /\ HeldSet(t) \subseteq HeldSet(s)
                        /\ \A m \in New(s, t) : m.body \in Text =>
                              m.body \in HeldSet(s) /\ m.body \notin HeldSet(t)
                        /\ \A m, j \in New(s, t) :
                              m.body \in Text /\ m.body = j.body => m = j
      BY DEF TextMove
    <2>1. HeldSet(base) = Elements(s.pend)
      BY <1>2, NoneDistinct DEF HeldSet
    <2>2. Single(base) /\ Elements(s.envs) \cap HeldSet(base) = {}
      BY <1>2, <2>1, NoneDistinct DEF Single
    <2> QED BY <1>4, <1>8, <2>1, <2>2 DEF TextMove, HeldSet
  <1>12. Takes(s, t, cs)
    BY <1>1, <1>2, <1>7 DEF Move, Takes
  <1>13. TrustMove(s, t, cs)
    BY <1>2, <1>7, <1>8, <1>9 DEF Move, TrustMove, Ends
  <1>14. AwayMove(s, t)
    BY <1>9 DEF AwayMove
  <1>15. KeyMove(n, p, s, t)
    <2>1. \A y : Made(n, p, base, t, y) = Made(n, p, s, t, y)
      BY <1>2 DEF Made
    <2>2. /\ t.sess.re \in {0, s.sess.re} \/ Heard(n, p, t.sess.re)
          /\ \A m \in t.out : IsHandshake(m) =>
               /\ m.src = n /\ m.dst = p /\ Made(n, p, s, t, m.i)
               /\ m.type # "msg1" => Made(n, p, s, t, m.r)
          /\ s.sess.ready /\ t.sess.ready => t.sess.rs = s.sess.rs
      BY <1>2, <1>7, <2>1 DEF Move, KeyMove
    <2>3. t.sess.ready => s.sess.ready
      BY <1>2, <1>7
    <2>4. t.dh # s.dh /\ s.dh # NoKey /\ s.peer.exists => t.thread[Marker] > s.thread[Marker]
      BY <1>0, <1>1, <1>9
    <2>5. t.dh # NoKey /\ t.addr /\ t.peer.exists
      BY <1>2, <1>9
    <2> QED BY <2>2, <2>3, <2>4, <2>5 DEF KeyMove
  <1>16. SameTrust(s, t) /\ KeepsMarker(s, t)
    BY <1>0, <1>1, <1>2, <1>9 DEF SameTrust, KeepsMarker
  <1>17. Elements(t.inb) \subseteq cs
    BY <1>9
  <1>18. Move(n, p, s, t, x, cs, {})
    BY <1>9, <1>10, <1>11, <1>12, <1>13, <1>14, <1>15, <1>17 DEF Move
  <1> QED BY <1>6, <1>16, <1>18

(***************************************************************************)
(* To a peer out of reach the operators send nothing.                      *)
(***************************************************************************)
LEMMA EncryptUnheard ==
  ASSUME NEW n \in Node, NEW p \in Node, NEW s \in PeerState, NEW bs \in Seq(Body), ~s.addr
  PROVE  encrypt_and_send(n, p, s, bs).out = s.out
  <1>1. LET b == [s EXCEPT !.sess.sendN = @ + Len(bs)]
        IN  b.addr = s.addr /\ b.out = s.out
    BY DEF PeerState
  <1> QED BY <1>1 DEF encrypt_and_send, send_directed, PeerState

LEMMA NoticeUnheard ==
  ASSUME NEW n \in Node, NEW p \in Node, NEW s \in PeerState, ~s.addr
  PROVE  try_send_verify_notice(n, p, s).out = s.out
  <1> DEFINE a == [s EXCEPT !.notice = FALSE]
             b == put_dm(a, <<TRUE, "notice">>)
  <1>1. a \in PeerState /\ a.out = s.out /\ a.addr = s.addr
    BY DEF PeerState
  <1> HIDE DEF a
  <1>2. <<TRUE, "notice">> \in Row /\ <<"notice">> \in Seq(Body)
    <2>1. "notice" \in Body
      BY DEF Body, Control
    <2>2. <<TRUE, "notice">> \in Row
      BY <2>1 DEF Row
    <2>3. <<"notice">> \in Seq(Body)
      BY <2>1
    <2> QED BY <2>2, <2>3
  <1>3. b \in PeerState /\ b.out = s.out /\ b.addr = s.addr
    BY <1>1, <1>2, PutDmType, PutDmKeeps DEF Beside
  <1> HIDE DEF b
  <1>4. encrypt_and_send(n, p, b, <<"notice">>).out = s.out
    BY <1>2, <1>3, EncryptUnheard
  <1> QED BY <1>4 DEF try_send_verify_notice, send_control_dm, a, b

LEMMA DecryptUnheard ==
  ASSUME NEW n \in Node, NEW p \in Node, NEW s \in PeerState,
         NEW cs \in Seq(Ciphertext), ~s.addr
  PROVE  decrypt_and_emit(n, p, s, cs).out = s.out
  <1> DEFINE ok == Accepted(s.sess, cs)
             Carrying(b) == {k \in ok : cs[k].body = b}
             acks == Cardinality(Carrying("notice"))
             stored == [r \in Row |->
                     s.thread[r] + (IF r = <<TRUE, "ack">> THEN acks ELSE 0)
                                 + (IF r[1] THEN 0 ELSE Cardinality(Carrying(r[2])))]
             a == [s EXCEPT !.resync = IF ok = {} THEN @ ELSE 0,
                            !.sess.recvN = NextNonce(s.sess, cs, ok),
                            !.thread = stored]
             bs == [k \in 1 .. acks |-> "ack"]
             u == [a EXCEPT !.sess.sendN = @ + Len(bs)]
  <1>1. a.addr = s.addr /\ a.out = s.out /\ u.addr = s.addr /\ u.out = s.out
    <2> HIDE DEF ok, stored, bs
    <2> QED BY DEF PeerState
  <1>2. \A pkts : send_directed(u, pkts) = [u EXCEPT !.out = u.out]
    <2> HIDE DEF u
    <2> QED BY <1>1 DEF send_directed
  <1>3. [u EXCEPT !.out = u.out].out = u.out
    <2> HIDE DEF ok, stored, bs
    <2> QED BY DEF PeerState
  <1>4. \E pkts : decrypt_and_emit(n, p, s, cs) = send_directed(u, pkts)
    BY DEF decrypt_and_emit, encrypt_and_send
  <1> HIDE DEF u
  <1> QED BY <1>1, <1>2, <1>3, <1>4

LEMMA FinishUnheard ==
  ASSUME NEW n \in Node, NEW p \in Node, NEW s \in PeerState, ~s.addr
  PROVE  finish_session(n, p, s).out = s.out
  <1> DEFINE reset == [s EXCEPT !.last = FALSE, !.attempts = Absent]
             clear == [reset EXCEPT !.resync = 0]
             told == try_send_verify_notice(n, p, clear)
             queue == [told EXCEPT !.pend = <<>>]
             flushed == encrypt_and_send(n, p, queue, s.pend)
             ready == [flushed EXCEPT !.inb = <<>>]
             done == decrypt_and_emit(n, p, ready, s.inb)
             dropped == [reset EXCEPT !.sess = NoSession, !.pend = <<>>]
  <1>0. <<>> \in Seq(Text) /\ <<>> \in Seq(Ciphertext)
    BY SessionTypes
  <1>1. reset \in PeerState /\ reset.out = s.out /\ reset.addr = s.addr
    BY DEF PeerState
  <1> HIDE DEF reset
  <1>2. dropped.out = s.out
    BY <1>1 DEF PeerState
  <1>3. clear \in PeerState /\ clear.out = s.out /\ clear.addr = s.addr
    BY <1>1 DEF PeerState
  <1> HIDE DEF clear
  <1>4. told \in PeerState /\ told.out = s.out /\ told.addr = s.addr
    BY <1>3, NoticeWorks, NoticeUnheard DEF Works, Beside
  <1> HIDE DEF told
  <1>5. queue \in PeerState /\ queue.out = s.out /\ queue.addr = s.addr
    BY <1>0, <1>4 DEF PeerState
  <1> HIDE DEF queue
  <1>6. s.pend \in Seq(Body) /\ s.inb \in Seq(Ciphertext)
    <2>1. s.pend \in Seq(Text) /\ s.inb \in Seq(Ciphertext) /\ Text \subseteq Body
      BY DEF PeerState, Body
    <2> QED BY <2>1, SeqMonotonic
  <1>7. flushed \in PeerState /\ flushed.out = s.out /\ flushed.addr = s.addr
    <2>1. Works(n, p, queue, flushed) /\ Beside(queue, flushed)
      BY <1>5, <1>6, EncryptWorks
    <2>2. flushed.out = queue.out
      BY <1>5, <1>6, EncryptUnheard
    <2> HIDE DEF flushed
    <2> QED BY <1>5, <2>1, <2>2 DEF Works, Beside
  <1> HIDE DEF flushed
  <1>8. ready \in PeerState /\ ready.out = s.out /\ ready.addr = s.addr
    BY <1>0, <1>7 DEF PeerState
  <1> HIDE DEF ready
  <1>9. done.out = s.out
    BY <1>6, <1>8, DecryptUnheard
  <1>10. finish_session(n, p, s) = IF s.sess.rs = s.dh THEN done ELSE dropped
    BY DEF finish_session, done, ready, flushed, queue, told, clear, reset
  <1> HIDE DEF done, dropped
  <1> QED BY <1>2, <1>9, <1>10

(***************************************************************************)
(* Working with a ready session.  b is s with its session made ready, if   *)
(* it was not, and the packet that says so.                                *)
(***************************************************************************)
MadeReady(s, b) ==
    /\ b \in PeerState /\ b.sess.ready
    /\ b.sess.role = s.sess.role /\ b.sess.own = s.sess.own
    /\ s.sess.ready => b.sess = s.sess
    /\ b.sess.sendN = s.sess.sendN /\ b.sess.recvN = s.sess.recvN
    /\ \A m \in b.out : m.type # "dm"
    /\ Beside(s, b) /\ b.notice = s.notice /\ b.thread = s.thread

LEMMA WorksMove ==
  ASSUME NEW n \in Node, NEW p \in Node, NEW s \in PeerState, s.out = {},
         NEW b, MadeReady(s, b), NEW t, Works(n, p, b, t),
         NEW C, Took(b, t, C), NEW cs, C \subseteq cs
  PROVE  /\ GoesOn(n, p, s, t) /\ Takes(s, t, cs)
         /\ New(s, t) = New(b, t)
         /\ \A c : Opens(b.sess, c) => Opens(t.sess, c)
         /\ t.sess.ready /\ t.sess.re = b.sess.re /\ t.sess.rs = b.sess.rs
         /\ t \in PeerState
  <1>1. /\ t \in PeerState
        /\ HalfOf(t.sess) = HalfOf(b.sess) /\ t.sess.rs = b.sess.rs
        /\ b.sess.sendN <= t.sess.sendN /\ b.sess.recvN <= t.sess.recvN
        /\ \A m \in New(b, t) : /\ Under(n, p, b.sess, m)
                                /\ b.sess.sendN <= m.nonce /\ m.nonce < t.sess.sendN
        /\ \A m, k \in New(b, t) : m.nonce = k.nonce => m = k
    BY DEF Works
  <1>2. /\ t.sess.role = b.sess.role /\ t.sess.own = b.sess.own
        /\ t.sess.ready = b.sess.ready /\ t.sess.re = b.sess.re
    BY <1>1 DEF HalfOf
  <1>3. New(s, t) = New(b, t)
    BY DEF New, MadeReady
  <1>4. KeyI(t.sess) = KeyI(b.sess) /\ KeyR(t.sess) = KeyR(b.sess)
    BY <1>2 DEF KeyI, KeyR
  <1>5. \A c : Opens(b.sess, c) => Opens(t.sess, c)
    BY <1>2, <1>4 DEF Opens
  <1>6. \A m : Under(n, p, b.sess, m) => Under(n, p, t.sess, m)
    BY <1>4 DEF Under
  <1>7. GoesOn(n, p, s, t)
    BY <1>1, <1>2, <1>3, <1>6 DEF GoesOn, MadeReady
  <1>8. Takes(s, t, cs)
    BY <1>5 DEF Took, Takes, MadeReady
  <1> QED BY <1>1, <1>2, <1>3, <1>5, <1>7, <1>8 DEF MadeReady

\* Decrypting one ciphertext is a move.
LEMMA DecryptMove ==
  ASSUME NEW n \in Node, NEW p \in Node, NEW s \in PeerState, s.out = {},
         Ready(s), NEW m \in Ciphertext, NEW x \in Nat, NEW cs,
         Elements(s.inb) \subseteq cs, m \in cs
  PROVE  LET t == decrypt_and_emit(n, p, s, <<m>>)
         IN  Move(n, p, s, t, x, cs, {}) /\ SameTrust(s, t) /\ KeepsMarker(s, t)
  <1> DEFINE t == decrypt_and_emit(n, p, s, <<m>>)
  <1>1. <<m>> \in Seq(Ciphertext) /\ Elements(<<m>>) = {m}
    BY DEF Elements
  <1>2. /\ Works(n, p, s, t) /\ Beside(s, t) /\ t.notice = s.notice
        /\ Took(s, t, {m})
        /\ t.thread[Marker] = s.thread[Marker]
        /\ \A k \in New(s, t) :
              /\ k.body = "ack"
              /\ \E c \in {m} : c.body = "notice" /\ Opens(s.sess, c)
    <2> DEFINE q == <<m>>
               u == decrypt_and_emit(n, p, s, q)
    <2>1. q \in Seq(Ciphertext) /\ Elements(q) = {m} /\ t = u
      BY <1>1
    <2> HIDE DEF q, t
    <2>2. /\ Works(n, p, s, u) /\ Beside(s, u) /\ u.notice = s.notice
          /\ Took(s, u, Elements(q))
          /\ u.thread[Marker] = s.thread[Marker]
          /\ \A k \in New(s, u) :
                /\ k.body = "ack"
                /\ \E c \in Elements(q) : c.body = "notice" /\ Opens(s.sess, c)
          /\ Apart(s, u) /\ u.resync \in {s.resync, 0}
          /\ SameOurs(s, u) /\ Reads(s, u, q)
      BY <2>1, DecryptWorks
    <2> QED BY <2>1, <2>2
  <1>3. Plain(n, p, s, t) /\ (~s.addr => t.out = s.out)
    BY <1>1, DecryptPlain, DecryptUnheard
  <1> HIDE DEF t
  <1>4. MadeReady(s, s)
    BY DEF MadeReady, Ready, Beside
  <1>5. /\ GoesOn(n, p, s, t) /\ Takes(s, t, cs)
        /\ \A c : Opens(s.sess, c) => Opens(t.sess, c)
        /\ t.sess.ready /\ t.sess.re = s.sess.re /\ t.sess.rs = s.sess.rs
        /\ t \in PeerState
    BY <1>2, <1>4, WorksMove
  <1>6. TextMove(s, t, {})
    BY <1>2, TextIsNoControl DEF TextMove, Single, HeldSet, Beside
  <1>7. TrustMove(s, t, cs)
    BY <1>2, <1>5 DEF TrustMove, Beside
  <1>8. AwayMove(s, t)
    BY <1>2 DEF AwayMove, Beside
  <1>9. \A k \in t.out : ~IsHandshake(k)
    BY <1>3 DEF Plain, Ciphertext, IsHandshake
  <1>10. KeyMove(n, p, s, t)
    BY <1>2, <1>3, <1>5, <1>9 DEF KeyMove, Beside, Ready
  <1>11. SameTrust(s, t) /\ KeepsMarker(s, t)
    <2>1. s.thread[Marker] \in Nat
      BY DEF PeerState, Row, Marker
    <2> QED BY <1>2, <2>1 DEF SameTrust, KeepsMarker, Beside
  <1>12. Move(n, p, s, t, x, cs, {})
    BY <1>2, <1>5, <1>6, <1>7, <1>8, <1>10 DEF Move, SessMove, Beside
  <1> QED BY <1>11, <1>12 DEF t

\* Completing a session is a move.
LEMMA FinishMove ==
  ASSUME NEW n \in Node, NEW p \in Node, NEW s \in PeerState, s.out = {},
         ~s.sess.ready, s.dh # NoKey, Heard(n, p, s.sess.own),
         NEW b, MadeReady(s, b),
         b.sess.re = s.sess.re \/ Heard(n, p, b.sess.re),
         \A m \in b.out : /\ m.src = n /\ m.dst = p /\ s.addr
                          /\ Heard(n, p, m.i) /\ Heard(n, p, m.r),
         NEW x \in Nat, NEW cs, Elements(s.inb) \subseteq cs
  PROVE  LET t == finish_session(n, p, b)
         IN  Move(n, p, s, t, x, cs, {}) /\ SameTrust(s, t) /\ KeepsMarker(s, t)
  <1> DEFINE t == finish_session(n, p, b)
  <1>0. b \in PeerState /\ Beside(s, b) /\ b.notice = s.notice /\ b.thread = s.thread
    BY DEF MadeReady
  <1>1. WorksOff(n, p, b, t) \/ DropsSession(b, t)
    BY <1>0, FinishWorks
  <1>2. \A m \in t.out : m \in b.out \/ (m \in Ciphertext /\ m.src = n /\ m.dst = p)
    BY <1>0, FinishCases DEF Plain
  <1>3. ~s.addr => t.out = b.out
    BY <1>0, FinishUnheard DEF Beside
  <1> HIDE DEF t
  <1>4. t.out = {} \/ s.addr
    <2>1. ~s.addr => b.out = {}
      OBVIOUS
    <2> QED BY <1>3, <2>1
  <1>5. \A m \in t.out : IsHandshake(m) =>
           /\ m.src = n /\ m.dst = p /\ Made(n, p, s, t, m.i)
           /\ m.type # "msg1" => Made(n, p, s, t, m.r)
    BY <1>2 DEF Ciphertext, IsHandshake, Made
  <1>6. s.thread[Marker] \in Nat
    BY DEF PeerState, Row, Marker
  <1>7. CASE WorksOff(n, p, b, t)
    <2>1. /\ Works(n, p, b, t) /\ Took(b, t, Elements(s.inb))
          /\ t.pend = <<>> /\ t.inb = <<>> /\ t.envs = s.envs
          /\ t.peer = s.peer /\ t.addr = s.addr /\ t.dh = s.dh
          /\ t.notice => s.notice
          /\ t.thread[Marker] = s.thread[Marker]
          /\ Carries1(s.pend, New(b, t))
          /\ b.sess.rs = s.dh
      BY <1>0, <1>7 DEF WorksOff, Beside
    <2>2. \A m \in New(b, t) :
            /\ m.body = "notice" => s.notice
            /\ m.body = "ack" =>
                  \E c \in Elements(s.inb) : c.body = "notice" /\ Opens(b.sess, c)
      BY <1>0, <1>7 DEF WorksOff, Beside
    <2>3. /\ GoesOn(n, p, s, t) /\ Takes(s, t, cs) /\ New(s, t) = New(b, t)
          /\ \A c : Opens(b.sess, c) => Opens(t.sess, c)
          /\ t.sess.ready /\ t.sess.re = b.sess.re /\ t.sess.rs = b.sess.rs
          /\ t \in PeerState
      <3> DEFINE C == Elements(s.inb)
      <3>1. Took(b, t, C) /\ C \subseteq cs
        BY <2>1
      <3> HIDE DEF C
      <3>2. Works(n, p, b, t)
        BY <2>1
      <3> QED BY <3>1, <3>2, WorksMove
    <2>4. TextMove(s, t, {})
      <3>1. Single(s) => Single(t) /\ HeldSet(t) = Elements(s.envs)
        BY <2>1, NoneDistinct DEF Single, HeldSet
      <3>2. Single(s) => \A m \in New(s, t) : m.body \in Text =>
               m.body \in HeldSet(s) /\ m.body \notin HeldSet(t)
        BY <2>1, <2>3, <3>1 DEF Single, HeldSet, Carries1
      <3>3. Single(s) => \A m, k \in New(s, t) : m.body \in Text /\ m.body = k.body => m = k
        BY <2>1, <2>3 DEF Single, Carries1
      <3> QED BY <3>1, <3>2, <3>3 DEF TextMove, HeldSet
    <2>5. TrustMove(s, t, cs)
      BY <2>1, <2>2, <2>3 DEF TrustMove
    <2>6. AwayMove(s, t)
      BY <2>1 DEF AwayMove
    <2>7. KeyMove(n, p, s, t)
      BY <1>4, <1>5, <2>1, <2>3 DEF KeyMove
    <2>8. Elements(t.inb) \subseteq cs
      BY <2>1, NoneDistinct DEF Elements
    <2>9. Move(n, p, s, t, x, cs, {})
      BY <2>3, <2>4, <2>5, <2>6, <2>7, <2>8 DEF Move, SessMove
    <2> QED BY <1>6, <2>1, <2>9 DEF SameTrust, KeepsMarker, t
  <1>8. CASE DropsSession(b, t)
    <2>1. /\ t \in PeerState /\ t.sess = NoSession /\ t.out = b.out
          /\ t.pend = <<>> /\ t.inb = s.inb /\ t.envs = s.envs
          /\ t.peer = s.peer /\ t.addr = s.addr /\ t.dh = s.dh
          /\ t.notice = s.notice /\ t.thread = s.thread
      BY <1>0, <1>8 DEF DropsSession, Beside
    <2>2. New(s, t) = {}
      BY <2>1 DEF New, MadeReady
    <2>3. Silent(s, t) /\ Ends(s, t)
      BY <2>1, <2>2 DEF Silent, Ends
    <2>4. TrustMove(s, t, cs)
      BY <2>1, <2>2 DEF TrustMove
    <2>5. t.sess.re = 0 /\ t.sess.ready = FALSE
      BY <2>1 DEF NoSession
    <2>6. KeyMove(n, p, s, t)
      BY <1>4, <1>5, <2>1, <2>5 DEF KeyMove
    <2>7. Move(n, p, s, t, x, cs, {})
      BY <2>1, <2>3, <2>4, <2>6, SilentMove DEF Move, SessMove
    <2> QED BY <1>6, <2>1, <2>7 DEF SameTrust, KeepsMarker, t
  <1> QED BY <1>1, <1>7, <1>8

\* Verifying a peer is a move.
LEMMA VerifyMove ==
  ASSUME NEW n \in Node, NEW p \in Node, NEW s \in PeerState, s.out = {},
         NEW x \in Nat, NEW cs, Elements(s.inb) \subseteq cs
  PROVE  LET t == try_send_verify_notice(n, p,
                      [s EXCEPT !.peer.exists = TRUE, !.peer.verified = TRUE,
                                !.thread = TextRows(@), !.notice = TRUE])
         IN  Move(n, p, s, t, x, cs, {})
  <1> DEFINE q == [s.peer EXCEPT !.exists = TRUE, !.verified = TRUE]
             th == TextRows(s.thread)
             b == [s EXCEPT !.peer.exists = TRUE, !.peer.verified = TRUE,
                            !.thread = TextRows(@), !.notice = TRUE]
             t == try_send_verify_notice(n, p, b)
  <1>1. /\ q \in [exists : BOOLEAN, verified : BOOLEAN, petname : BOOLEAN]
        /\ q.exists = TRUE /\ q.verified = TRUE
        /\ th \in [Row -> Nat]
    BY TextRowsType DEF PeerState
  <1>2. \A y \in Body : th[Theirs(y)] \in {0, s.thread[Theirs(y)]}
    BY TheirsType DEF TextRows
  <1>3. b = [s EXCEPT !.peer = q, !.thread = th, !.notice = TRUE]
    BY DEF PeerState
  <1>4. /\ b \in PeerState /\ b.sess = s.sess /\ b.out = {}
        /\ b.pend = s.pend /\ b.inb = s.inb /\ b.envs = s.envs
        /\ b.addr = s.addr /\ b.dh = s.dh /\ b.peer = q /\ b.thread = th
    <2> HIDE DEF b, q, th
    <2> QED BY <1>1, <1>3 DEF PeerState
  <1> HIDE DEF b, q, th
  <1>5. /\ Works(n, p, b, t) /\ Beside(b, t)
        /\ \A y \in Body \cup {KeyChanged} : t.thread[Theirs(y)] = b.thread[Theirs(y)]
        /\ \A m \in New(b, t) : m.body = "notice" /\ b.notice
    BY <1>4, NoticeWorks
  <1>6. Plain(n, p, b, t) /\ (~b.addr => t.out = b.out)
    BY <1>4, NoticePlain, NoticeUnheard
  <1>7. ~Ready(b) => t = b
    BY DEF try_send_verify_notice
  <1> HIDE DEF t
  <1>8. /\ t \in PeerState /\ t.sess.role = s.sess.role /\ t.sess.own = s.sess.own
        /\ t.sess.ready = s.sess.ready /\ t.sess.re = s.sess.re /\ t.sess.rs = s.sess.rs
        /\ t.pend = s.pend /\ t.inb = s.inb /\ t.envs = s.envs
        /\ t.addr = s.addr /\ t.dh = s.dh /\ t.peer = q
    BY <1>4, <1>5 DEF Works, Beside, HalfOf
  <1>9. New(s, t) = New(b, t) /\ (~Ready(s) => New(s, t) = {})
    BY <1>4, <1>7 DEF New, Ready
  <1>10. s.sess.sendN \in Nat /\ s.sess.recvN \in Nat
    BY DEF PeerState, Session
  <1>11. GoesOn(n, p, s, t)
    <2>1. \A m : Under(n, p, b.sess, m) => Under(n, p, t.sess, m)
      BY <1>4, <1>8 DEF Under, KeyI, KeyR
    <2> QED BY <1>4, <1>5, <1>8, <1>9, <1>10, <2>1 DEF GoesOn, Works, Ready
  <1>12. TextMove(s, t, {})
    BY <1>5, <1>8, <1>9, TextIsNoControl DEF TextMove, Single, HeldSet
  <1>13. Takes(s, t, cs)
    <2>1. \A y \in Body : ~(t.thread[Theirs(y)] > s.thread[Theirs(y)])
      <3> SUFFICES ASSUME NEW y \in Body PROVE ~(t.thread[Theirs(y)] > s.thread[Theirs(y)])
        OBVIOUS
      <3>1. t.thread[Theirs(y)] = 0 \/ t.thread[Theirs(y)] = s.thread[Theirs(y)]
        BY <1>2, <1>4, <1>5
      <3>2. s.thread[Theirs(y)] \in Nat
        BY TheirsType
      <3> QED BY <3>1, <3>2
    <2> QED BY <2>1 DEF Takes
  <1>14. TrustMove(s, t, cs)
    BY <1>1, <1>5, <1>8, <1>9 DEF TrustMove
  <1>15. AwayMove(s, t)
    BY <1>8 DEF AwayMove
  <1>16. \A m \in t.out : ~IsHandshake(m)
    BY <1>4, <1>6 DEF Plain, Ciphertext, IsHandshake
  <1>17. KeyMove(n, p, s, t)
    BY <1>1, <1>4, <1>6, <1>8, <1>16 DEF KeyMove
  <1>18. Move(n, p, s, t, x, cs, {})
    BY <1>8, <1>11, <1>12, <1>13, <1>14, <1>15, <1>17 DEF Move, SessMove
  <1> QED BY <1>18 DEF t, b

-----------------------------------------------------------------------------
(***************************************************************************)
(* The invariants, each about the state of n about p, the ciphertexts from *)
(* n to p that p may still read, and the state of p about n.               *)
(***************************************************************************)
Known(n, p) == {m \in net : m.type = "dm" /\ m.src = n /\ m.dst = p}
                  \cup Elements(st[p][n].inb)

\* m is of a session that s has, or would be if its keys are read differently.
Concerns(s, m) == HasSession(s) /\ (s.sess.own = m.i \/ s.sess.own = m.r)

\* Ciphertexts go from n to p and are no younger than the keys drawn so far.
Addressed(n, p) ==
    \A m \in Known(n, p) : /\ m \in Ciphertext /\ m.src = n /\ m.dst = p
                           /\ m.i < next /\ m.r < next

\* Only a ready session has ciphertexts, all of them below its sending nonce;
\* and no two have the same keys and nonce.
NoncesBelow(n, p) ==
    \A m \in Known(n, p) : Concerns(st[n][p], m) =>
        /\ Ready(st[n][p])
        /\ m.i = KeyI(st[n][p].sess) /\ m.r = KeyR(st[n][p].sess)
              => m.nonce < st[n][p].sess.sendN
NoncesDiffer(n, p) ==
    \A a, b \in Known(n, p) : a.i = b.i /\ a.r = b.r /\ a.nonce = b.nonce => a = b

NonceInv == \A n, p \in Node : n # p =>
               Addressed(n, p) /\ NoncesBelow(n, p) /\ NoncesDiffer(n, p)

\* Whoever n owes a notice, has sent one in the present session, or can have
\* an ack from in it, is verified.
Trusted(n, p) ==
    LET s == st[n][p]
    IN  /\ s.notice => s.peer.verified
        /\ s.thread[Theirs("ack")] > 0 => s.peer.verified
        /\ \A m \in Known(n, p) :
              m.body = "notice" /\ Concerns(s, m) => s.peer.verified
        /\ \A m \in Known(p, n) :
              m.body = "ack" /\ Concerns(s, m) => s.peer.verified

TrustInv == \A n, p \in Node : n # p => Trusted(n, p)

\* Only texts that were sent are anywhere; what n holds is in no ciphertext;
\* and a text has one ciphertext.
Kept(n, p) ==
    /\ Single(st[n][p]) /\ HeldSet(st[n][p]) \subseteq sent
    /\ \A m \in Known(n, p) :
          m.body \in Text => m.body \in sent /\ m.body \notin HeldSet(st[n][p])
    /\ \A a, b \in Known(n, p) : a.body \in Text /\ a.body = b.body => a = b

\* The session s cannot read the ciphertext m.
Past(s, m) ==
    Concerns(s, m) =>
        /\ Ready(s)
        /\ m.i = KeyI(s.sess) /\ m.r = KeyR(s.sess) => m.nonce < s.sess.recvN

\* A text in the thread of p is there once, n does not hold it any more, and
\* the session of p cannot read its ciphertext again.
Shown(n, p) ==
    \A x \in Text : st[p][n].thread[Theirs(x)] > 0 =>
        /\ x \in sent /\ x \notin HeldSet(st[n][p]) /\ st[p][n].thread[Theirs(x)] = 1
        /\ \A m \in Known(n, p) : m.body = x => Past(st[p][n], m)

TextInv == \A n, p \in Node : n # p => Kept(n, p) /\ Shown(n, p)

\* A ready session has a recorded peer with an announced key, a peer in reach
\* has a record, and the key of a session with an unrecorded peer has never
\* left n.
Between(m, n, p) == (m.src = n /\ m.dst = p) \/ (m.src = p /\ m.dst = n)

Recorded(s) == /\ Ready(s) => s.peer.exists /\ s.dh # NoKey
               /\ s.addr => s.peer.exists
               /\ HasSession(s) => s.sess.own > 0

Unpublished(n, p) ==
    LET s == st[n][p]
        r == st[p][n]
    IN  HasSession(s) /\ ~s.peer.exists =>
            /\ \A m \in net : IsHandshake(m) /\ Between(m, n, p) =>
                  m.i # s.sess.own /\ (m.type # "msg1" => m.r # s.sess.own)
            /\ r.sess.own # s.sess.own /\ r.sess.re # s.sess.own

KeyInv == /\ \A n \in Node : dhkey[n] # NoKey
          /\ \A n, p \in Node : n # p => Recorded(st[n][p]) /\ Unpublished(n, p)

DInv == IInv /\ Proved!PairInv /\ NonceInv /\ TrustInv /\ TextInv /\ KeyInv

(***************************************************************************)
(* The actions.  A step of n about p, given the texts F, that ends in t.   *)
(***************************************************************************)
TrustEvent == {"verify", "unverify", "forget", "petname", "wipe"}
MarkerEvent == {"verify", "unverify", "forget", "wipe"}

MoveStep(n, p, t, F) ==
    /\ n # p
    /\ Move(n, p, st[n][p], t, next, Known(p, n), F)
    /\ Commit(n, p, t)
    /\ net' \subseteq net \cup t.out
    /\ dhkey' = dhkey
    /\ F \subseteq Text /\ F \cap sent = {} /\ sent' = sent \cup F
    /\ SameTrust(st[n][p], t) \/ \E ev \in TrustEvent : used'[ev] # used[ev]
    /\ KeepsMarker(st[n][p], t) \/ \E ev \in MarkerEvent : used'[ev] # used[ev]

\* What the invariant says of the row that such a step starts from.
LEMMA MoveRow ==
  ASSUME DInv, NEW n \in Node, NEW p \in Node, n # p
  PROVE  /\ st[n][p] \in PeerState /\ st[n][p].out = {}
         /\ Ready(st[n][p]) => HasSession(st[n][p])
         /\ Single(st[n][p])
         /\ Elements(st[n][p].inb) \subseteq Known(p, n)
         /\ next \in Nat /\ dhkey[p] \in Nat /\ dhkey[p] # NoKey
  <1>1. /\ st[n][p] \in PeerState /\ st[n][p].out = {}
        /\ next \in Nat /\ dhkey[p] \in Nat
    BY RowFacts DEF DInv
  <1>2. Proved!Aged(Halves[n][p], next)
    BY DEF DInv, Proved!PairInv
  <1>3. Halves[n][p] = HalfOf(st[n][p].sess)
    BY DEF Halves
  <1>4. Ready(st[n][p]) => HasSession(st[n][p])
    BY <1>2, <1>3 DEF Proved!Aged, HalfOf, Ready, HasSession
  <1>5. Single(st[n][p]) /\ dhkey[p] # NoKey
    BY DEF DInv, TextInv, Kept, KeyInv, Recorded
  <1>6. Elements(st[n][p].inb) \subseteq Known(p, n)
    BY DEF Known
  <1> QED BY <1>1, <1>4, <1>5, <1>6

\* A bounded event is counted.
LEMMA SpendCounts ==
  ASSUME IInv, NEW ev \in Event, Spend(ev)
  PROVE  used'[ev] # used[ev]
  BY DEF IInv, TypeOK, Spend

LEMMA CommandMove ==
  ASSUME DInv, NEW ev \in Event, NEW n \in Node, NEW p \in Node, NEW t, NEW F,
         Command(ev, n, p, t),
         Move(n, p, st[n][p], t, next, Known(p, n), F),
         F \subseteq Text, F \cap sent = {}, sent' = sent \cup F,
         SameTrust(st[n][p], t) \/ ev \in TrustEvent,
         KeepsMarker(st[n][p], t) \/ ev \in MarkerEvent
  PROVE  MoveStep(n, p, t, F)
  <1>1. used'[ev] # used[ev]
    BY SpendCounts DEF DInv, Command
  <1> QED BY <1>1 DEF MoveStep, Command

LEMMA ReceiveMove ==
  ASSUME DInv, NEW m \in net, NEW t, Receive(m, t),
         Move(m.dst, m.src, At(m), t, next, Known(m.src, m.dst), {}),
         SameTrust(At(m), t), KeepsMarker(At(m), t)
  PROVE  MoveStep(m.dst, m.src, t, {})
  <1>1. m.dst # m.src
    BY PacketFacts DEF DInv
  <1>2. net' \subseteq net \cup t.out /\ Commit(m.dst, m.src, t)
        /\ dhkey' = dhkey /\ sent' = sent
    BY DEF Receive
  <1> QED BY <1>1, <1>2 DEF MoveStep, At

\* The marker stays where the thread does.
LEMMA SameThread ==
  ASSUME NEW s \in PeerState, NEW t, t.thread = s.thread
  PROVE  KeepsMarker(s, t)
  <1>1. s.thread[Marker] \in Nat
    BY DEF PeerState, Row, Marker
  <1> QED BY <1>1 DEF KeepsMarker

\* What dropping the state about a peer leaves.
LEMMA DropKeeps ==
  ASSUME NEW s \in PeerState, s.out = {}
  PROVE  LET t == drop_peer_session_state(s)
         IN  /\ t \in PeerState /\ t.sess = NoSession /\ t.out = {}
             /\ t.pend = <<>> /\ t.inb = <<>> /\ t.envs = s.envs
             /\ t.notice = FALSE /\ t.addr = s.addr /\ t.dh = s.dh
             /\ t.peer = s.peer /\ t.thread = s.thread
  <1>1. NoSession \in Session /\ <<>> \in Seq(Text) /\ <<>> \in Seq(Ciphertext)
    BY SessionTypes
  <1> QED BY <1>1 DEF drop_peer_session_state, PeerState

\* A session that begins keeps the rest of the row.
LEMMA BeginMove ==
  ASSUME NEW n \in Node, NEW p \in Node, NEW s \in PeerState, s.out = {},
         NEW b \in PeerState, b.out = {}, b.sess = s.sess, b.pend = s.pend,
         b.envs = s.envs, b.peer = s.peer, b.addr = s.addr, b.dh = s.dh,
         b.notice = s.notice, b.thread = s.thread,
         NEW x \in Nat, NEW cs, Elements(b.inb) \subseteq cs
  PROVE  LET t == begin_handshake(n, p, b, x)
         IN  Move(n, p, s, t, x, cs, {}) /\ SameTrust(s, t) /\ KeepsMarker(s, t)
  <1> DEFINE t == begin_handshake(n, p, b, x)
  <1>1. /\ t \in PeerState /\ t.sess = new_initiator(x)
        /\ \A m \in t.out : m = Msg1(n, p, x)
    BY BeginBegun DEF Begun
  <1>2. /\ t.inb = b.inb /\ t.envs = b.envs /\ t.peer = b.peer /\ t.addr = b.addr
        /\ t.dh = b.dh /\ t.notice = b.notice /\ t.pend = b.pend
        /\ t.thread = b.thread
        /\ ~b.addr => t.out = b.out
    BY DEF begin_handshake, send_directed, PeerState
  <1> HIDE DEF t
  <1>3. New(s, t) = {}
    BY <1>1 DEF New, Msg1
  <1>4. Silent(s, t)
    BY <1>1, <1>2, <1>3 DEF Silent
  <1>5. t.out = {} \/ t.addr
    BY <1>2
  <1>6. Move(n, p, s, t, x, cs, {})
    BY <1>1, <1>2, <1>4, <1>5, StartMove
  <1> QED BY <1>2, <1>6, SameThread DEF SameTrust, t

\* Every command of a user is such a step.
LEMMA UserMoves ==
  ASSUME DInv, NEW n \in Node, NEW p \in Node, UserStep(n, p)
  PROVE  \E t, F : MoveStep(n, p, t, F)
  <1> DEFINE row == st[n][p]
             cs == Known(p, n)
  <1>0. n # p
    BY DEF UserStep, SendDm, VerifyPeer, UnverifyPeer, ForgetPeer, StartDmSession,
           SetPetname, Command
  <1>1. /\ row \in PeerState /\ row.out = {} /\ next \in Nat
        /\ Ready(row) => HasSession(row)
        /\ Elements(row.inb) \subseteq cs
    BY <1>0, MoveRow
  <1>2. \A y \in Body : row.thread[Theirs(y)] \in Nat
    BY <1>1, TheirsType
  <1> HIDE DEF row, cs
  <1>3. CASE \E x \in Text : SendDm(n, p, x)
    <2>1. PICK x \in Text : SendDm(n, p, x)
      BY <1>3
    <2> DEFINE q == <<x>>
               t == send_dms(n, p, row, q, next)
    <2>2. q \in Seq(Text) /\ Distinct(q) /\ Elements(q) = {x}
      BY OneDistinct
    <2>3. Command("send", n, p, t) /\ {x} \cap sent = {} /\ sent' = sent \cup {x}
      BY <2>1 DEF SendDm, row
    <2> HIDE DEF q
    <2>4. Sends(n, p, row, t, next) /\ TextMove(row, t, Elements(q))
      BY <1>1, <2>2, SendMove
    <2>5. Plain(n, p, row, t) \/ Begun(n, p, row, t, next)
      BY <1>1, <2>2, SendCases
    <2> HIDE DEF t
    <2>6. TextMove(row, t, {x})
      BY <2>2, <2>4
    <2>7. Move(n, p, row, t, next, cs, {x})
      BY <1>1, <2>4, <2>5, <2>6, SendsMove
    <2>8. SameTrust(row, t) /\ KeepsMarker(row, t)
      <3>1. row.thread[Marker] \in Nat /\ t.thread[Marker] = row.thread[Marker]
        <4>1. Marker = Theirs(KeyChanged)
          BY DEF Marker, Theirs
        <4> QED BY <1>1, <2>4, <4>1, TheirsType DEF Sends, SameTheirs
      <3> QED BY <2>4, <3>1 DEF Sends, SameTrust, KeepsMarker
    <2>9. "send" \in Event
      BY DEF Event
    <2>10. MoveStep(n, p, t, {x})
      BY <2>3, <2>7, <2>8, <2>9, CommandMove DEF row, cs
    <2> QED BY <2>10
  <1>4. CASE VerifyPeer(n, p)
    <2> DEFINE t == try_send_verify_notice(n, p,
                      [row EXCEPT !.peer.exists = TRUE, !.peer.verified = TRUE,
                                  !.thread = TextRows(@), !.notice = TRUE])
    <2>1. Command("verify", n, p, t) /\ sent' = sent \cup {}
      BY <1>4 DEF VerifyPeer, row
    <2>2. Move(n, p, row, t, next, cs, {})
      BY <1>1, VerifyMove
    <2> HIDE DEF t
    <2>3. "verify" \in Event /\ "verify" \in TrustEvent /\ "verify" \in MarkerEvent
      BY DEF Event, TrustEvent, MarkerEvent
    <2>4. MoveStep(n, p, t, {})
      BY <2>1, <2>2, <2>3, CommandMove DEF row, cs
    <2> QED BY <2>4
  <1>5. CASE UnverifyPeer(n, p)
    <2> DEFINE q == [row.peer EXCEPT !.verified = FALSE]
               th == TextRows(row.thread)
               b == [row EXCEPT !.peer.verified = FALSE, !.thread = TextRows(@)]
               t == drop_peer_session_state(b)
    <2>1. /\ q \in [exists : BOOLEAN, verified : BOOLEAN, petname : BOOLEAN]
          /\ q.exists = row.peer.exists
          /\ th \in [Row -> Nat]
      BY <1>1, TextRowsType DEF PeerState
    <2>2. b = [row EXCEPT !.peer = q, !.thread = th]
      BY <1>1 DEF PeerState
    <2>3. /\ \A y \in Body : th[Theirs(y)] \in {0, row.thread[Theirs(y)]}
          /\ th[Theirs("ack")] = 0
      <3>1. "ack" \in Body /\ "ack" \notin Text
        BY TextIsNoControl DEF Body, Control
      <3>2. \A y \in Body : Theirs(y) \in Row /\ Theirs(y)[2] = y
        BY DEF Theirs, Row
      <3>3. \A y \in Body : th[Theirs(y)] = IF y \in Text THEN row.thread[Theirs(y)] ELSE 0
        BY <3>2 DEF TextRows
      <3> QED BY <3>1, <3>3
    <2>4. /\ b \in PeerState /\ b.out = {} /\ b.envs = row.envs /\ b.addr = row.addr
          /\ b.dh = row.dh /\ b.peer = q /\ b.thread = th
      <3> HIDE DEF b, q, th
      <3> QED BY <1>1, <2>1, <2>2 DEF PeerState
    <2>5. Command("unverify", n, p, t) /\ sent' = sent \cup {}
      BY <1>5 DEF UnverifyPeer, row
    <2> HIDE DEF b, q, th
    <2>6. /\ t \in PeerState /\ t.sess = NoSession /\ t.out = {}
          /\ t.pend = <<>> /\ t.inb = <<>> /\ t.envs = row.envs
          /\ t.notice = FALSE /\ t.addr = row.addr /\ t.dh = row.dh
          /\ t.peer = q /\ t.thread = th
      BY <2>4, DropKeeps
    <2> HIDE DEF t
    <2>7. New(row, t) = {} /\ Elements(t.inb) \subseteq cs
      BY <2>6, NoneDistinct DEF New
    <2>8. Silent(row, t)
      BY <2>3, <2>6, <2>7 DEF Silent
    <2>9. Move(n, p, row, t, next, cs, {})
      BY <1>1, <2>1, <2>3, <2>6, <2>7, <2>8, EndMove
    <2>10. "unverify" \in Event /\ "unverify" \in TrustEvent /\ "unverify" \in MarkerEvent
      BY DEF Event, TrustEvent, MarkerEvent
    <2>11. MoveStep(n, p, t, {})
      BY <2>5, <2>9, <2>10, CommandMove DEF row, cs
    <2> QED BY <2>11
  <1>6. CASE ForgetPeer(n, p)
    <2> DEFINE b == [row EXCEPT !.peer = Forgotten.peer, !.thread = Forgotten.thread,
                                !.addr = FALSE]
               t == drop_peer_session_state(b)
    <2>1. /\ Forgotten.peer \in [exists : BOOLEAN, verified : BOOLEAN, petname : BOOLEAN]
          /\ Forgotten.thread \in [Row -> Nat]
          /\ \A y \in Body : Forgotten.thread[Theirs(y)] = 0
      BY DEF Forgotten, Theirs, Row
    <2>2. /\ b \in PeerState /\ b.out = {} /\ b.envs = row.envs /\ b.addr = FALSE
          /\ b.dh = row.dh /\ b.thread = Forgotten.thread
      BY <1>1, <2>1 DEF PeerState
    <2>3. Command("forget", n, p, t) /\ sent' = sent \cup {}
      BY <1>6 DEF ForgetPeer, row
    <2> HIDE DEF b
    <2>4. /\ t \in PeerState /\ t.sess = NoSession /\ t.out = {}
          /\ t.pend = <<>> /\ t.inb = <<>> /\ t.envs = row.envs
          /\ t.notice = FALSE /\ t.addr = FALSE /\ t.dh = row.dh
          /\ t.thread = Forgotten.thread
      BY <2>2, DropKeeps
    <2> HIDE DEF t
    <2>5. New(row, t) = {} /\ Elements(t.inb) \subseteq cs
      BY <2>4, NoneDistinct DEF New
    <2>6. Silent(row, t)
      BY <2>1, <2>4, <2>5 DEF Silent
    <2>7. t.thread[Theirs("ack")] = 0
      BY <2>1, <2>4 DEF Body, Control
    <2>8. Move(n, p, row, t, next, cs, {})
      BY <1>1, <2>4, <2>5, <2>6, <2>7, EndMove
    <2>9. "forget" \in Event /\ "forget" \in TrustEvent /\ "forget" \in MarkerEvent
      BY DEF Event, TrustEvent, MarkerEvent
    <2>10. MoveStep(n, p, t, {})
      BY <2>3, <2>8, <2>9, CommandMove DEF row, cs
    <2> QED BY <2>10
  <1>7. CASE StartDmSession(n, p)
    <2> DEFINE t == begin_handshake(n, p, row, next)
    <2>1. Move(n, p, row, t, next, cs, {}) /\ SameTrust(row, t) /\ KeepsMarker(row, t)
      BY <1>1, BeginMove
    <2>2. Command("start", n, p, t) /\ sent' = sent \cup {}
      BY <1>7 DEF StartDmSession, row
    <2> HIDE DEF t
    <2>3. "start" \in Event
      BY DEF Event
    <2>4. MoveStep(n, p, t, {})
      BY <2>1, <2>2, <2>3, CommandMove DEF row, cs
    <2> QED BY <2>4
  <1>8. CASE \E named \in BOOLEAN : SetPetname(n, p, named)
    <2>1. PICK named \in BOOLEAN : SetPetname(n, p, named)
      BY <1>8
    <2> DEFINE q == [row.peer EXCEPT !.exists = TRUE, !.petname = named]
               t == [row EXCEPT !.peer.exists = TRUE, !.peer.petname = named]
    <2>2. /\ q \in [exists : BOOLEAN, verified : BOOLEAN, petname : BOOLEAN]
          /\ q.exists = TRUE /\ q.verified = row.peer.verified
      BY <1>1 DEF PeerState
    <2>3. t = [row EXCEPT !.peer = q]
      BY <1>1 DEF PeerState
    <2>4. /\ t \in PeerState /\ t.sess = row.sess /\ t.out = {}
          /\ t.pend = row.pend /\ t.inb = row.inb /\ t.envs = row.envs
          /\ t.notice = row.notice /\ t.addr = row.addr /\ t.dh = row.dh
          /\ t.thread = row.thread /\ t.peer = q
      <3> HIDE DEF t, q
      <3> QED BY <1>1, <2>2, <2>3 DEF PeerState
    <2>5. Command("petname", n, p, t) /\ sent' = sent \cup {}
      BY <2>1 DEF SetPetname, row
    <2> HIDE DEF t, q
    <2>6. Silent(row, t)
      BY <1>1, <2>4 DEF Silent, New
    <2>7. Move(n, p, row, t, next, cs, {})
      BY <1>1, <2>2, <2>4, <2>6, StillMove
    <2>8. "petname" \in Event /\ "petname" \in TrustEvent /\ KeepsMarker(row, t)
      BY <1>1, <2>4, SameThread DEF Event, TrustEvent
    <2>9. MoveStep(n, p, t, {})
      BY <2>5, <2>7, <2>8, CommandMove DEF row, cs
    <2> QED BY <2>9
  <1> QED BY <1>3, <1>4, <1>5, <1>6, <1>7, <1>8 DEF UserStep

\* So are the announces and the retries.
LEMMA TimedMoves ==
  ASSUME DInv, NEW n \in Node, NEW p \in Node,
         \/ ReceiveAnnounce(n, p)
         \/ \E k \in 1 .. dhkey[p] : ReceiveStaleAnnounce(n, p, k)
         \/ RetryStalledHandshake(n, p)
  PROVE  \E t, F : MoveStep(n, p, t, F)
  <1> DEFINE row == st[n][p]
             cs == Known(p, n)
  <1>0. n # p
    BY DEF ReceiveAnnounce, ReceiveStaleAnnounce, RetryStalledHandshake, Command
  <1>1. /\ row \in PeerState /\ row.out = {} /\ next \in Nat /\ Single(row)
        /\ Ready(row) => HasSession(row)
        /\ Elements(row.inb) \subseteq cs
        /\ dhkey[p] \in Nat /\ dhkey[p] # NoKey
    BY <1>0, MoveRow
  <1> HIDE DEF row, cs
  <1>3. CASE ReceiveAnnounce(n, p)
    <2> DEFINE t == handle_announce(n, p, row, dhkey[p], next)
    <2>1. Move(n, p, row, t, next, cs, {}) /\ SameTrust(row, t) /\ KeepsMarker(row, t)
      BY <1>1, AnnounceMove
    <2>2. /\ Commit(n, p, t) /\ net' = net \cup t.out
          /\ dhkey' = dhkey /\ sent' = sent
      BY <1>3 DEF ReceiveAnnounce, row
    <2> HIDE DEF t
    <2>3. MoveStep(n, p, t, {})
      BY <1>0, <2>1, <2>2 DEF MoveStep, row, cs
    <2> QED BY <2>3
  <1>4. CASE \E k \in 1 .. dhkey[p] : ReceiveStaleAnnounce(n, p, k)
    <2>1. PICK k \in 1 .. dhkey[p] : ReceiveStaleAnnounce(n, p, k)
      BY <1>4
    <2> DEFINE t == handle_announce(n, p, row, k, next)
    <2>2. k \in Nat /\ k # NoKey
      BY <1>1, <2>1 DEF NoKey
    <2>3. Move(n, p, row, t, next, cs, {}) /\ SameTrust(row, t) /\ KeepsMarker(row, t)
      BY <1>1, <2>2, AnnounceMove
    <2>4. Command("stale", n, p, t) /\ sent' = sent \cup {}
      BY <2>1 DEF ReceiveStaleAnnounce, row
    <2> HIDE DEF t
    <2>5. "stale" \in Event
      BY DEF Event
    <2>6. MoveStep(n, p, t, {})
      BY <2>3, <2>4, <2>5, CommandMove DEF row, cs
    <2> QED BY <2>6
  <1>5. CASE RetryStalledHandshake(n, p)
    <2> DEFINE t == begin_handshake(n, p, row, next)
    <2>1. Move(n, p, row, t, next, cs, {}) /\ SameTrust(row, t) /\ KeepsMarker(row, t)
      BY <1>1, BeginMove
    <2>2. /\ Commit(n, p, t) /\ net' = net \cup t.out
          /\ dhkey' = dhkey /\ sent' = sent
      BY <1>5 DEF RetryStalledHandshake, row
    <2> HIDE DEF t
    <2>3. MoveStep(n, p, t, {})
      BY <1>0, <2>1, <2>2 DEF MoveStep, row, cs
    <2> QED BY <2>3
  <1> QED BY <1>3, <1>4, <1>5

\* Answering a packet is a step.
LEMMA RespondMove ==
  ASSUME DInv, NEW m \in net, NEW s \in PeerState, s.out = {}, Respond(m, s),
         IsHandshake(m),
         s.pend = At(m).pend, s.inb = At(m).inb, s.envs = At(m).envs,
         s.peer = At(m).peer, s.addr = At(m).addr, s.dh = At(m).dh,
         s.notice = At(m).notice, s.thread = At(m).thread
  PROVE  \E t, F : MoveStep(m.dst, m.src, t, F)
  <1> DEFINE n == m.dst
             p == m.src
             row == At(m)
             e == FirstKey(m)
             a == IF s.attempts = Absent THEN 0 ELSE s.attempts
             b == [s EXCEPT !.sess = new_responder(next, e), !.last = TRUE,
                            !.attempts = IF @ = Absent THEN 0 ELSE @]
             k == Msg2(n, p, e, next, dhkey[n])
             t == send_directed(b, {k})
  <1>1. n \in Node /\ p \in Node /\ n # p /\ next \in Nat /\ next > 0 /\ dhkey[n] \in Nat
    BY PacketFacts DEF DInv, IInv, TypeOK
  <1>2. row \in PeerState /\ row.out = {} /\ Elements(row.inb) \subseteq Known(p, n)
    BY <1>1, MoveRow DEF At
  <1>3. Heard(n, p, e) /\ e \in Ephemeral
    <2>1. m.type \in {"msg1", "msg2", "msg3"}
      BY DEF IsHandshake
    <2>2. e = IF m.type = "msg1" THEN m.i ELSE IF m.type = "msg2" THEN m.r ELSE Garbage
      BY <2>1 DEF FirstKey
    <2>3. Heard(n, p, e)
      BY <2>1, <2>2 DEF Heard
    <2>4. e \in Ephemeral
      BY <2>1, <2>2, PacketFacts DEF DInv, Ephemeral
    <2> QED BY <2>3, <2>4
  <1>4. new_responder(next, e) \in Session
    BY <1>1, <1>3, SessionTypes
  <1>5. /\ b \in PeerState /\ b.sess = new_responder(next, e) /\ b.out = {}
        /\ b.pend = s.pend /\ b.inb = s.inb /\ b.envs = s.envs /\ b.peer = s.peer
        /\ b.addr = s.addr /\ b.dh = s.dh /\ b.notice = s.notice /\ b.thread = s.thread
    <2>1. a \in {Absent} \cup Nat
      BY DEF PeerState
    <2>2. b = [s EXCEPT !.sess = new_responder(next, e), !.last = TRUE, !.attempts = a]
      BY DEF PeerState
    <2> HIDE DEF a, b, e
    <2> QED BY <1>4, <2>1, <2>2 DEF PeerState
  <1>6. {k} \in SUBSET Packet
    BY <1>1, <1>3 DEF Msg2, Packet, Handshake23, Key
  <1>7. Receive(m, t)
    BY DEF Respond
  <1> HIDE DEF b, k, e
  <1>8. /\ t \in PeerState /\ t.sess = b.sess
        /\ \A j \in t.out : j = k
        /\ t.pend = b.pend /\ t.inb = b.inb /\ t.envs = b.envs /\ t.peer = b.peer
        /\ t.addr = b.addr /\ t.dh = b.dh /\ t.notice = b.notice /\ t.thread = b.thread
        /\ ~b.addr => t.out = {}
    <2>1. /\ t \in PeerState /\ t.sess = b.sess
          /\ \A j \in t.out : j \in b.out \/ j \in {k}
      BY <1>5, <1>6, SendDirectedType
    <2>2. /\ t.pend = b.pend /\ t.inb = b.inb /\ t.envs = b.envs /\ t.peer = b.peer
          /\ t.addr = b.addr /\ t.dh = b.dh /\ t.notice = b.notice /\ t.thread = b.thread
          /\ ~b.addr => t.out = b.out
      BY <1>5 DEF send_directed, PeerState
    <2> HIDE DEF t
    <2> QED BY <1>5, <2>1, <2>2
  <1> HIDE DEF t
  <1>9. New(row, t) = {}
    BY <1>8 DEF New, k, Msg2
  <1>10. Silent(row, t)
    BY <1>5, <1>8, <1>9 DEF Silent
  <1>11. /\ t.sess = new_responder(next, e)
         /\ \A j \in t.out : j = Msg2(n, p, e, next, dhkey[n])
    BY <1>5, <1>8 DEF k
  <1>12. /\ t.addr = row.addr /\ (t.out = {} \/ t.addr) /\ t.dh = row.dh
         /\ t.notice = row.notice /\ t.peer = row.peer /\ t.thread = row.thread
         /\ t.inb = row.inb
    BY <1>5, <1>8
  <1> HIDE DEF row
  <1>13. Move(n, p, row, t, next, Known(p, n), {})
    BY <1>1, <1>2, <1>3, <1>10, <1>11, <1>12, StartMove
  <1>14. SameTrust(row, t) /\ KeepsMarker(row, t)
    BY <1>2, <1>12, SameThread DEF SameTrust
  <1>15. MoveStep(m.dst, m.src, t, {})
    BY <1>7, <1>13, <1>14, ReceiveMove DEF row
  <1> QED BY <1>15

\* The initiator's end of an exchange is a step.
LEMMA InitiatorMove ==
  ASSUME DInv, NEW m \in net, CompleteInitiator(m)
  PROVE  \E t, F : MoveStep(m.dst, m.src, t, F)
  <1> DEFINE n == m.dst
             p == m.src
             row == At(m)
             e == [row.sess EXCEPT !.ready = TRUE, !.re = m.r, !.rs = m.s]
             s == [row EXCEPT !.sess.ready = TRUE, !.sess.re = m.r, !.sess.rs = m.s,
                              !.last = TRUE]
             k == Msg3(n, p, m.i, m.r, dhkey[n])
             b == send_directed(s, {k})
             t == finish_session(n, p, b)
  <1>1. /\ row.sess.role = "init" /\ ~row.sess.ready /\ m.type = "msg2"
        /\ m.i = row.sess.own /\ Receive(m, t) /\ row.dh # NoKey
    BY DEF CompleteInitiator, Handshaking, Ready, AnswersMe, Resolved
  <1>2. /\ n \in Node /\ p \in Node /\ n # p
        /\ m.i \in Ephemeral /\ m.r \in Nat /\ m.s \in Nat /\ next \in Nat
    BY <1>1, PacketFacts DEF DInv, IInv, TypeOK
  <1>3. /\ row \in PeerState /\ row.out = {} /\ row.sess \in Session /\ dhkey[n] \in Nat
        /\ Elements(row.inb) \subseteq Known(p, n)
    BY <1>2, RowFacts, MoveRow DEF At, DInv
  <1>4. /\ e \in Session /\ e.ready = TRUE /\ e.role = row.sess.role
        /\ e.own = row.sess.own /\ e.re = m.r
        /\ e.sendN = row.sess.sendN /\ e.recvN = row.sess.recvN
    <2> HIDE DEF row
    <2> QED BY <1>2, <1>3 DEF Session, Key, Ephemeral
  <1>5. s = [row EXCEPT !.sess = e, !.last = TRUE]
    BY <1>3 DEF PeerState, Session
  <1>6. /\ s \in PeerState /\ s.sess = e /\ s.out = {} /\ Beside(row, s)
        /\ s.notice = row.notice /\ s.thread = row.thread
    <2> HIDE DEF row, e, s
    <2> QED BY <1>3, <1>4, <1>5 DEF PeerState, Beside
  <1>7. {k} \in SUBSET Packet
    BY <1>2, <1>3 DEF Msg3, Packet, Handshake23, Key
  <1>8. k.src = n /\ k.dst = p /\ k.i = m.i /\ k.r = m.r /\ k.type = "msg3"
    BY DEF Msg3
  <1> HIDE DEF s, k, e
  <1>9. /\ b \in PeerState /\ b.sess = e /\ \A j \in b.out : j = k /\ s.addr
        /\ Beside(row, b) /\ b.notice = row.notice /\ b.thread = row.thread
    <2>1. \A j \in b.out : j \in s.out \/ j \in {k}
      BY <1>6, <1>7, SendDirectedType
    <2>2. Beside(s, b) /\ b.notice = s.notice /\ b.thread = s.thread
          /\ (~s.addr => b.out = s.out)
      BY <1>6 DEF send_directed, PeerState, Beside
    <2>3. b \in PeerState /\ b.sess = e
      BY <1>6, <1>7, SendDirectedType
    <2> HIDE DEF b, row
    <2> QED BY <1>6, <2>1, <2>2, <2>3 DEF Beside
  <1> HIDE DEF b
  <1>10. MadeReady(row, b)
    BY <1>1, <1>4, <1>8, <1>9 DEF MadeReady
  <1>11. Heard(n, p, m.i) /\ Heard(n, p, m.r)
    BY <1>1 DEF Heard, IsHandshake
  <1>12. Heard(n, p, row.sess.own) /\ Heard(n, p, b.sess.re)
    BY <1>1, <1>4, <1>9, <1>11
  <1>13. \A j \in b.out : /\ j.src = n /\ j.dst = p /\ row.addr
                          /\ Heard(n, p, j.i) /\ Heard(n, p, j.r)
    BY <1>6, <1>8, <1>9, <1>11 DEF Beside
  <1> HIDE DEF row
  <1>14. /\ Move(n, p, row, t, next, Known(p, n), {})
         /\ SameTrust(row, t) /\ KeepsMarker(row, t)
    BY <1>1, <1>2, <1>3, <1>10, <1>12, <1>13, FinishMove
  <1> HIDE DEF t
  <1>15. MoveStep(m.dst, m.src, t, {})
    BY <1>1, <1>14, ReceiveMove DEF row
  <1> QED BY <1>15

\* And so is the responder's.
LEMMA ResponderMove ==
  ASSUME DInv, NEW m \in net, CompleteResponder(m)
  PROVE  \E t, F : MoveStep(m.dst, m.src, t, F)
  <1> DEFINE n == m.dst
             p == m.src
             row == At(m)
             e == [row.sess EXCEPT !.ready = TRUE, !.rs = m.s]
             b == [row EXCEPT !.sess.ready = TRUE, !.sess.rs = m.s, !.last = TRUE]
             t == finish_session(n, p, b)
  <1>1. /\ row.sess.role = "resp" /\ ~row.sess.ready /\ m.type = "msg3"
        /\ m.r = row.sess.own /\ Receive(m, t) /\ row.dh # NoKey
    BY DEF CompleteResponder, Handshaking, Ready, ClosesMine, Resolved
  <1>2. n \in Node /\ p \in Node /\ n # p /\ m.s \in Nat /\ next \in Nat
    BY <1>1, PacketFacts DEF DInv, IInv, TypeOK
  <1>3. /\ row \in PeerState /\ row.out = {} /\ row.sess \in Session
        /\ Elements(row.inb) \subseteq Known(p, n)
    BY <1>2, RowFacts, MoveRow DEF At, DInv
  <1>4. /\ e \in Session /\ e.ready = TRUE /\ e.role = row.sess.role
        /\ e.own = row.sess.own /\ e.re = row.sess.re
        /\ e.sendN = row.sess.sendN /\ e.recvN = row.sess.recvN
    <2> HIDE DEF row
    <2> QED BY <1>2, <1>3 DEF Session, Key
  <1>5. b = [row EXCEPT !.sess = e, !.last = TRUE]
    BY <1>3 DEF PeerState, Session
  <1>6. /\ b \in PeerState /\ b.sess = e /\ b.out = {} /\ Beside(row, b)
        /\ b.notice = row.notice /\ b.thread = row.thread
    <2> HIDE DEF row, e, b
    <2> QED BY <1>3, <1>4, <1>5 DEF PeerState, Beside
  <1> HIDE DEF b, e
  <1>7. MadeReady(row, b)
    BY <1>1, <1>4, <1>6 DEF MadeReady
  <1>8. Heard(n, p, row.sess.own) /\ b.sess.re = row.sess.re
    BY <1>1, <1>4, <1>6 DEF Heard, IsHandshake
  <1> HIDE DEF row
  <1>9. /\ Move(n, p, row, t, next, Known(p, n), {})
        /\ SameTrust(row, t) /\ KeepsMarker(row, t)
    BY <1>1, <1>2, <1>3, <1>6, <1>7, <1>8, FinishMove
  <1> HIDE DEF t
  <1>10. MoveStep(m.dst, m.src, t, {})
    BY <1>1, <1>9, ReceiveMove DEF row
  <1> QED BY <1>10

\* Every delivery of a packet is a step of its recipient about its sender.
LEMMA PacketMoves ==
  ASSUME DInv, NEW m \in net, PacketStep(m)
  PROVE  \E t, F : MoveStep(m.dst, m.src, t, F)
  <1> DEFINE n == m.dst
             p == m.src
             row == At(m)
             cs == Known(p, n)
  <1>1. n \in Node /\ p \in Node /\ n # p /\ next \in Nat
    BY PacketFacts DEF DInv, IInv, TypeOK
  <1>2. /\ row \in PeerState /\ row.out = {}
        /\ Elements(row.inb) \subseteq cs
    BY <1>1, MoveRow DEF At
  <1>3. m.type = "dm" => m \in Ciphertext /\ m \in cs
    BY PacketFacts DEF DInv, Known
  <1> HIDE DEF row, cs
  <1>4. \A t : /\ Receive(m, t) /\ Move(n, p, row, t, next, cs, {})
               /\ SameTrust(row, t) /\ KeepsMarker(row, t)
               => MoveStep(m.dst, m.src, t, {})
    BY ReceiveMove DEF row, cs
  <1>5. \A t \in PeerState :
           /\ t.sess = row.sess /\ t.out = {} /\ t.pend = row.pend
           /\ Elements(t.inb) \subseteq cs /\ t.envs = row.envs
           /\ t.addr = row.addr /\ t.dh = row.dh /\ t.notice = row.notice
           /\ t.peer = row.peer /\ t.thread = row.thread
           => /\ Move(n, p, row, t, next, cs, {})
              /\ SameTrust(row, t) /\ KeepsMarker(row, t)
    <2> SUFFICES ASSUME NEW t \in PeerState,
                        t.sess = row.sess, t.out = {}, t.pend = row.pend,
                        Elements(t.inb) \subseteq cs, t.envs = row.envs,
                        t.addr = row.addr, t.dh = row.dh, t.notice = row.notice,
                        t.peer = row.peer, t.thread = row.thread
                 PROVE  /\ Move(n, p, row, t, next, cs, {})
                        /\ SameTrust(row, t) /\ KeepsMarker(row, t)
      OBVIOUS
    <2>1. Silent(row, t)
      BY <1>2 DEF Silent, New
    <2>2. Move(n, p, row, t, next, cs, {})
      BY <1>1, <1>2, <2>1, StillMove
    <2> QED BY <1>2, <2>2, SameThread DEF SameTrust
  <1>6. CASE ReceiveUnresolved(m) \/ KeepInitiating(m)
    <2>1. Receive(m, row)
      BY <1>6 DEF ReceiveUnresolved, KeepInitiating, row
    <2> QED BY <1>2, <1>4, <1>5, <2>1
  <1>7. CASE IgnoreRetransmit(m)
    <2> DEFINE q == [row EXCEPT !.resync = @ + 1]
    <2>1. /\ q \in PeerState /\ q.sess = row.sess /\ q.out = {} /\ q.pend = row.pend
          /\ q.inb = row.inb /\ q.envs = row.envs
          /\ q.addr = row.addr /\ q.dh = row.dh /\ q.notice = row.notice
          /\ q.peer = row.peer /\ q.thread = row.thread
      <3>1. row.resync + 1 \in Nat
        BY <1>2 DEF PeerState
      <3> QED BY <1>2, <3>1 DEF PeerState
    <2>2. Receive(m, q)
      BY <1>7 DEF IgnoreRetransmit, row
    <2> HIDE DEF q
    <2> QED BY <1>2, <1>4, <1>5, <2>1, <2>2
  <1>8. CASE SupersedeZombie(m)
    <2> DEFINE q == [row EXCEPT !.resync = 0]
    <2>1. /\ q \in PeerState /\ q.out = {} /\ q.pend = row.pend
          /\ q.inb = row.inb /\ q.envs = row.envs
          /\ q.addr = row.addr /\ q.dh = row.dh /\ q.notice = row.notice
          /\ q.peer = row.peer /\ q.thread = row.thread
      BY <1>2 DEF PeerState
    <2>2. Respond(m, q) /\ IsHandshake(m)
      BY <1>8 DEF SupersedeZombie, row
    <2> HIDE DEF q
    <2> QED BY <2>1, <2>2, RespondMove DEF row
  <1>9. CASE YieldAndRespond(m) \/ RespondFresh(m)
    <2>1. Respond(m, row) /\ IsHandshake(m)
      BY <1>9 DEF YieldAndRespond, RespondFresh, Glare, IsHandshake, row
    <2> QED BY <1>2, <2>1, RespondMove DEF row
  <1>10. CASE FailRead(m)
    <2> DEFINE q == [row EXCEPT !.sess = NoSession]
    <2>1. /\ q \in PeerState /\ q.sess = NoSession /\ q.out = {} /\ q.pend = row.pend
          /\ q.inb = row.inb /\ q.envs = row.envs
          /\ q.addr = row.addr /\ q.dh = row.dh /\ q.notice = row.notice
          /\ q.peer = row.peer /\ q.thread = row.thread
      <3>1. NoSession \in Session
        BY SessionTypes
      <3> QED BY <1>2, <3>1 DEF PeerState
    <2>2. Receive(m, q)
      BY <1>10 DEF FailRead, row
    <2> HIDE DEF q
    <2>3. Silent(row, q)
      BY <1>2, <2>1 DEF Silent, New
    <2>4. Move(n, p, row, q, next, cs, {})
      BY <1>1, <1>2, <2>1, <2>3, EndMove
    <2>5. SameTrust(row, q) /\ KeepsMarker(row, q)
      BY <1>2, <2>1, SameThread DEF SameTrust
    <2> QED BY <1>4, <2>2, <2>4, <2>5
  <1>11. CASE BufferEarlyDm(m)
    <2> DEFINE z == [row EXCEPT !.inb = Append(@, m)]
               kept == IF Len(row.inb) < InboundCap THEN z ELSE row
               q == IF HasSession(row) THEN kept ELSE begin_handshake(n, p, kept, next)
    <2>1. m \in Ciphertext /\ m \in cs
      BY <1>3, <1>11 DEF BufferEarlyDm
    <2>2. /\ Append(row.inb, m) \in Seq(Ciphertext)
          /\ Elements(Append(row.inb, m)) \subseteq cs
      <3>1. row.inb \in Seq(Ciphertext)
        BY <1>2 DEF PeerState
      <3>2. \A j \in DOMAIN Append(row.inb, m) :
               Append(row.inb, m)[j] = m \/ Append(row.inb, m)[j] \in Elements(row.inb)
        <4> DEFINE w == Append(row.inb, m)
        <4>1. /\ Len(w) = Len(row.inb) + 1 /\ Len(row.inb) \in Nat
              /\ \A j \in 1 .. Len(row.inb) : w[j] = row.inb[j]
              /\ w[Len(row.inb) + 1] = m
              /\ DOMAIN w = 1 .. Len(w) /\ DOMAIN row.inb = 1 .. Len(row.inb)
          BY <2>1, <3>1, AppendProperties
        <4> HIDE DEF w
        <4>2. \A j \in DOMAIN w : j = Len(row.inb) + 1 \/ j \in 1 .. Len(row.inb)
          BY <4>1
        <4>3. \A j \in DOMAIN w : w[j] = m \/ w[j] \in Elements(row.inb)
          BY <4>1, <4>2 DEF Elements
        <4> QED BY <4>3 DEF w
      <3>3. Append(row.inb, m) \in Seq(Ciphertext)
        BY <2>1, <3>1
      <3> DEFINE w == Append(row.inb, m)
      <3>4. \A j \in DOMAIN w : w[j] \in cs
        BY <1>2, <2>1, <3>2
      <3> HIDE DEF w
      <3>5. Elements(w) \subseteq cs
        BY <3>4 DEF Elements
      <3> QED BY <3>3, <3>5 DEF w
    <2>3. /\ z \in PeerState /\ z.sess = row.sess /\ z.out = {} /\ z.pend = row.pend
          /\ Elements(z.inb) \subseteq cs /\ z.envs = row.envs
          /\ z.addr = row.addr /\ z.dh = row.dh /\ z.notice = row.notice
          /\ z.peer = row.peer /\ z.thread = row.thread
      <3> DEFINE w == Append(row.inb, m)
      <3>1. z = [row EXCEPT !.inb = w]
        BY <1>2 DEF PeerState
      <3>2. w \in Seq(Ciphertext) /\ Elements(w) \subseteq cs
        BY <2>2
      <3> HIDE DEF w, z
      <3> QED BY <1>2, <3>1, <3>2 DEF PeerState
    <2>4. Receive(m, q)
      BY <1>11 DEF BufferEarlyDm, row
    <2> HIDE DEF z
    <2>5. /\ kept \in PeerState /\ kept.sess = row.sess /\ kept.out = {}
          /\ kept.pend = row.pend
          /\ Elements(kept.inb) \subseteq cs /\ kept.envs = row.envs
          /\ kept.addr = row.addr /\ kept.dh = row.dh /\ kept.notice = row.notice
          /\ kept.peer = row.peer /\ kept.thread = row.thread
      BY <1>2, <2>3
    <2> HIDE DEF kept
    <2>6. CASE HasSession(row)
      <3>1. Receive(m, kept)
        BY <2>4, <2>6
      <3> QED BY <1>4, <1>5, <2>5, <3>1
    <2>7. CASE ~HasSession(row)
      <3> DEFINE t == begin_handshake(n, p, kept, next)
      <3>1. Receive(m, t)
        BY <2>4, <2>7
      <3>2. Move(n, p, row, t, next, cs, {}) /\ SameTrust(row, t) /\ KeepsMarker(row, t)
        BY <1>1, <1>2, <2>5, BeginMove
      <3> HIDE DEF t
      <3> QED BY <1>4, <3>1, <3>2
    <2> QED BY <2>6, <2>7
  <1>12. CASE ReceiveDm(m)
    <2> DEFINE q == decrypt_and_emit(n, p, row, <<m>>)
    <2>1. m \in Ciphertext /\ m \in cs /\ Ready(row)
      BY <1>3, <1>12 DEF ReceiveDm, row
    <2>2. Move(n, p, row, q, next, cs, {}) /\ SameTrust(row, q) /\ KeepsMarker(row, q)
      BY <1>1, <1>2, <2>1, DecryptMove
    <2>3. Receive(m, q)
      BY <1>12 DEF ReceiveDm, row
    <2> HIDE DEF q
    <2> QED BY <1>4, <2>2, <2>3
  <1>13. CASE CompleteInitiator(m)
    BY <1>13, InitiatorMove
  <1>14. CASE CompleteResponder(m)
    BY <1>14, ResponderMove
  <1> QED BY <1>6, <1>7, <1>8, <1>9, <1>10, <1>11, <1>12, <1>13, <1>14
          DEF PacketStep, HandshakeStep

\* The other steps leave a row, lose all of it that is not stored, or all.
IdleRow(s, t) ==
    /\ t \in PeerState /\ t.out = {}
    /\ \/ /\ t.sess = s.sess /\ t.pend = s.pend /\ t.inb = s.inb
          /\ t.envs = s.envs /\ t.notice = s.notice /\ t.addr = s.addr
          /\ t.dh = s.dh /\ t.peer = s.peer /\ t.thread = s.thread
       \/ /\ t.sess = NoSession /\ t.pend = <<>> /\ t.inb = <<>>
          /\ ~t.notice /\ ~t.addr
          /\ \/ t.envs = s.envs /\ t.peer = s.peer /\ t.thread = s.thread
             \/ /\ t.envs = <<>> /\ ~t.peer.exists
                /\ \A b \in Body : t.thread[Theirs(b)] = 0
                /\ \E ev \in MarkerEvent : used'[ev] # used[ev]

Idle ==
    /\ st' \in [Node -> [Node -> PeerState]]
    /\ \A n, p \in Node : IdleRow(st[n][p], st'[n][p])
    /\ net' \subseteq net /\ next' = next /\ sent' = sent
    /\ \A n \in Node : dhkey'[n] \in {dhkey[n], dhkey[n] + 1}

LEMMA IdleSteps ==
  ASSUME DInv,
         \/ \E n \in Node : NodeStep(n)
         \/ \E n, p \in Node : AgeEnvelopes(n, p)
         \/ \E m \in net : Lose(m)
  PROVE  Idle
  <1>1. /\ st \in [Node -> [Node -> PeerState]] /\ dhkey \in [Node -> Nat] /\ IInv
    BY DEF DInv, IInv, TypeOK
  <1>2. \A a, b \in Node : st[a][b].out = {} /\ st[a][b] \in PeerState
    BY <1>1, RowFacts
  <1>3. \A a, b \in Node : IdleRow(st[a][b], st[a][b])
    BY <1>2 DEF IdleRow
  <1>4. st' \in [Node -> [Node -> PeerState]]
    BY <1>1, QuietSteps DEF Quiet
  <1>5. CASE \E n \in Node : NodeStep(n)
    <2>1. PICK n \in Node : NodeStep(n)
      BY <1>5
    <2>2. NoSession \in Session /\ <<>> \in Seq(Text) /\ <<>> \in Seq(Ciphertext)
          /\ [r \in Row |-> 0] \in [Row -> Nat]
      BY SessionTypes
    <2>3. /\ Forgotten \in PeerState /\ Forgotten.out = {}
          /\ Forgotten.sess = NoSession /\ Forgotten.pend = <<>> /\ Forgotten.inb = <<>>
          /\ ~Forgotten.notice /\ ~Forgotten.addr /\ Forgotten.envs = <<>>
          /\ ~Forgotten.peer.exists
          /\ \A b \in Body : Forgotten.thread[Theirs(b)] = 0
      <3>1. Forgotten \in PeerState /\ Forgotten.thread = [r \in Row |-> 0]
        BY <2>2 DEF Forgotten, PeerState, NoKey, Key
      <3>2. \A b \in Body : Theirs(b) \in Row
        BY DEF Theirs, Row
      <3> QED BY <3>1, <3>2 DEF Forgotten
    <2>4. \A s \in PeerState : IdleRow(s, Restarted(s))
      <3> SUFFICES ASSUME NEW s \in PeerState PROVE IdleRow(s, Restarted(s))
        OBVIOUS
      <3> DEFINE t == Restarted(s)
      <3>1. /\ t \in PeerState /\ t.out = {} /\ t.sess = NoSession /\ t.pend = <<>>
            /\ t.inb = <<>> /\ t.notice = Forgotten.notice /\ t.addr = Forgotten.addr
            /\ t.envs = s.envs /\ t.peer = s.peer /\ t.thread = s.thread
        BY <2>3 DEF Restarted, PeerState
      <3> HIDE DEF t
      <3>2. IdleRow(s, t)
        BY <2>3, <3>1 DEF IdleRow
      <3> QED BY <3>2 DEF t
    <2>5. /\ net' = net /\ next' = next /\ sent' = sent
          /\ \A a \in Node : dhkey'[a] \in {dhkey[a], dhkey[a] + 1}
      BY <1>1, <2>1 DEF NodeStep, PanicWipe, Restart, Upgrade, WholeNode
    <2>6. CASE PanicWipe(n)
      <3>1. st' = [st EXCEPT ![n] = [p \in Node |-> Forgotten]] /\ Spend("wipe")
        BY <2>6 DEF PanicWipe, WholeNode
      <3>2. "wipe" \in MarkerEvent /\ used'["wipe"] # used["wipe"]
        BY <1>1, <3>1, SpendCounts DEF Event, MarkerEvent
      <3>3. \A s : IdleRow(s, Forgotten)
        BY <2>3, <3>2 DEF IdleRow
      <3>4. \A a, p \in Node : st'[a][p] = IF a = n THEN Forgotten ELSE st[a][p]
        BY <1>1, <3>1
      <3>5. \A a, p \in Node : IdleRow(st[a][p], st'[a][p])
        BY <1>3, <3>3, <3>4
      <3> QED BY <1>4, <2>5, <3>5 DEF Idle
    <2>7. CASE Restart(n) \/ Upgrade(n)
      <3>1. st' = [st EXCEPT ![n] = [p \in Node |-> Restarted(st[n][p])]]
        BY <2>7 DEF Restart, Upgrade, WholeNode
      <3>2. \A a, p \in Node : st'[a][p] = IF a = n THEN Restarted(st[a][p]) ELSE st[a][p]
        BY <1>1, <3>1
      <3>3. \A a, p \in Node : IdleRow(st[a][p], st'[a][p])
        BY <1>2, <1>3, <2>4, <3>2
      <3> QED BY <1>4, <2>5, <3>3 DEF Idle
    <2> QED BY <2>1, <2>6, <2>7 DEF NodeStep
  <1>6. CASE \E n, p \in Node : AgeEnvelopes(n, p)
    <2>1. PICK n \in Node, p \in Node : AgeEnvelopes(n, p)
      BY <1>6
    <2> DEFINE q == [st[n][p] EXCEPT !.aged = Len(st[n][p].envs)]
    <2>2. st' = [st EXCEPT ![n][p] = q]
      BY <1>1, <2>1 DEF AgeEnvelopes
    <2>3. IdleRow(st[n][p], q)
      <3>1. Len(st[n][p].envs) \in Nat /\ st[n][p] \in PeerState /\ st[n][p].out = {}
        BY <1>2 DEF PeerState
      <3> QED BY <3>1 DEF PeerState, IdleRow
    <2> HIDE DEF q
    <2>4. \A a, b \in Node : IdleRow(st[a][b], st'[a][b])
      BY <1>1, <1>3, <2>2, <2>3
    <2>5. UNCHANGED <<dhkey, net, next, sent>>
      BY <2>1 DEF AgeEnvelopes
    <2> QED BY <1>4, <2>4, <2>5 DEF Idle
  <1>7. CASE \E m \in net : Lose(m)
    <2>1. PICK m \in net : Lose(m)
      BY <1>7
    <2>2. UNCHANGED <<st, dhkey, next, sent>> /\ net' \subseteq net
      BY <2>1 DEF Lose
    <2> QED BY <1>3, <1>4, <2>2 DEF Idle
  <1> QED BY <1>5, <1>6, <1>7

\* Every step is one or the other.
LEMMA MoveCases ==
  ASSUME DInv, Next
  PROVE  (\E n, p \in Node : \E t, F : MoveStep(n, p, t, F)) \/ Idle
  <1>1. ASSUME NEW n \in Node, NEW p \in Node,
               \/ UserStep(n, p)
               \/ ReceiveAnnounce(n, p)
               \/ \E k \in 1 .. dhkey[p] : ReceiveStaleAnnounce(n, p, k)
               \/ RetryStalledHandshake(n, p)
        PROVE  \E t, F : MoveStep(n, p, t, F)
    BY <1>1, UserMoves, TimedMoves
  <1>2. ASSUME NEW m \in net, PacketStep(m)
        PROVE  \E n, p \in Node : \E t, F : MoveStep(n, p, t, F)
    BY <1>2, PacketFacts, PacketMoves DEF DInv
  <1> QED BY <1>1, <1>2, IdleSteps DEF Next

-----------------------------------------------------------------------------
(***************************************************************************)
(* Every step preserves the invariants.  First what a step of n about p    *)
(* leaves alone, and which ciphertexts it adds.                            *)
(***************************************************************************)
Framed(n, p, t) ==
    /\ t \in PeerState /\ st'[n][p] = [t EXCEPT !.out = {}]
    /\ st'[n][p].sess = t.sess /\ st'[n][p].pend = t.pend
    /\ st'[n][p].inb = t.inb /\ st'[n][p].envs = t.envs
    /\ st'[n][p].notice = t.notice /\ st'[n][p].addr = t.addr
    /\ st'[n][p].dh = t.dh /\ st'[n][p].peer = t.peer
    /\ st'[n][p].thread = t.thread
    /\ \A a, b \in Node : a # n \/ b # p => st'[a][b] = st[a][b]
    /\ next \in Nat /\ next' \in Nat /\ next <= next'
    /\ t.sess.own \in Nat /\ t.sess.own < next'
    /\ t.sess.re \in Int /\ t.sess.re < next'
    /\ t.sess.ready => t.sess.role # "none"
    /\ \A m \in New(st[n][p], t) :
          m.type = "dm" /\ m \in Ciphertext /\ m.src = n /\ m.dst = p
    /\ \A m \in t.out : m.type = "dm" => m \in New(st[n][p], t)

LEMMA MoveFrame ==
  ASSUME DInv, IInv', Proved!PairInv', NEW n \in Node, NEW p \in Node, NEW t, NEW F,
         MoveStep(n, p, t, F)
  PROVE  Framed(n, p, t)
  <1>1. t \in PeerState /\ SessMove(n, p, st[n][p], t, next)
    BY DEF MoveStep, Move
  <1>2. st \in [Node -> [Node -> PeerState]] /\ next \in Nat
    BY DEF DInv, IInv, TypeOK
  <1>3. /\ st' = [st EXCEPT ![n][p] = [t EXCEPT !.out = {}]]
        /\ next' = IF t.sess.own = next THEN next + 1 ELSE next
    BY DEF MoveStep, Commit
  <1>4. st'[n][p] = [t EXCEPT !.out = {}]
    BY <1>2, <1>3
  <1>5. \A a, b \in Node : a # n \/ b # p => st'[a][b] = st[a][b]
    BY <1>2, <1>3
  <1>6. /\ st'[n][p].sess = t.sess /\ st'[n][p].pend = t.pend
        /\ st'[n][p].inb = t.inb /\ st'[n][p].envs = t.envs
        /\ st'[n][p].notice = t.notice /\ st'[n][p].addr = t.addr
        /\ st'[n][p].dh = t.dh /\ st'[n][p].peer = t.peer
        /\ st'[n][p].thread = t.thread
    BY <1>1, <1>4 DEF PeerState
  <1>7. next' \in Nat /\ next <= next'
    BY <1>2, <1>3
  <1>8. /\ t.sess \in Session /\ t.sess.own \in Nat /\ t.sess.re \in Int
    BY <1>1 DEF PeerState, Session, Ephemeral, Garbage
  <1>9. Proved!Aged(Halves[n][p], next)'
    BY DEF Proved!PairInv
  <1>10. Halves[n][p]' = HalfOf(t.sess)
    BY <1>6 DEF Halves
  <1>11. /\ t.sess.own < next' /\ t.sess.re < next'
         /\ t.sess.ready => t.sess.role # "none"
    BY <1>9, <1>10 DEF Proved!Aged, HalfOf
  <1>12. \A m \in New(st[n][p], t) :
             m.type = "dm" /\ m \in Ciphertext /\ m.src = n /\ m.dst = p
    BY <1>1 DEF SessMove, GoesOn, Ends, Starts, Under, Ciphertext
  <1>13. \A m \in t.out : m.type = "dm" => m \in New(st[n][p], t)
    <2>1. st[n][p].out = {}
      BY RowFacts DEF DInv
    <2> QED BY <2>1 DEF New
  <1> QED BY <1>1, <1>2, <1>4, <1>5, <1>6, <1>7, <1>8, <1>11, <1>12, <1>13 DEF Framed

\* The ciphertexts after a step.
LEMMA MoveKnown ==
  ASSUME DInv, IInv', Proved!PairInv', NEW n \in Node, NEW p \in Node, NEW t, NEW F,
         MoveStep(n, p, t, F)
  PROVE  /\ Known(n, p)' \subseteq Known(n, p) \cup New(st[n][p], t)
         /\ \A a, b \in Node : a # b /\ (a # n \/ b # p) => Known(a, b)' \subseteq Known(a, b)
  <1>1. n # p /\ net' \subseteq net \cup t.out /\ Elements(t.inb) \subseteq Known(p, n)
    BY DEF MoveStep, Move
  <1>2. /\ st'[n][p].inb = t.inb
        /\ \A a, b \in Node : a # n \/ b # p => st'[a][b] = st[a][b]
        /\ \A m \in New(st[n][p], t) : m.src = n /\ m.dst = p
        /\ \A m \in t.out : m.type = "dm" => m \in New(st[n][p], t)
    <2>1. Framed(n, p, t)
      BY MoveFrame
    <2> QED BY <2>1 DEF Framed
  <1>3. Known(n, p)' \subseteq Known(n, p) \cup New(st[n][p], t)
    <2>1. st'[p][n] = st[p][n]
      BY <1>1, <1>2
    <2> QED BY <1>1, <1>2, <2>1 DEF Known
  <1>4. ASSUME NEW a \in Node, NEW b \in Node, a # b, a # n \/ b # p
        PROVE  Known(a, b)' \subseteq Known(a, b)
    <2>1. \A m \in net' : m.type = "dm" /\ m.src = a /\ m.dst = b => m \in net
      BY <1>1, <1>2, <1>4
    <2>2. CASE a = p /\ b = n
      <3>1. Elements(st'[b][a].inb) \subseteq Known(a, b)
        BY <1>1, <1>2, <2>2
      <3> QED BY <2>1, <3>1 DEF Known
    <2>3. CASE ~(a = p /\ b = n)
      <3>1. st'[b][a] = st[b][a]
        BY <1>2, <2>3
      <3> QED BY <2>1, <3>1 DEF Known
    <2> QED BY <2>2, <2>3
  <1> QED BY <1>3, <1>4

\* The ciphertexts after a step that is about no peer.
LEMMA IdleKnown ==
  ASSUME Idle, NEW n \in Node, NEW p \in Node
  PROVE  Known(n, p)' \subseteq Known(n, p)
  <1>1. net' \subseteq net /\ IdleRow(st[p][n], st'[p][n])
    BY DEF Idle
  <1>2. Elements(st'[p][n].inb) \subseteq Elements(st[p][n].inb)
    BY <1>1, NoneDistinct DEF IdleRow
  <1> QED BY <1>1, <1>2 DEF Known

\* The keys of a row and of the packets are older than the next one.
LEMMA Older ==
  ASSUME DInv, NEW n \in Node, NEW p \in Node
  PROVE  /\ st[n][p].sess.own \in Nat /\ st[n][p].sess.own < next
         /\ st[n][p].sess.re \in Int /\ st[n][p].sess.re < next
         /\ st[n][p].sess.sendN \in Nat /\ st[n][p].sess.recvN \in Nat
         /\ Ready(st[n][p]) => HasSession(st[n][p])
  <1>1. st[n][p].sess \in Session /\ st[n][p].sess.own < next
    BY RowFacts DEF DInv
  <1>2. Proved!Aged(Halves[n][p], next)
    BY DEF DInv, Proved!PairInv
  <1>3. Halves[n][p] = HalfOf(st[n][p].sess)
    BY DEF Halves
  <1> QED BY <1>1, <1>2, <1>3
          DEF Proved!Aged, HalfOf, Session, Ephemeral, Garbage, Ready, HasSession

(***************************************************************************)
(* The nonces.                                                             *)
(***************************************************************************)
LEMMA NonceMove ==
  ASSUME DInv, IInv', Proved!PairInv', NEW n \in Node, NEW p \in Node, NEW t, NEW F,
         MoveStep(n, p, t, F)
  PROVE  NonceInv'
  <1> DEFINE s == st[n][p]
             N == New(st[n][p], t)
  <1>1. n # p /\ SessMove(n, p, s, t, next)
    BY DEF MoveStep, Move
  <1>2. /\ st'[n][p].sess = t.sess /\ t \in PeerState
        /\ \A a, b \in Node : a # n \/ b # p => st'[a][b] = st[a][b]
        /\ next \in Nat /\ next' \in Nat /\ next <= next'
        /\ t.sess.own \in Nat /\ t.sess.own < next'
        /\ t.sess.re \in Int /\ t.sess.re < next'
        /\ t.sess.ready => t.sess.role # "none"
        /\ \A m \in N : m \in Ciphertext /\ m.src = n /\ m.dst = p
    <2>1. Framed(n, p, t)
      BY MoveFrame
    <2> QED BY <2>1 DEF Framed
  <1>3. /\ Known(n, p)' \subseteq Known(n, p) \cup N
        /\ \A a, b \in Node : a # b /\ (a # n \/ b # p) => Known(a, b)' \subseteq Known(a, b)
    BY MoveKnown
  <1>4. Addressed(n, p) /\ NoncesBelow(n, p) /\ NoncesDiffer(n, p)
    BY <1>1 DEF DInv, NonceInv
  <1>5. /\ s.sess.own \in Nat /\ s.sess.own < next
        /\ s.sess.sendN \in Nat /\ t.sess.sendN \in Nat
    BY <1>2, Older DEF PeerState, Session
  <1> HIDE DEF s, N
  <1>6. \A m \in Known(n, p) : /\ m \in Ciphertext /\ m.src = n /\ m.dst = p
                               /\ m.i \in Int /\ m.r \in Int /\ m.nonce \in Nat
                               /\ m.i < next /\ m.r < next
    BY <1>4 DEF Addressed, Ciphertext, Ephemeral, Garbage
  <1>7. ASSUME GoesOn(n, p, s, t), NEW m \in N
        PROVE  /\ m.i = KeyI(t.sess) /\ m.r = KeyR(t.sess) /\ t.sess.ready
               /\ s.sess.sendN <= m.nonce /\ m.nonce < t.sess.sendN
               /\ m.nonce \in Nat /\ m.i < next' /\ m.r < next'
    <2>1. /\ m.i = KeyI(t.sess) /\ m.r = KeyR(t.sess) /\ t.sess.ready
          /\ s.sess.sendN <= m.nonce /\ m.nonce < t.sess.sendN
      BY <1>7 DEF GoesOn, Under, N, s
    <2>2. m.nonce \in Nat
      BY <1>2, <1>7 DEF Ciphertext
    <2>3. m.i < next' /\ m.r < next'
      BY <1>2, <2>1 DEF KeyI, KeyR
    <2> QED BY <2>1, <2>2, <2>3
  <1>8. ~GoesOn(n, p, s, t) => N = {}
    BY <1>1 DEF SessMove, Ends, Starts, N, s
  <1>9. ASSUME GoesOn(n, p, s, t), NEW m \in Known(n, p), t.sess.role # "none",
               t.sess.own = m.i \/ t.sess.own = m.r
        PROVE  /\ s.sess.ready /\ t.sess.ready
               /\ KeyI(t.sess) = KeyI(s.sess) /\ KeyR(t.sess) = KeyR(s.sess)
               /\ m.i = KeyI(t.sess) /\ m.r = KeyR(t.sess) => m.nonce < s.sess.sendN
    <2>1. t.sess.role = s.sess.role /\ t.sess.own = s.sess.own
      BY <1>9 DEF GoesOn
    <2>2. Concerns(s, m)
      BY <1>9, <2>1 DEF Concerns, HasSession
    <2>3. s.sess.ready /\ (m.i = KeyI(s.sess) /\ m.r = KeyR(s.sess) => m.nonce < s.sess.sendN)
      BY <1>4, <1>9, <2>2 DEF NoncesBelow, Ready, s
    <2>4. t.sess.ready /\ t.sess.re = s.sess.re
      BY <1>9, <2>3 DEF GoesOn
    <2>5. KeyI(t.sess) = KeyI(s.sess) /\ KeyR(t.sess) = KeyR(s.sess)
      BY <2>1, <2>4 DEF KeyI, KeyR
    <2> QED BY <2>3, <2>4, <2>5
  <1>10. Addressed(n, p)'
    <2> SUFFICES ASSUME NEW m \in Known(n, p)'
                 PROVE  /\ m \in Ciphertext /\ m.src = n /\ m.dst = p
                        /\ m.i < next' /\ m.r < next'
      BY DEF Addressed
    <2>1. CASE m \in Known(n, p)
      BY <1>2, <1>6, <2>1
    <2>2. CASE m \in N
      BY <1>2, <1>7, <1>8, <2>2
    <2> QED BY <1>3, <2>1, <2>2
  <1>11. NoncesBelow(n, p)'
    <2> SUFFICES ASSUME NEW m \in Known(n, p)', t.sess.role # "none",
                        t.sess.own = m.i \/ t.sess.own = m.r
                 PROVE  /\ t.sess.ready
                        /\ m.i = KeyI(t.sess) /\ m.r = KeyR(t.sess)
                              => m.nonce < t.sess.sendN
      BY <1>2 DEF NoncesBelow, Concerns, HasSession, Ready
    <2>1. CASE GoesOn(n, p, s, t)
      <3>1. CASE m \in N
        BY <1>7, <2>1, <3>1
      <3>2. CASE m \in Known(n, p)
        <4>1. s.sess.sendN <= t.sess.sendN
          BY <2>1 DEF GoesOn
        <4> QED BY <1>5, <1>6, <1>9, <2>1, <3>2, <4>1
      <3> QED BY <1>3, <3>1, <3>2
    <2>2. CASE Ends(s, t)
      BY <2>2 DEF Ends, NoSession
    <2>3. CASE Starts(s, t, next)
      <3>1. m \in Known(n, p) /\ t.sess.own = next
        BY <1>3, <2>3 DEF Starts, N, s
      <3> QED BY <1>2, <1>6, <3>1
    <2> QED BY <1>1, <2>1, <2>2, <2>3 DEF SessMove
  <1>12. NoncesDiffer(n, p)'
    <2> SUFFICES ASSUME NEW a \in Known(n, p)', NEW b \in Known(n, p)',
                        a.i = b.i, a.r = b.r, a.nonce = b.nonce
                 PROVE  a = b
      BY DEF NoncesDiffer
    <2>1. CASE a \in Known(n, p) /\ b \in Known(n, p)
      BY <1>4, <2>1 DEF NoncesDiffer
    <2>2. ASSUME NEW x \in Known(n, p), NEW y \in N,
                 x.i = y.i, x.r = y.r, x.nonce = y.nonce
          PROVE  FALSE
      <3>1. GoesOn(n, p, s, t)
        BY <1>8, <2>2
      <3>2. /\ y.i = KeyI(t.sess) /\ y.r = KeyR(t.sess) /\ t.sess.ready
            /\ s.sess.sendN <= y.nonce
        BY <1>7, <2>2, <3>1
      <3>3. t.sess.own = x.i \/ t.sess.own = x.r
        BY <2>2, <3>2 DEF KeyI, KeyR
      <3>4. x.nonce < s.sess.sendN
        BY <1>2, <1>9, <2>2, <3>1, <3>2, <3>3
      <3> QED BY <1>5, <1>6, <2>2, <3>2, <3>4
    <2>3. CASE a \in N /\ b \in N
      <3>1. GoesOn(n, p, s, t)
        BY <1>8, <2>3
      <3> QED BY <2>3, <3>1 DEF GoesOn, N, s
    <2> QED BY <1>3, <2>1, <2>2, <2>3
  <1>13. ASSUME NEW a \in Node, NEW b \in Node, a # b, a # n \/ b # p
         PROVE  Addressed(a, b)' /\ NoncesBelow(a, b)' /\ NoncesDiffer(a, b)'
    <2>1. Addressed(a, b) /\ NoncesBelow(a, b) /\ NoncesDiffer(a, b)
      BY <1>13 DEF DInv, NonceInv
    <2>2. Known(a, b)' \subseteq Known(a, b) /\ st'[a][b] = st[a][b]
      BY <1>2, <1>3, <1>13
    <2>3. \A m \in Known(a, b) : m.i \in Int /\ m.r \in Int
      BY <2>1 DEF Addressed, Ciphertext, Ephemeral, Garbage
    <2>4. Addressed(a, b)'
      BY <1>2, <2>1, <2>2, <2>3 DEF Addressed
    <2>5. NoncesBelow(a, b)'
      BY <2>1, <2>2 DEF NoncesBelow, Concerns
    <2>6. NoncesDiffer(a, b)'
      BY <2>1, <2>2 DEF NoncesDiffer
    <2> QED BY <2>4, <2>5, <2>6
  <1> QED BY <1>10, <1>11, <1>12, <1>13 DEF NonceInv

LEMMA NonceIdle ==
  ASSUME DInv, Idle
  PROVE  NonceInv'
  <1> SUFFICES ASSUME NEW n \in Node, NEW p \in Node, n # p
               PROVE  Addressed(n, p)' /\ NoncesBelow(n, p)' /\ NoncesDiffer(n, p)'
    BY DEF NonceInv
  <1>1. Addressed(n, p) /\ NoncesBelow(n, p) /\ NoncesDiffer(n, p)
    BY DEF DInv, NonceInv
  <1>2. Known(n, p)' \subseteq Known(n, p)
    BY IdleKnown
  <1>3. next' = next /\ (st'[n][p].sess = st[n][p].sess \/ st'[n][p].sess = NoSession)
    BY DEF Idle, IdleRow
  <1>4. Addressed(n, p)'
    BY <1>1, <1>2, <1>3 DEF Addressed
  <1>5. NoncesBelow(n, p)'
    BY <1>1, <1>2, <1>3 DEF NoncesBelow, Concerns, HasSession, Ready, NoSession
  <1>6. NoncesDiffer(n, p)'
    BY <1>1, <1>2 DEF NoncesDiffer
  <1> QED BY <1>4, <1>5, <1>6

(***************************************************************************)
(* Trust.  A session that a step leaves with a peer, and that a ciphertext *)
(* from before the step concerns, it had before.                           *)
(***************************************************************************)
LEMMA ConcernsBefore ==
  ASSUME NEW n, NEW p, NEW s, NEW t, NEW m, next \in Int,
         m.i \in Int, m.r \in Int, m.i < next, m.r < next,
         SessMove(n, p, s, t, next), Concerns(t, m)
  PROVE  GoesOn(n, p, s, t) /\ Concerns(s, m)
  <1>1. ~Ends(s, t)
    BY DEF Ends, Concerns, HasSession, NoSession
  <1>2. ~Starts(s, t, next)
    BY DEF Starts, Concerns
  <1>3. GoesOn(n, p, s, t)
    BY <1>1, <1>2 DEF SessMove
  <1> QED BY <1>3 DEF GoesOn, Concerns, HasSession

\* A session that opens a ciphertext is concerned by it.
LEMMA OpensConcerns ==
  ASSUME NEW s, NEW m, s.sess.ready => s.sess.role # "none", Opens(s.sess, m)
  PROVE  Concerns(s, m)
  BY DEF Opens, Concerns, HasSession, KeyI, KeyR

LEMMA TrustKept ==
  ASSUME DInv, IInv', Proved!PairInv', NEW n \in Node, NEW p \in Node, NEW t, NEW F,
         MoveStep(n, p, t, F)
  PROVE  TrustInv'
  <1> DEFINE s == st[n][p]
             r == st[p][n]
             N == New(st[n][p], t)
  <1>1. /\ n # p /\ SessMove(n, p, s, t, next) /\ Takes(s, t, Known(p, n))
        /\ TrustMove(s, t, Known(p, n))
    BY DEF MoveStep, Move
  <1>2. /\ st'[n][p].sess = t.sess /\ st'[n][p].notice = t.notice
        /\ st'[n][p].peer = t.peer /\ st'[n][p].thread = t.thread /\ t \in PeerState
        /\ \A a, b \in Node : a # n \/ b # p => st'[a][b] = st[a][b]
        /\ next \in Nat /\ (t.sess.ready => t.sess.role # "none")
    <2>1. Framed(n, p, t)
      BY MoveFrame
    <2> QED BY <2>1 DEF Framed
  <1>3. /\ Known(n, p)' \subseteq Known(n, p) \cup N
        /\ \A a, b \in Node : a # b /\ (a # n \/ b # p) => Known(a, b)' \subseteq Known(a, b)
    BY MoveKnown
  <1>4. Trusted(n, p) /\ Trusted(p, n) /\ Addressed(n, p) /\ Addressed(p, n)
    BY <1>1 DEF DInv, TrustInv, NonceInv
  <1>5. \A m \in Known(n, p) \cup Known(p, n) :
            m.i \in Int /\ m.r \in Int /\ m.i < next /\ m.r < next
    BY <1>4 DEF Addressed, Ciphertext, Ephemeral, Garbage
  <1>6. s.thread[Theirs("ack")] \in Nat /\ t.thread[Theirs("ack")] \in Nat
    <2>1. s \in PeerState
      BY RowFacts DEF DInv
    <2> QED BY <1>2, <2>1, TheirsType DEF Body, Control
  <1> HIDE DEF s, r, N
  <1>7. N # {} => GoesOn(n, p, s, t)
    BY <1>1 DEF SessMove, Ends, Starts, N, s
  <1>8. Ends(s, t) => ~HasSession(t) /\ N = {}
    BY DEF Ends, HasSession, NoSession, N, s
  <1>9. ASSUME NEW m \in Known(n, p) \cup Known(p, n), Concerns(t, m)
        PROVE  Concerns(s, m) /\ (s.peer.verified => t.peer.verified)
    <2>1. Concerns(s, m)
      BY <1>1, <1>2, <1>5, <1>9, ConcernsBefore
    <2>2. ~Ends(s, t)
      BY <1>8, <1>9 DEF Concerns
    <2> QED BY <1>1, <2>1, <2>2 DEF TrustMove
  <1>10. Trusted(n, p)'
    <2>1. t.notice => t.peer.verified
      BY <1>1, <1>4 DEF TrustMove, Trusted, s
    <2>2. ASSUME t.thread[Theirs("ack")] > 0
          PROVE  t.peer.verified
      <3>1. CASE t.thread[Theirs("ack")] > s.thread[Theirs("ack")]
        <4>1. PICK c \in Known(p, n) : c.body = "ack" /\ Opens(t.sess, c)
          BY <1>1, <3>1 DEF Takes, Body, Control
        <4>2. Concerns(t, c)
          BY <1>2, <4>1, OpensConcerns
        <4> QED BY <1>4, <1>9, <4>1, <4>2 DEF Trusted, s
      <3>2. CASE ~(t.thread[Theirs("ack")] > s.thread[Theirs("ack")])
        <4>1. s.thread[Theirs("ack")] > 0
          BY <1>6, <2>2, <3>2
        <4>2. s.peer.verified
          BY <1>4, <4>1 DEF Trusted, s
        <4> QED BY <1>1, <1>6, <2>2, <4>2 DEF TrustMove
      <3> QED BY <3>1, <3>2
    <2>3. ASSUME NEW m \in Known(n, p)', m.body = "notice", Concerns(t, m)
          PROVE  t.peer.verified
      <3>1. CASE m \in Known(n, p)
        BY <1>4, <1>9, <2>3, <3>1 DEF Trusted, s
      <3>2. CASE m \in N
        <4>1. s.notice \/ t.peer.verified
          BY <1>1, <2>3, <3>2 DEF TrustMove, N, s
        <4>2. s.notice => s.peer.verified
          BY <1>4 DEF Trusted, s
        <4> QED BY <1>1, <1>8, <3>2, <4>1, <4>2 DEF TrustMove
      <3> QED BY <1>3, <3>1, <3>2
    <2>4. ASSUME NEW m \in Known(p, n)', m.body = "ack", Concerns(t, m)
          PROVE  t.peer.verified
      <3>1. m \in Known(p, n)
        BY <1>1, <1>3, <2>4
      <3> QED BY <1>4, <1>9, <2>4, <3>1 DEF Trusted, s
    <2> QED BY <1>2, <2>1, <2>2, <2>3, <2>4 DEF Trusted, Concerns, HasSession
  <1>11. Trusted(p, n)'
    <2>1. st'[p][n] = r
      BY <1>1, <1>2 DEF r
    <2>2. ASSUME NEW m \in Known(n, p)', m.body = "ack", Concerns(r, m)
          PROVE  r.peer.verified
      <3>1. CASE m \in Known(n, p)
        BY <1>4, <2>2, <3>1 DEF Trusted, r
      <3>2. CASE m \in N
        <4>1. PICK c \in Known(p, n) : c.body = "notice" /\ Opens(t.sess, c)
          BY <1>1, <2>2, <3>2 DEF TrustMove, N, s
        <4>2. m.i = KeyI(t.sess) /\ m.r = KeyR(t.sess)
          BY <1>7, <3>2 DEF GoesOn, Under, N, s
        <4>3. Concerns(r, c)
          BY <2>2, <4>1, <4>2 DEF Opens, Concerns
        <4> QED BY <1>4, <4>1, <4>3 DEF Trusted, r
      <3> QED BY <1>3, <3>1, <3>2
    <2>3. Known(p, n)' \subseteq Known(p, n)
      BY <1>1, <1>3
    <2> QED BY <1>4, <2>1, <2>2, <2>3 DEF Trusted, r
  <1>12. ASSUME NEW a \in Node, NEW b \in Node, a # b, ~(a = n /\ b = p), ~(a = p /\ b = n)
         PROVE  Trusted(a, b)'
    <2>1. Trusted(a, b)
      BY <1>12 DEF DInv, TrustInv
    <2>2. /\ st'[a][b] = st[a][b]
          /\ Known(a, b)' \subseteq Known(a, b) /\ Known(b, a)' \subseteq Known(b, a)
      BY <1>2, <1>3, <1>12
    <2> QED BY <2>1, <2>2 DEF Trusted
  <1> QED BY <1>10, <1>11, <1>12 DEF TrustInv

LEMMA TrustIdle ==
  ASSUME DInv, Idle
  PROVE  TrustInv'
  <1> SUFFICES ASSUME NEW n \in Node, NEW p \in Node, n # p
               PROVE  Trusted(n, p)'
    BY DEF TrustInv
  <1>1. Trusted(n, p)
    BY DEF DInv, TrustInv
  <1>2. Known(n, p)' \subseteq Known(n, p) /\ Known(p, n)' \subseteq Known(p, n)
    BY IdleKnown
  <1>3. IdleRow(st[n][p], st'[n][p])
    BY DEF Idle
  <1>4. CASE st'[n][p].sess = NoSession /\ ~st'[n][p].notice
    <2>1. ~HasSession(st'[n][p])
      BY <1>4 DEF HasSession, NoSession
    <2>2. st'[n][p].thread[Theirs("ack")] > 0 => st'[n][p].peer.verified
      <3>1. CASE st'[n][p].thread = st[n][p].thread /\ st'[n][p].peer = st[n][p].peer
        BY <1>1, <3>1 DEF Trusted
      <3>2. CASE \A b \in Body : st'[n][p].thread[Theirs(b)] = 0
        BY <3>2 DEF Body, Control
      <3> QED BY <1>3, <3>1, <3>2 DEF IdleRow
    <2> QED BY <1>4, <2>1, <2>2 DEF Trusted, Concerns
  <1>5. CASE /\ st'[n][p].sess = st[n][p].sess /\ st'[n][p].notice = st[n][p].notice
             /\ st'[n][p].peer = st[n][p].peer /\ st'[n][p].thread = st[n][p].thread
    BY <1>1, <1>2, <1>5 DEF Trusted, Concerns, HasSession
  <1> QED BY <1>3, <1>4, <1>5 DEF IdleRow

(***************************************************************************)
(* The texts.  What a session could not read before a step, it cannot read *)
(* after it.                                                               *)
(***************************************************************************)
LEMMA PastKept ==
  ASSUME NEW n, NEW p, NEW s \in PeerState, NEW t \in PeerState, NEW m, next \in Int,
         m.i \in Int, m.r \in Int, m.nonce \in Nat, m.i < next, m.r < next,
         SessMove(n, p, s, t, next), Past(s, m)
  PROVE  Past(t, m)
  <1> SUFFICES ASSUME Concerns(t, m)
               PROVE  /\ Ready(t)
                      /\ m.i = KeyI(t.sess) /\ m.r = KeyR(t.sess) => m.nonce < t.sess.recvN
    BY DEF Past
  <1>1. GoesOn(n, p, s, t) /\ Concerns(s, m)
    BY ConcernsBefore
  <1>2. /\ Ready(s)
        /\ m.i = KeyI(s.sess) /\ m.r = KeyR(s.sess) => m.nonce < s.sess.recvN
    BY <1>1 DEF Past
  <1>3. t.sess.ready /\ t.sess.re = s.sess.re /\ t.sess.role = s.sess.role
        /\ t.sess.own = s.sess.own /\ s.sess.recvN <= t.sess.recvN
    BY <1>1, <1>2 DEF GoesOn, Ready
  <1>4. KeyI(t.sess) = KeyI(s.sess) /\ KeyR(t.sess) = KeyR(s.sess)
    BY <1>3 DEF KeyI, KeyR
  <1>5. s.sess.recvN \in Nat /\ t.sess.recvN \in Nat
    BY DEF PeerState, Session
  <1> QED BY <1>2, <1>3, <1>4, <1>5 DEF Ready

LEMMA TextKept ==
  ASSUME DInv, IInv', Proved!PairInv', NEW n \in Node, NEW p \in Node, NEW t, NEW F,
         MoveStep(n, p, t, F)
  PROVE  TextInv'
  <1> DEFINE s == st[n][p]
             r == st[p][n]
             N == New(st[n][p], t)
  <1>1. /\ n # p /\ SessMove(n, p, s, t, next) /\ Takes(s, t, Known(p, n))
        /\ TextMove(s, t, F) /\ F \subseteq Text /\ F \cap sent = {} /\ sent' = sent \cup F
    BY DEF MoveStep, Move
  <1>2. /\ st'[n][p].sess = t.sess /\ st'[n][p].pend = t.pend
        /\ st'[n][p].envs = t.envs /\ st'[n][p].thread = t.thread /\ t \in PeerState
        /\ \A a, b \in Node : a # n \/ b # p => st'[a][b] = st[a][b]
        /\ next \in Nat /\ (t.sess.ready => t.sess.role # "none")
    <2>1. Framed(n, p, t)
      BY MoveFrame
    <2> QED BY <2>1 DEF Framed
  <1>3. /\ Known(n, p)' \subseteq Known(n, p) \cup N
        /\ \A a, b \in Node : a # b /\ (a # n \/ b # p) => Known(a, b)' \subseteq Known(a, b)
    BY MoveKnown
  <1>4. /\ Kept(n, p) /\ Kept(p, n) /\ Shown(n, p) /\ Shown(p, n)
        /\ Addressed(p, n) /\ s \in PeerState
    BY <1>1, RowFacts DEF DInv, TextInv, NonceInv
  <1>5. \A m \in Known(p, n) : /\ m.i \in Int /\ m.r \in Int /\ m.nonce \in Nat
                               /\ m.i < next /\ m.r < next
    BY <1>4 DEF Addressed, Ciphertext, Ephemeral, Garbage
  <1>6. /\ st'[p][n] = r /\ HeldSet(st'[n][p]) = HeldSet(t) /\ sent \subseteq sent'
        /\ (Single(st'[n][p]) <=> Single(t))
    BY <1>1, <1>2 DEF HeldSet, Single, r
  <1> HIDE DEF s, r, N
  <1>7. /\ Single(t) /\ HeldSet(t) \subseteq HeldSet(s) \cup F /\ HeldSet(s) \subseteq sent
        /\ \A m \in N : m.body \in Text =>
              (m.body \in HeldSet(s) \/ m.body \in F) /\ m.body \notin HeldSet(t)
        /\ \A m, k \in N : m.body \in Text /\ m.body = k.body => m = k
    <2>1. Single(s) /\ HeldSet(s) \subseteq sent
      BY <1>4 DEF Kept, s
    <2>2. F \cap HeldSet(s) = {}
      BY <1>1, <2>1
    <2> QED BY <1>1, <2>1, <2>2 DEF TextMove, N, s
  <1>8. Kept(n, p)'
    <2>1. HeldSet(t) \subseteq sent'
      BY <1>1, <1>7
    <2>2. ASSUME NEW m \in Known(n, p)', m.body \in Text
          PROVE  m.body \in sent' /\ m.body \notin HeldSet(t)
      <3>1. CASE m \in Known(n, p)
        <4>1. m.body \in sent /\ m.body \notin HeldSet(s)
          BY <1>4, <2>2, <3>1 DEF Kept, s
        <4> QED BY <1>1, <1>7, <4>1
      <3>2. CASE m \in N
        BY <1>1, <1>7, <2>2, <3>2
      <3> QED BY <1>3, <3>1, <3>2
    <2>3. ASSUME NEW a \in Known(n, p), NEW b \in N, a.body \in Text, a.body = b.body
          PROVE  FALSE
      <3>1. a.body \in sent /\ a.body \notin HeldSet(s)
        BY <1>4, <2>3 DEF Kept, s
      <3> QED BY <1>1, <1>7, <2>3, <3>1
    <2>4. ASSUME NEW a \in Known(n, p)', NEW b \in Known(n, p)', a.body \in Text, a.body = b.body
          PROVE  a = b
      <3>1. CASE a \in Known(n, p) /\ b \in Known(n, p)
        BY <1>4, <2>4, <3>1 DEF Kept
      <3>2. CASE a \in N /\ b \in N
        BY <1>7, <2>4, <3>2
      <3> QED BY <1>3, <2>3, <2>4, <3>1, <3>2
    <2> QED BY <1>6, <1>7, <2>1, <2>2, <2>4 DEF Kept
  <1>9. Kept(p, n)'
    <2>1. Known(p, n)' \subseteq Known(p, n)
      BY <1>1, <1>3
    <2> QED BY <1>4, <1>6, <2>1 DEF Kept, r
  <1>10. Shown(n, p)'
    <2> SUFFICES ASSUME NEW x \in Text, r.thread[Theirs(x)] > 0
                 PROVE  /\ x \in sent' /\ x \notin HeldSet(t) /\ r.thread[Theirs(x)] = 1
                        /\ \A m \in Known(n, p)' : m.body = x => Past(r, m)
      BY <1>6 DEF Shown
    <2>1. /\ x \in sent /\ x \notin HeldSet(s) /\ r.thread[Theirs(x)] = 1
          /\ \A m \in Known(n, p) : m.body = x => Past(r, m)
      BY <1>4 DEF Shown, r, s
    <2>2. \A m \in N : m.body # x
      BY <1>1, <1>7, <2>1
    <2> QED BY <1>1, <1>3, <1>6, <1>7, <2>1, <2>2
  <1>11. Shown(p, n)'
    <2> SUFFICES ASSUME NEW x \in Text, t.thread[Theirs(x)] > 0
                 PROVE  /\ x \in sent' /\ x \notin HeldSet(r) /\ t.thread[Theirs(x)] = 1
                        /\ \A m \in Known(p, n) : m.body = x => Past(t, m)
      <3>1. Known(p, n)' \subseteq Known(p, n)
        BY <1>1, <1>3
      <3>2. \A m : Past(st'[n][p], m) <=> Past(t, m)
        BY <1>2 DEF Past, Concerns, HasSession, Ready
      <3> QED BY <1>2, <1>6, <3>1, <3>2 DEF Shown
    <2>1. s.thread[Theirs(x)] \in Nat /\ t.thread[Theirs(x)] \in Nat
      BY <1>2, <1>4, TheirsType DEF Body
    <2>2. s.thread[Theirs(x)] > 0 =>
              /\ x \in sent /\ x \notin HeldSet(r) /\ s.thread[Theirs(x)] = 1
              /\ \A m \in Known(p, n) : m.body = x => Past(s, m)
      BY <1>4 DEF Shown, r, s
    <2>3. CASE t.thread[Theirs(x)] > s.thread[Theirs(x)]
      <3>1. PICK c \in Known(p, n) : /\ c.body = x /\ Opens(t.sess, c)
                                     /\ s.sess.recvN <= c.nonce /\ c.nonce < t.sess.recvN
        BY <1>1, <2>3 DEF Takes, Body
      <3>2. \A m \in Known(p, n) : m.body = x => m = c
        BY <1>4, <3>1 DEF Kept
      <3>3. t.thread[Theirs(x)] = s.thread[Theirs(x)] + 1
        BY <1>1, <2>3, <3>2 DEF Takes, Body
      <3>4. x \in sent /\ x \notin HeldSet(r)
        BY <1>4, <3>1 DEF Kept, r
      <3>5. ~(s.thread[Theirs(x)] > 0)
        <4> SUFFICES ASSUME s.thread[Theirs(x)] > 0
                     PROVE  FALSE
          OBVIOUS
        <4>1. Past(s, c)
          BY <2>2, <3>1
        <4>2. Concerns(t, c)
          BY <1>2, <3>1, OpensConcerns
        <4>3. GoesOn(n, p, s, t) /\ Concerns(s, c)
          BY <1>1, <1>2, <1>5, <4>2, ConcernsBefore
        <4>4. Ready(s)
          BY <4>1, <4>3 DEF Past
        <4>5. KeyI(t.sess) = KeyI(s.sess) /\ KeyR(t.sess) = KeyR(s.sess)
          BY <4>3, <4>4 DEF GoesOn, Ready, KeyI, KeyR
        <4>6. c.nonce < s.sess.recvN
          BY <3>1, <4>1, <4>3, <4>5 DEF Past, Opens
        <4>7. s.sess.recvN \in Nat
          BY <1>4 DEF PeerState, Session
        <4> QED BY <1>5, <3>1, <4>6, <4>7
      <3>6. Past(t, c)
        BY <3>1 DEF Past, Opens, Ready
      <3> QED BY <1>6, <2>1, <3>2, <3>3, <3>4, <3>5, <3>6
    <2>4. CASE ~(t.thread[Theirs(x)] > s.thread[Theirs(x)])
      <3>1. s.thread[Theirs(x)] > 0
        BY <2>1, <2>4
      <3>2. t.thread[Theirs(x)] = 1
        BY <2>1, <2>2, <2>4, <3>1
      <3>3. ASSUME NEW m \in Known(p, n), m.body = x
            PROVE  Past(t, m)
        <4>1. Past(s, m)
          BY <2>2, <3>1, <3>3
        <4> QED BY <1>1, <1>2, <1>4, <1>5, <4>1, PastKept
      <3> QED BY <1>6, <2>2, <3>1, <3>2, <3>3
    <2> QED BY <2>3, <2>4
  <1>12. ASSUME NEW a \in Node, NEW b \in Node, a # b, ~(a = n /\ b = p), ~(a = p /\ b = n)
         PROVE  Kept(a, b)' /\ Shown(a, b)'
    <2>1. Kept(a, b) /\ Shown(a, b)
      BY <1>12 DEF DInv, TextInv
    <2>2. /\ st'[a][b] = st[a][b] /\ st'[b][a] = st[b][a]
          /\ Known(a, b)' \subseteq Known(a, b)
      BY <1>2, <1>3, <1>12
    <2>3. Kept(a, b)'
      BY <1>6, <2>1, <2>2 DEF Kept
    <2>4. Shown(a, b)'
      BY <1>6, <2>1, <2>2 DEF Shown
    <2> QED BY <2>3, <2>4
  <1> QED BY <1>8, <1>9, <1>10, <1>11, <1>12 DEF TextInv

LEMMA TextIdle ==
  ASSUME DInv, Idle
  PROVE  TextInv'
  <1> SUFFICES ASSUME NEW n \in Node, NEW p \in Node, n # p
               PROVE  Kept(n, p)' /\ Shown(n, p)'
    BY DEF TextInv
  <1>1. Kept(n, p) /\ Shown(n, p)
    BY DEF DInv, TextInv
  <1>2. Known(n, p)' \subseteq Known(n, p) /\ sent' = sent
    BY IdleKnown DEF Idle
  <1>3. IdleRow(st[n][p], st'[n][p]) /\ IdleRow(st[p][n], st'[p][n])
    BY DEF Idle
  <1>4. Single(st'[n][p]) /\ HeldSet(st'[n][p]) \subseteq HeldSet(st[n][p])
    <2>1. /\ st'[n][p].pend = st[n][p].pend \/ st'[n][p].pend = <<>>
          /\ st'[n][p].envs = st[n][p].envs \/ st'[n][p].envs = <<>>
      BY <1>3 DEF IdleRow
    <2>2. Single(st[n][p])
      BY <1>1 DEF Kept
    <2> QED BY <2>1, <2>2, NoneDistinct DEF Single, HeldSet
  <1>5. Kept(n, p)'
    BY <1>1, <1>2, <1>4 DEF Kept
  <1>6. ASSUME NEW x \in Text, st'[p][n].thread[Theirs(x)] > 0
        PROVE  st'[p][n].thread = st[p][n].thread
    BY <1>3, <1>6 DEF IdleRow, Body
  <1>7. ASSUME NEW m, Past(st[p][n], m)
        PROVE  Past(st'[p][n], m)
    <2>1. st'[p][n].sess = st[p][n].sess \/ st'[p][n].sess = NoSession
      BY <1>3 DEF IdleRow
    <2> QED BY <1>7, <2>1 DEF Past, Concerns, HasSession, Ready, NoSession
  <1>8. Shown(n, p)'
    BY <1>1, <1>2, <1>4, <1>6, <1>7 DEF Shown
  <1> QED BY <1>5, <1>8

(***************************************************************************)
(* The keys.                                                               *)
(***************************************************************************)
LEMMA HandshakeKeys ==
  ASSUME DInv, NEW m \in net, IsHandshake(m)
  PROVE  /\ m.i \in Int /\ m.i < next
         /\ m.type # "msg1" => m.r \in Int /\ m.r < next
  <1>1. CASE m.type = "msg1"
    BY <1>1, PacketFacts DEF DInv
  <1>2. CASE m.type \in {"msg2", "msg3"}
    <2>1. m \in BoundPackets
      BY <1>2 DEF BoundPackets
    <2>2. Proved!Bound(m, Halves[m.src][m.dst], next)
      BY <2>1 DEF DInv, Proved!PairInv
    <2>3. m.i \in Int /\ m.r \in Int /\ m.i < m.r /\ m.r < next /\ next \in Int
      BY <2>2 DEF Proved!Bound, DInv, IInv, TypeOK
    <2> QED BY <2>3
  <1> QED BY <1>1, <1>2 DEF IsHandshake

\* What was heard from a peer is no key of an end that has published none.
LEMMA UnpublishedUnheard ==
  ASSUME NEW n, NEW p, NEW a, NEW b, NEW k, NEW own \in Nat, Heard(n, p, k),
         (a = n /\ b = p) \/ (a = p /\ b = n),
         \A m \in net : IsHandshake(m) /\ Between(m, a, b) =>
            m.i # own /\ (m.type # "msg1" => m.r # own)
  PROVE  k # own
  BY DEF Heard, Between, Garbage

LEMMA KeyKept ==
  ASSUME DInv, IInv', Proved!PairInv', NEW n \in Node, NEW p \in Node, NEW t, NEW F,
         MoveStep(n, p, t, F)
  PROVE  KeyInv'
  <1> DEFINE s == st[n][p]
             r == st[p][n]
  <1>1. /\ n # p /\ SessMove(n, p, s, t, next) /\ KeyMove(n, p, s, t)
        /\ net' \subseteq net \cup t.out /\ dhkey' = dhkey
    BY DEF MoveStep, Move
  <1>2. /\ st'[n][p].sess = t.sess /\ st'[n][p].addr = t.addr
        /\ st'[n][p].dh = t.dh /\ st'[n][p].peer = t.peer
        /\ \A a, b \in Node : a # n \/ b # p => st'[a][b] = st[a][b]
        /\ t.sess.ready => t.sess.role # "none"
    <2>1. Framed(n, p, t)
      BY MoveFrame
    <2> QED BY <2>1 DEF Framed
  <1>3. /\ Recorded(s) /\ Recorded(r) /\ Unpublished(n, p) /\ Unpublished(p, n)
        /\ \A a \in Node : dhkey[a] # NoKey
    BY <1>1 DEF DInv, KeyInv
  <1>4. /\ s.sess.own \in Nat /\ s.sess.own < next /\ s.sess.re \in Int
        /\ r.sess.own \in Nat /\ r.sess.own < next /\ r.sess.re \in Int
        /\ r.sess.re < next /\ next \in Nat /\ next > 0
    BY Older, RowFacts DEF DInv
  <1>5. st'[p][n] = r
    BY <1>1, <1>2
  <1>6. \A m \in net : IsHandshake(m) =>
            /\ m.i \in Int /\ m.i < next
            /\ m.type # "msg1" => m.r \in Int /\ m.r < next
    BY HandshakeKeys
  <1>7. HasSession(s) /\ ~s.peer.exists =>
            /\ \A m \in net : IsHandshake(m) /\ Between(m, n, p) =>
                  m.i # s.sess.own /\ (m.type # "msg1" => m.r # s.sess.own)
            /\ r.sess.own # s.sess.own /\ r.sess.re # s.sess.own
    BY <1>3 DEF Unpublished
  <1>8. HasSession(r) /\ ~r.peer.exists =>
            /\ \A m \in net : IsHandshake(m) /\ Between(m, p, n) =>
                  m.i # r.sess.own /\ (m.type # "msg1" => m.r # r.sess.own)
            /\ s.sess.own # r.sess.own /\ s.sess.re # r.sess.own
    BY <1>3 DEF Unpublished
  <1> HIDE DEF s, r
  <1>9. s.peer.exists /\ ~t.peer.exists => t.sess = NoSession /\ ~t.addr
    BY <1>1 DEF KeyMove
  <1>10. t.addr => t.peer.exists
    BY <1>1, <1>3, <1>9 DEF KeyMove, Recorded
  <1>11. Recorded(t)
    <2>1. ASSUME t.sess.ready, s.sess.ready
          PROVE  t.peer.exists /\ t.dh # NoKey
      BY <1>1, <1>3, <1>9, <2>1 DEF KeyMove, Recorded, Ready, NoSession
    <2>2. ASSUME t.sess.ready, ~s.sess.ready
          PROVE  t.peer.exists /\ t.dh # NoKey
      <3>1. /\ s.dh # NoKey /\ t.dh = s.dh /\ t.peer = s.peer
            /\ Heard(n, p, s.sess.own)
        BY <1>1, <2>2 DEF KeyMove
      <3>2. HasSession(s)
        BY <1>1, <1>2, <2>2 DEF SessMove, GoesOn, Ends, Starts, NoSession, HasSession
      <3>3. s.peer.exists
        <4> SUFFICES ASSUME ~s.peer.exists
                     PROVE  FALSE
          OBVIOUS
        <4>1. \A m \in net : IsHandshake(m) /\ Between(m, n, p) =>
                  m.i # s.sess.own /\ (m.type # "msg1" => m.r # s.sess.own)
          BY <1>7, <3>2
        <4> DEFINE own == s.sess.own
        <4>2. /\ own \in Nat /\ Heard(n, p, own)
              /\ \A m \in net : IsHandshake(m) /\ Between(m, n, p) =>
                  m.i # own /\ (m.type # "msg1" => m.r # own)
          BY <1>4, <3>1, <4>1
        <4> HIDE DEF own
        <4> QED BY <4>2, UnpublishedUnheard
      <3> QED BY <3>1, <3>3
    <2>3. ASSUME HasSession(t)
          PROVE  t.sess.own > 0
      BY <1>1, <1>3, <1>4, <2>3
         DEF SessMove, GoesOn, Ends, Starts, NoSession, HasSession, Recorded
    <2> QED BY <1>10, <2>1, <2>2, <2>3 DEF Recorded, Ready
  <1>12. Unpublished(n, p)'
    <2> SUFFICES ASSUME HasSession(t), ~t.peer.exists
                 PROVE  /\ \A m \in net' : IsHandshake(m) /\ Between(m, n, p) =>
                              m.i # t.sess.own /\ (m.type # "msg1" => m.r # t.sess.own)
                        /\ r.sess.own # t.sess.own /\ r.sess.re # t.sess.own
      BY <1>2, <1>5 DEF Unpublished, HasSession
    <2>1. ~s.peer.exists
      BY <1>9 DEF HasSession, NoSession
    <2>2. net' \subseteq net
      BY <1>1, <1>10 DEF KeyMove
    <2>3. CASE GoesOn(n, p, s, t)
      <3>1. HasSession(s) /\ t.sess.own = s.sess.own
        BY <2>3 DEF GoesOn, HasSession
      <3> QED BY <1>7, <2>1, <2>2, <3>1
    <2>4. CASE Starts(s, t, next)
      <3>1. t.sess.own = next
        BY <2>4 DEF Starts
      <3> QED BY <1>4, <1>6, <2>2, <3>1
    <2>5. ~Ends(s, t)
      BY DEF Ends, HasSession, NoSession
    <2> QED BY <1>1, <2>3, <2>4, <2>5 DEF SessMove
  <1>13. Unpublished(p, n)'
    <2> SUFFICES ASSUME HasSession(r), ~r.peer.exists
                 PROVE  /\ \A m \in net' : IsHandshake(m) /\ Between(m, p, n) =>
                              m.i # r.sess.own /\ (m.type # "msg1" => m.r # r.sess.own)
                        /\ t.sess.own # r.sess.own /\ t.sess.re # r.sess.own
      BY <1>2, <1>5 DEF Unpublished
    <2> DEFINE own == r.sess.own
    <2>1. /\ own \in Nat /\ own > 0 /\ own < next /\ s.sess.own # own /\ s.sess.re # own
          /\ \A m \in net : IsHandshake(m) /\ Between(m, p, n) =>
                  m.i # own /\ (m.type # "msg1" => m.r # own)
      BY <1>3, <1>4, <1>8 DEF Recorded
    <2> HIDE DEF own
    <2>2. \A k : Heard(n, p, k) => k # own
      BY <2>1, UnpublishedUnheard
    <2>3. t.sess.own # own
      BY <1>1, <1>4, <2>1 DEF SessMove, GoesOn, Ends, Starts, NoSession
    <2>4. t.sess.re # own
      BY <1>1, <2>1, <2>2 DEF KeyMove
    <2>5. \A k : Made(n, p, s, t, k) => k # own
      BY <2>1, <2>2, <2>3 DEF Made
    <2>6. \A m \in t.out : IsHandshake(m) =>
              m.i # own /\ (m.type # "msg1" => m.r # own)
      BY <1>1, <2>5 DEF KeyMove
    <2>7. \A m \in net' : IsHandshake(m) /\ Between(m, p, n) =>
              m.i # own /\ (m.type # "msg1" => m.r # own)
      BY <1>1, <2>1, <2>6
    <2> QED BY <2>3, <2>4, <2>7 DEF own
  <1>14. ASSUME NEW a \in Node, NEW b \in Node, a # b, ~(a = n /\ b = p), ~(a = p /\ b = n)
         PROVE  Recorded(st[a][b])' /\ Unpublished(a, b)'
    <2>1. Recorded(st[a][b]) /\ Unpublished(a, b)
      BY <1>14 DEF DInv, KeyInv
    <2>2. st'[a][b] = st[a][b] /\ st'[b][a] = st[b][a]
      BY <1>2, <1>14
    <2>3. \A m \in net' : IsHandshake(m) /\ Between(m, a, b) => m \in net
      BY <1>1, <1>14 DEF KeyMove, Between
    <2> QED BY <2>1, <2>2, <2>3 DEF Unpublished
  <1>15. Recorded(st[n][p])'
    BY <1>2, <1>11 DEF Recorded, Ready, HasSession
  <1>16. Recorded(st[p][n])'
    BY <1>3, <1>5
  <1>17. \A a \in Node : dhkey'[a] # NoKey
    BY <1>1, <1>3
  <1> QED BY <1>12, <1>13, <1>14, <1>15, <1>16, <1>17 DEF KeyInv

LEMMA KeyIdle ==
  ASSUME DInv, Idle
  PROVE  KeyInv'
  <1>1. \A a \in Node : dhkey'[a] # NoKey
    <2>1. \A a \in Node : dhkey[a] \in Nat /\ dhkey[a] # NoKey
      BY DEF DInv, IInv, TypeOK, KeyInv
    <2> QED BY <2>1 DEF Idle, NoKey
  <1>2. ASSUME NEW n \in Node, NEW p \in Node, n # p
        PROVE  Recorded(st[n][p])' /\ Unpublished(n, p)'
    <2>1. Recorded(st[n][p]) /\ Unpublished(n, p)
      BY <1>2 DEF DInv, KeyInv
    <2>2. /\ IdleRow(st[n][p], st'[n][p]) /\ IdleRow(st[p][n], st'[p][n])
          /\ net' \subseteq net
      BY DEF Idle
    <2>3. st'[p][n].sess = st[p][n].sess \/ st'[p][n].sess = NoSession
      BY <2>2 DEF IdleRow
    <2>4. CASE st'[n][p].sess = NoSession /\ ~st'[n][p].addr
      <3>1. ~HasSession(st'[n][p]) /\ ~Ready(st'[n][p])
        BY <2>4 DEF HasSession, Ready, NoSession
      <3> QED BY <2>4, <3>1 DEF Recorded, Unpublished
    <2>5. CASE /\ st'[n][p].sess = st[n][p].sess /\ st'[n][p].addr = st[n][p].addr
               /\ st'[n][p].dh = st[n][p].dh /\ st'[n][p].peer = st[n][p].peer
      <3>1. Recorded(st[n][p])'
        BY <2>1, <2>5 DEF Recorded, Ready, HasSession
      <3>2. NoSession.own = 0 /\ NoSession.re = 0 /\ st[n][p].sess.own \in Nat
        BY Older DEF NoSession
      <3>3. HasSession(st[n][p]) => st[n][p].sess.own > 0
        BY <2>1 DEF Recorded
      <3>4. Unpublished(n, p)'
        BY <2>1, <2>2, <2>3, <2>5, <3>2, <3>3 DEF Unpublished, HasSession
      <3> QED BY <3>1, <3>4
    <2> QED BY <2>2, <2>4, <2>5 DEF IdleRow
  <1> QED BY <1>1, <1>2 DEF KeyInv

-----------------------------------------------------------------------------
(***************************************************************************)
(* What a node holds about itself, which no step but Idle touches, and the *)
(* invariant with all of its parts.                                        *)
(***************************************************************************)
Alone == \A n \in Node : /\ ~st[n][n].addr
                         /\ \A b \in Body : st[n][n].thread[Theirs(b)] = 0

DeliveryInv == /\ NonceInv /\ TrustInv /\ TextInv /\ KeyInv
               /\ Alone /\ HeldOnlyWhileAway

LEMMA InitDelivery == Init => DeliveryInv
  <1> SUFFICES ASSUME Init
               PROVE  DeliveryInv
    OBVIOUS
  <1>1. \A n, p \in Node : st[n][p] = Forgotten
    BY DEF Init
  <1>2. \A b \in Body : Forgotten.thread[Theirs(b)] = 0
    BY DEF Forgotten, Theirs, Row
  <1>3. /\ Forgotten.sess = NoSession /\ Forgotten.pend = <<>> /\ Forgotten.inb = <<>>
        /\ Forgotten.envs = <<>> /\ ~Forgotten.notice /\ ~Forgotten.addr
    BY DEF Forgotten
  <1>4. ~HasSession(Forgotten) /\ ~Ready(Forgotten)
    BY <1>3 DEF HasSession, Ready, NoSession
  <1>5. \A n, p \in Node : Known(n, p) = {}
    BY <1>1, <1>3, NoneDistinct DEF Known, Init
  <1>6. Single(Forgotten) /\ HeldSet(Forgotten) = {}
    BY <1>3, NoneDistinct DEF Single, HeldSet
  <1>7. NonceInv
    BY <1>5 DEF NonceInv, Addressed, NoncesBelow, NoncesDiffer
  <1>8. TrustInv
    <2>1. ~(Forgotten.thread[Theirs("ack")] > 0)
      BY <1>2 DEF Body, Control
    <2> QED BY <1>1, <1>3, <1>5, <2>1 DEF TrustInv, Trusted
  <1>9. TextInv
    <2>1. \A x \in Text : ~(Forgotten.thread[Theirs(x)] > 0)
      BY <1>2 DEF Body
    <2> QED BY <1>1, <1>5, <1>6, <2>1 DEF TextInv, Kept, Shown
  <1>10. KeyInv
    <2>1. \A n \in Node : dhkey[n] # NoKey
      BY DEF Init, NoKey
    <2> QED BY <1>1, <1>3, <1>4, <2>1 DEF KeyInv, Recorded, Unpublished
  <1>11. Alone /\ HeldOnlyWhileAway
    BY <1>1, <1>2, <1>3 DEF Alone, HeldOnlyWhileAway
  <1> QED BY <1>7, <1>8, <1>9, <1>10, <1>11 DEF DeliveryInv

LEMMA AwayKept ==
  ASSUME DInv, IInv', Proved!PairInv', NEW n \in Node, NEW p \in Node, NEW t, NEW F,
         MoveStep(n, p, t, F), Alone, HeldOnlyWhileAway
  PROVE  Alone' /\ HeldOnlyWhileAway'
  <1>1. n # p /\ AwayMove(st[n][p], t)
    BY DEF MoveStep, Move
  <1>2. /\ st'[n][p].addr = t.addr /\ st'[n][p].envs = t.envs
        /\ \A a, b \in Node : a # n \/ b # p => st'[a][b] = st[a][b]
    <2>1. Framed(n, p, t)
      BY MoveFrame
    <2> QED BY <2>1 DEF Framed
  <1>3. Alone'
    BY <1>1, <1>2 DEF Alone
  <1>4. HeldOnlyWhileAway'
    BY <1>1, <1>2 DEF HeldOnlyWhileAway, AwayMove
  <1> QED BY <1>3, <1>4

LEMMA AwayIdle ==
  ASSUME Idle, Alone, HeldOnlyWhileAway
  PROVE  Alone' /\ HeldOnlyWhileAway'
  BY DEF Idle, IdleRow, Alone, HeldOnlyWhileAway

LEMMA NextDelivery ==
  ASSUME IInv, Proved!PairInv, DeliveryInv, [Next]_vars, IInv', Proved!PairInv'
  PROVE  DeliveryInv'
  <1>1. DInv /\ Alone /\ HeldOnlyWhileAway
    BY DEF DInv, DeliveryInv
  <1>2. CASE UNCHANGED vars
    <2>1. \A n, p \in Node : Known(n, p)' = Known(n, p)
      BY <1>2 DEF vars, Known
    <2>2. NonceInv'
      BY <1>1, <1>2, <2>1 DEF vars, DInv, NonceInv, Addressed, NoncesBelow, NoncesDiffer
    <2>3. TrustInv'
      BY <1>1, <1>2, <2>1 DEF vars, DInv, TrustInv, Trusted
    <2>4. TextInv'
      BY <1>1, <1>2, <2>1 DEF vars, DInv, TextInv, Kept, Shown
    <2>5. KeyInv'
      BY <1>1, <1>2 DEF vars, DInv, KeyInv, Unpublished
    <2>6. Alone' /\ HeldOnlyWhileAway'
      BY <1>1, <1>2 DEF vars, Alone, HeldOnlyWhileAway
    <2> QED BY <2>2, <2>3, <2>4, <2>5, <2>6 DEF DeliveryInv
  <1>3. CASE \E n, p \in Node : \E t, F : MoveStep(n, p, t, F)
    <2>1. PICK n \in Node, p \in Node : \E t, F : MoveStep(n, p, t, F)
      BY <1>3
    <2>2. PICK t, F : MoveStep(n, p, t, F)
      BY <2>1
    <2>3. NonceInv'
      BY <1>1, <2>2, NonceMove
    <2>4. TrustInv'
      BY <1>1, <2>2, TrustKept
    <2>5. TextInv'
      BY <1>1, <2>2, TextKept
    <2>6. KeyInv'
      BY <1>1, <2>2, KeyKept
    <2>7. Alone' /\ HeldOnlyWhileAway'
      BY <1>1, <2>2, AwayKept
    <2> QED BY <2>3, <2>4, <2>5, <2>6, <2>7 DEF DeliveryInv
  <1>4. CASE Idle
    BY <1>1, <1>4, NonceIdle, TrustIdle, TextIdle, KeyIdle, AwayIdle DEF DeliveryInv
  <1> QED BY <1>1, <1>2, <1>3, <1>4, MoveCases

\* The invariant holds of every behaviour.
LEMMA DeliveryInvHolds == Spec => [](DInv /\ DeliveryInv)
  <1>1. Spec => []IInv
    BY InitIInv, NextIInv, PTL DEF Spec
  <1>2. IInv /\ Proved!PairInv /\ DeliveryInv /\ [Next]_vars /\ IInv' /\ Proved!PairInv'
            => DeliveryInv'
    BY NextDelivery
  <1>3. Spec => []DeliveryInv
    BY <1>1, <1>2, InitDelivery, MappedPairInv, PTL DEF Spec
  <1>4. IInv /\ Proved!PairInv /\ DeliveryInv => DInv
    BY DEF DInv, DeliveryInv
  <1> QED BY <1>1, <1>3, <1>4, MappedPairInv, PTL

(***************************************************************************)
(* The results.  node.rs: encrypt_and_send, through the sending counter of *)
(* the Noise session (noise.rs), never encrypts two different plaintexts   *)
(* under one key, direction and nonce, however sessions are replaced.      *)
(***************************************************************************)
THEOREM NonceUsedOnceTheorem == Spec => []NonceUsedOnce
  <1>1. DInv => NonceUsedOnce
    <2> SUFFICES ASSUME DInv, NEW a \in net, NEW b \in net, a.type = "dm", b.type = "dm",
                        a.src = b.src, a.dst = b.dst,
                        a.i = b.i, a.r = b.r, a.nonce = b.nonce
                 PROVE  a = b
      BY DEF NonceUsedOnce
    <2> DEFINE n == a.src
               p == a.dst
    <2>1. n \in Node /\ p \in Node /\ n # p
      BY PacketFacts DEF DInv
    <2>2. a \in Known(n, p) /\ b \in Known(n, p)
      BY DEF Known
    <2>3. NoncesDiffer(n, p)
      BY <2>1 DEF DInv, NonceInv
    <2> QED BY <2>2, <2>3 DEF NoncesDiffer
  <1> QED BY <1>1, DeliveryInvHolds, PTL

\* node.rs: a text enters the thread of its recipient at most once, though
\* it may be held as an envelope, queued behind a handshake, kept as an early
\* ciphertext, copied by the mesh, and the session replaced in between.
THEOREM AtMostOnceTheorem == Spec => []AtMostOnce
  <1>1. DInv /\ DeliveryInv => AtMostOnce
    <2> SUFFICES ASSUME DInv, DeliveryInv, NEW n \in Node, NEW p \in Node, NEW x \in Text
                 PROVE  st[n][p].thread[Theirs(x)] <= 1
      BY DEF AtMostOnce, Theirs
    <2>1. st[n][p].thread[Theirs(x)] \in Nat
      BY RowFacts, TheirsType DEF DInv, Body
    <2>2. CASE n = p
      BY <2>2 DEF DeliveryInv, Alone, Body
    <2>3. CASE n # p
      BY <2>1, <2>3 DEF DInv, TextInv, Shown
    <2> QED BY <2>2, <2>3
  <1> QED BY <1>1, DeliveryInvHolds, PTL

\* node.rs: the ack that makes a contact "confirmed both ends" is in its
\* thread only while the contact is verified: an ack of an exchange from before
\* unverify_peer, forget_peer or panic_wipe cannot turn up after it.
THEOREM ConfirmedTheorem == Spec => []ConfirmedIsVerified
  <1>1. DInv /\ DeliveryInv => ConfirmedIsVerified
    <2> SUFFICES ASSUME DInv, DeliveryInv, NEW n \in Node, NEW p \in Node,
                        st[n][p].thread[Theirs("ack")] > 0
                 PROVE  st[n][p].peer.verified
      BY DEF ConfirmedIsVerified, Theirs
    <2>1. n # p
      BY DEF DeliveryInv, Alone, Body, Control
    <2> QED BY <2>1 DEF DInv, TrustInv, Trusted
  <1> QED BY <1>1, DeliveryInvHolds, PTL

\* node.rs: no text is left in the store for a peer that is in reach, whatever
\* order sends, announces, forgets, restarts and expiries come in.
THEOREM HeldTheorem == Spec => []HeldOnlyWhileAway
  <1>1. DeliveryInv => HeldOnlyWhileAway
    BY DEF DeliveryInv
  <1> QED BY <1>1, DeliveryInvHolds, PTL

\* node.rs: only a command of the node's own user changes whether a peer is
\* verified and its petname; no packet, announce, tick or restart does.
THEOREM TrustTheorem == Spec => UserOwnsTrust
  <1> DEFINE A == \A n, p \in Node : TrustStep(st[n][p].peer, st'[n][p].peer)
  <1>1. DInv /\ IInv' /\ Proved!PairInv' /\ [Next]_vars => [A]_vars
    <2> SUFFICES ASSUME DInv, IInv', Proved!PairInv', Next, NEW a \in Node, NEW b \in Node
                 PROVE  TrustStep(st[a][b].peer, st'[a][b].peer)
      OBVIOUS
    <2>1. CASE \E n, p \in Node : \E t, F : MoveStep(n, p, t, F)
      <3>1. PICK n \in Node, p \in Node : \E t, F : MoveStep(n, p, t, F)
        BY <2>1
      <3>2. PICK t, F : MoveStep(n, p, t, F)
        BY <3>1
      <3>3. Framed(n, p, t)
        BY <3>2, MoveFrame
      <3>4. /\ st'[n][p].peer = t.peer
            /\ a # n \/ b # p => st'[a][b] = st[a][b]
        BY <3>3 DEF Framed
      <3>5. SameTrust(st[n][p], t) \/ \E ev \in TrustEvent : used'[ev] # used[ev]
        BY <3>2 DEF MoveStep
      <3> QED BY <3>4, <3>5 DEF SameTrust, TrustStep, TrustEvent
    <2>2. CASE Idle
      <3>1. IdleRow(st[a][b], st'[a][b])
        BY <2>2 DEF Idle
      <3>2. \/ st'[a][b].peer = st[a][b].peer
            \/ \E ev \in MarkerEvent : used'[ev] # used[ev]
        BY <3>1 DEF IdleRow
      <3> QED BY <3>2 DEF TrustStep, MarkerEvent
    <2> QED BY <2>1, <2>2, MoveCases
  <1>2. DInv => IInv /\ Proved!PairInv
    BY DEF DInv
  <1> QED BY <1>1, <1>2, DeliveryInvHolds, PTL DEF UserOwnsTrust, Spec

\* node.rs, handle_announce: a step that leaves a ready session bound to
\* another key than the announced one adds the key-changed marker to the
\* thread, and only a command of the node's own user takes markers away.
THEOREM LoudTheorem == Spec => LoudKeyChange
  <1> DEFINE A == \A n, p \in Node : LoudStep(st[n][p], st'[n][p])
  <1>1. DInv /\ IInv' /\ Proved!PairInv' /\ [Next]_vars => [A]_vars
    <2> SUFFICES ASSUME DInv, IInv', Proved!PairInv', Next, NEW a \in Node, NEW b \in Node
                 PROVE  LoudStep(st[a][b], st'[a][b])
      OBVIOUS
    <2>1. \A c, d \in Node : /\ st[c][d].thread[Marker] \in Nat
                             /\ st'[c][d].thread[Marker] \in Nat
      <3>1. Marker \in Row /\ \A q \in PeerState : q.thread \in [Row -> Nat]
        BY DEF PeerState, Marker, Row
      <3>2. \A c, d \in Node : st[c][d] \in PeerState /\ st'[c][d] \in PeerState
        BY DEF DInv, IInv, TypeOK
      <3> QED BY <3>1, <3>2
    <2>2. CASE \E n, p \in Node : \E t, F : MoveStep(n, p, t, F)
      <3>1. PICK n \in Node, p \in Node : \E t, F : MoveStep(n, p, t, F)
        BY <2>2
      <3>2. PICK t, F : MoveStep(n, p, t, F)
        BY <3>1
      <3>3. Framed(n, p, t)
        BY <3>2, MoveFrame
      <3>4. /\ st'[n][p].sess = t.sess /\ st'[n][p].dh = t.dh
            /\ st'[n][p].thread = t.thread
            /\ a # n \/ b # p => st'[a][b] = st[a][b]
        BY <3>3 DEF Framed
      <3>5. CASE a # n \/ b # p
        BY <2>1, <3>4, <3>5 DEF LoudStep
      <3>6. CASE a = n /\ b = p
        <4>1. /\ n # p /\ KeyMove(n, p, st[n][p], t)
              /\ KeepsMarker(st[n][p], t) \/ \E ev \in MarkerEvent : used'[ev] # used[ev]
          BY <3>2 DEF MoveStep, Move
        <4>2. Ready(st[n][p]) => st[n][p].peer.exists /\ st[n][p].dh # NoKey
          BY <4>1 DEF DInv, KeyInv, Recorded
        <4>3. ASSUME Unbound(t), ~Unbound(st[n][p])
              PROVE  t.thread[Marker] > st[n][p].thread[Marker]
          BY <4>1, <4>2, <4>3 DEF KeyMove, Unbound, Ready
        <4>4. Unbound(st'[n][p]) <=> Unbound(t)
          BY <3>4 DEF Unbound, Ready
        <4> QED BY <2>1, <3>4, <3>6, <4>1, <4>3, <4>4 DEF LoudStep, KeepsMarker, MarkerEvent
      <3> QED BY <3>5, <3>6
    <2>3. CASE Idle
      <3>1. IdleRow(st[a][b], st'[a][b])
        BY <2>3 DEF Idle
      <3>2. Unbound(st'[a][b]) => Unbound(st[a][b])
        BY <3>1 DEF IdleRow, Unbound, Ready, NoSession
      <3>3. \/ st'[a][b].thread = st[a][b].thread
            \/ \E ev \in MarkerEvent : used'[ev] # used[ev]
        BY <3>1 DEF IdleRow
      <3> QED BY <2>1, <3>2, <3>3 DEF LoudStep, MarkerEvent
    <2> QED BY <2>2, <2>3, MoveCases
  <1>2. DInv => IInv /\ Proved!PairInv
    BY DEF DInv
  <1> QED BY <1>1, <1>2, DeliveryInvHolds, PTL DEF LoudKeyChange, Spec

-----------------------------------------------------------------------------
(***************************************************************************)
(* The handshakes of a calm mesh: packets come in any order, but none is   *)
(* lost, copied or late, and nobody drops a session.  Two ends are then in *)
(* one of four phases.  e and f are the sessions of n and p, A and B the   *)
(* handshake packets on the way to p and to n, K and J the ciphertexts.    *)
(***************************************************************************)
Lone(A) == \A m, k \in A : m.type = k.type => m = k

\* Neither has answered: what is on the way offers the keys of the present halves.
Offers(e, A) ==
    /\ ~e.ready /\ e.role # "resp" /\ Lone(A)
    /\ \A m \in A : e.role = "init" /\ m.type = "msg1" /\ m.i = e.own
Opening(e, f, A, B, K, J) == Offers(e, A) /\ Offers(f, B) /\ K = {} /\ J = {}

\* p has answered n; its own offer may still be on the way, to a lower n only.
Replied(n, p, e, f, A, B, K, J) ==
    /\ ~e.ready /\ e.role = "init" /\ ~f.ready /\ f.role = "resp" /\ f.re = e.own
    /\ A = {} /\ K = {} /\ J = {} /\ Lone(B)
    /\ \E m \in B : m.type = "msg2"
    /\ \A m \in B : \/ m.type = "msg2" /\ m.i = e.own /\ m.r = f.own
                    \/ m.type = "msg1" /\ n < p

\* The one packet that is left can be counted, but not twice.
Leftover(r, B) == /\ Lone(B) /\ r <= 1 /\ (B # {} => r = 0)
                  /\ \A m \in B : m.type = "msg1"
Matches(e, f) == /\ e.role = "init" /\ f.role = "resp"
                 /\ e.own = f.re /\ e.re = f.own
Keyed(e, K) == \A m \in K : m.i = e.own /\ m.r = e.re

\* n is ready and its msg3 is on the way to p.
Closing(e, f, r, A, B, K, J) ==
    /\ e.ready /\ ~f.ready /\ Matches(e, f) /\ Leftover(r, B)
    /\ A # {} /\ Lone(A)
    /\ \A m \in A : m.type = "msg3" /\ m.i = e.own /\ m.r = e.re
    /\ Keyed(e, K) /\ J = {}

\* Both are ready.
Settled(e, f, r, A, B, K, J) ==
    /\ e.ready /\ f.ready /\ Matches(e, f) /\ Leftover(r, B)
    /\ A = {} /\ Keyed(e, K) /\ Keyed(e, J)

Phase(n, p, e, f, r, q, A, B, K, J) ==
    \/ Opening(e, f, A, B, K, J)
    \/ Replied(n, p, e, f, A, B, K, J) \/ Replied(p, n, f, e, B, A, J, K)
    \/ Closing(e, f, r, A, B, K, J) \/ Closing(f, e, q, B, A, J, K)
    \/ Settled(e, f, r, A, B, K, J) \/ Settled(f, e, q, B, A, J, K)

\* The ciphertexts N are of the ready session e.
Sealed(e, N) == \A m \in N : e.ready /\ m.i = KeyI(e) /\ m.r = KeyR(e)

\* What the steps of n do to the phase: it goes on with its session,
LEMMA StayPhase ==
  ASSUME NEW n \in Nat, NEW p \in Nat, NEW e, NEW f, NEW r \in Nat, NEW q \in Nat,
         NEW A, NEW B, NEW K, NEW J, Phase(n, p, e, f, r, q, A, B, K, J),
         NEW g, HalfOf(g) = HalfOf(e), NEW N, Sealed(e, N)
  PROVE  /\ Phase(n, p, g, f, r, q, A, B, K \cup N, J)
         /\ Phase(n, p, g, f, 0, q, A, B, K \cup N, J)
  <1>1. g.role = e.role /\ g.ready = e.ready /\ g.own = e.own /\ g.re = e.re
    BY DEF HalfOf
  <1>2. /\ ~e.ready => N = {}
        /\ \A m \in N : m.i = KeyI(e) /\ m.r = KeyR(e)
    BY DEF Sealed
  <1> SUFFICES ASSUME NEW x \in {r, 0}
               PROVE  Phase(n, p, g, f, x, q, A, B, K \cup N, J)
    OBVIOUS
  <1>3. CASE Opening(e, f, A, B, K, J)
    BY <1>1, <1>2, <1>3 DEF Phase, Opening, Offers
  <1>4. CASE Replied(n, p, e, f, A, B, K, J)
    BY <1>1, <1>2, <1>4 DEF Phase, Replied
  <1>5. CASE Replied(p, n, f, e, B, A, J, K)
    BY <1>1, <1>2, <1>5 DEF Phase, Replied
  <1>6. Leftover(r, B) => Leftover(x, B)
    BY DEF Leftover
  <1>7. CASE Closing(e, f, r, A, B, K, J)
    BY <1>1, <1>2, <1>6, <1>7 DEF Phase, Closing, Matches, Keyed, KeyI, KeyR
  <1>8. CASE Closing(f, e, q, B, A, J, K)
    BY <1>1, <1>2, <1>8 DEF Phase, Closing, Matches, Keyed
  <1>9. CASE Settled(e, f, r, A, B, K, J)
    BY <1>1, <1>2, <1>6, <1>9 DEF Phase, Settled, Matches, Keyed, KeyI, KeyR
  <1>10. CASE Settled(f, e, q, B, A, J, K)
    BY <1>1, <1>2, <1>10 DEF Phase, Settled, Matches, Keyed, KeyI, KeyR
  <1> QED BY <1>3, <1>4, <1>5, <1>7, <1>8, <1>9, <1>10 DEF Phase

\* drops an offer of p unread,
LEMMA DiscardPhase ==
  ASSUME NEW n \in Nat, NEW p \in Nat, NEW e, NEW f, NEW r \in Nat, NEW q \in Nat,
         NEW A, NEW B, NEW K, NEW J, Phase(n, p, e, f, r, q, A, B, K, J),
         NEW m \in B, e.role = "none" \/ (e.role = "init" /\ ~e.ready /\ m.type = "msg1")
  PROVE  Phase(n, p, e, f, r, q, A, B \ {m}, K, J)
  <1>1. CASE Opening(e, f, A, B, K, J)
    BY <1>1 DEF Phase, Opening, Offers, Lone
  <1>2. CASE Replied(n, p, e, f, A, B, K, J)
    <2>1. m.type = "msg1"
      BY <1>2 DEF Replied
    <2> QED BY <1>2, <2>1 DEF Phase, Replied, Lone
  <1> QED BY <1>1, <1>2 DEF Phase, Replied, Closing, Settled, Matches

\* or counts it, which it does but once, so that it never answers it,
LEMMA IgnorePhase ==
  ASSUME NEW n \in Nat, NEW p \in Nat, NEW e, NEW f, NEW r \in Nat, NEW q \in Nat,
         NEW A, NEW B, NEW K, NEW J, Phase(n, p, e, f, r, q, A, B, K, J),
         NEW m \in B, e.ready
  PROVE  /\ r = 0
         /\ Phase(n, p, e, f, r + 1, q, A, B \ {m}, K, J)
  <1>1. Leftover(r, B) => r = 0 /\ B \ {m} = {} /\ Leftover(r + 1, B \ {m})
    BY DEF Leftover, Lone
  <1>2. CASE Closing(e, f, r, A, B, K, J)
    BY <1>1, <1>2 DEF Phase, Closing
  <1>3. CASE Settled(e, f, r, A, B, K, J)
    BY <1>1, <1>3 DEF Phase, Settled
  <1> QED BY <1>2, <1>3 DEF Phase, Opening, Offers, Replied, Closing, Settled

\* begins, when nothing is on the way,
LEMMA BeginPhase ==
  ASSUME NEW n \in Nat, NEW p \in Nat, NEW e, NEW f, NEW r \in Nat, NEW q \in Nat,
         NEW A, NEW B, NEW K, NEW J, Phase(n, p, e, f, r, q, A, B, K, J),
         e.role = "none" \/ (~e.ready /\ A = {} /\ B = {}),
         NEW g, ~g.ready, g.role = "init", NEW m, m.type = "msg1", m.i = g.own, NEW x \in Nat
  PROVE  Phase(n, p, g, f, x, q, A \cup {m}, B, K, J)
  <1>1. Opening(e, f, A, B, K, J)
    BY DEF Phase, Replied, Closing, Settled, Matches
  <1>2. A = {}
    BY <1>1 DEF Opening, Offers
  <1> QED BY <1>1, <1>2 DEF Phase, Opening, Offers, Lone

\* answers an offer, unless it initiates and is the lower one,
LEMMA ReplyPhase ==
  ASSUME NEW n \in Nat, NEW p \in Nat, NEW e, NEW f, NEW r \in Nat, NEW q \in Nat,
         NEW A, NEW B, NEW K, NEW J, Phase(n, p, e, f, r, q, A, B, K, J), n # p,
         NEW m \in B, e.role = "none" \/ (e.role = "init" /\ ~e.ready /\ m.type = "msg1" /\ ~(n < p)),
         NEW g, ~g.ready, g.role = "resp", g.re = FirstKey(m),
         NEW k, k.type = "msg2", k.i = FirstKey(m), k.r = g.own, NEW x \in Nat
  PROVE  Phase(n, p, g, f, x, q, A \cup {k}, B \ {m}, K, J)
  <1>1. Opening(e, f, A, B, K, J)
    BY DEF Phase, Replied, Closing, Settled, Matches
  <1>2. m.type = "msg1" /\ m.i = f.own /\ FirstKey(m) = f.own /\ f.role = "init" /\ ~f.ready
    BY <1>1 DEF Opening, Offers, FirstKey
  <1>3. B \ {m} = {}
    BY <1>1, <1>2 DEF Opening, Offers, Lone
  <1>4. \A a \in A : a.type = "msg1" /\ p < n
    BY <1>1 DEF Opening, Offers
  <1>5. Replied(p, n, f, g, B \ {m}, A \cup {k}, J, K)
    BY <1>1, <1>2, <1>3, <1>4 DEF Opening, Offers, Replied, Lone
  <1> QED BY <1>5 DEF Phase

\* reads the answer to its own,
LEMMA ReadyPhase ==
  ASSUME NEW n \in Nat, NEW p \in Nat, NEW e, NEW f, NEW r \in Nat, NEW q \in Nat,
         NEW A, NEW B, NEW K, NEW J, Phase(n, p, e, f, r, q, A, B, K, J),
         NEW m \in B, m.type = "msg2", ~e.ready, e.role = "init",
         NEW g, g.ready, g.role = "init", g.own = e.own, g.re = m.r,
         NEW k, k.type = "msg3", k.i = g.own, k.r = m.r,
         NEW N, \A a \in N : a.i = g.own /\ a.r = g.re, NEW L \in SUBSET J
  PROVE  Phase(n, p, g, f, 0, q, A \cup {k}, B \ {m}, K \cup N, L)
  <1>1. Replied(n, p, e, f, A, B, K, J)
    BY DEF Phase, Opening, Offers, Replied, Closing, Settled, Matches
  <1>2. m.r = f.own
    BY <1>1 DEF Replied
  <1>3. Leftover(0, B \ {m})
    BY <1>1 DEF Replied, Leftover, Lone
  <1>4. Closing(g, f, 0, A \cup {k}, B \ {m}, K \cup N, L)
    BY <1>1, <1>2, <1>3 DEF Replied, Closing, Matches, Lone, Keyed
  <1> QED BY <1>4 DEF Phase

\* and as the responder the msg3 of its exchange.
LEMMA SettledPhase ==
  ASSUME NEW n \in Nat, NEW p \in Nat, NEW e, NEW f, NEW r \in Nat, NEW q \in Nat,
         NEW A, NEW B, NEW K, NEW J, Phase(n, p, e, f, r, q, A, B, K, J),
         NEW m \in B, m.type = "msg3", ~e.ready, e.role = "resp",
         NEW g, g.ready, g.role = "resp", g.own = e.own, g.re = e.re, NEW x \in Nat,
         NEW N, \A a \in N : a.i = g.re /\ a.r = g.own, NEW L \in SUBSET J
  PROVE  Phase(n, p, g, f, x, q, A, B \ {m}, K \cup N, L)
  <1>1. Closing(f, e, q, B, A, J, K)
    BY DEF Phase, Opening, Offers, Replied, Closing, Settled, Matches
  <1>2. B \ {m} = {}
    BY <1>1 DEF Closing, Lone
  <1>3. Settled(f, g, q, B \ {m}, A, L, K \cup N)
    BY <1>1, <1>2 DEF Closing, Settled, Matches, Keyed
  <1> QED BY <1>3 DEF Phase

\* No other packet comes to an end that waits, and no ciphertext to one that has
\* no session; what comes to one that has can be read once it is ready.
LEMMA NoStranger ==
  ASSUME NEW n \in Nat, NEW p \in Nat, NEW e, NEW f, NEW r \in Nat, NEW q \in Nat,
         NEW A, NEW B, NEW K, NEW J, Phase(n, p, e, f, r, q, A, B, K, J),
         e.role \in {"none", "init", "resp"}
  PROVE  /\ \A m \in B : ~e.ready =>
               \/ m.type = "msg1" /\ e.role \in {"none", "init"}
               \/ m.type = "msg2" /\ e.role = "init" /\ m.i = e.own
               \/ m.type = "msg3" /\ e.role = "resp" /\ m.i = e.re /\ m.r = e.own
         /\ \A m \in J : e.role # "none" /\ m.i = KeyI(e) /\ m.r = KeyR(e)
         /\ ~e.ready /\ e.role = "init" => J = {}
  <1>1. CASE Opening(e, f, A, B, K, J)
    BY <1>1 DEF Opening, Offers
  <1>2. CASE Replied(n, p, e, f, A, B, K, J) \/ Replied(p, n, f, e, B, A, J, K)
    BY <1>2 DEF Replied
  <1>3. CASE Closing(e, f, r, A, B, K, J) \/ Settled(e, f, r, A, B, K, J)
    BY <1>3 DEF Closing, Settled, Matches, Keyed, KeyI, KeyR
  <1>4. CASE Closing(f, e, q, B, A, J, K) \/ Settled(f, e, q, B, A, J, K)
    BY <1>4 DEF Closing, Settled, Matches, Keyed, KeyI, KeyR
  <1> QED BY <1>1, <1>2, <1>3, <1>4 DEF Phase

(***************************************************************************)
(* The rows.  A row is settled if the announced key is the peer's own, it  *)
(* is known exactly while the peer is in reach, there is a session only    *)
(* with a peer in reach, and no retry is due at once.                      *)
(***************************************************************************)
Reached(s, k) == /\ s.dh \in {NoKey, k}
                 /\ s.addr <=> s.dh # NoKey
                 /\ HasSession(s) => s.addr
                 /\ s.attempts # Absent => s.last

\* The texts of the user, and those of the peer, in the thread.
Mine(s) == {x \in Text : s.thread[Ours(x)] > 0}
Yours(s) == {x \in Text : s.thread[Theirs(x)] > 0}

\* A step goes on with its session, or begins one.
Goes(s, t) == /\ HalfOf(t.sess) = HalfOf(s.sess) /\ t.resync \in {s.resync, 0}
              /\ CallsOf(t) = {}
Calls(n, p, t, x) == t.sess = new_initiator(x) /\ CallsOf(t) = {Msg1(n, p, x)}

\* A text that is held stays so or goes out.
Keeps(s, t, x) == x \in HeldSet(t) \/ Utters(t, x)

\* Beginning a handshake with a peer in reach.
LEMMA BeginCalls ==
  ASSUME NEW n \in Node, NEW p \in Node, NEW s \in PeerState, s.out = {}, s.addr,
         NEW id \in Nat
  PROVE  LET t == begin_handshake(n, p, s, id)
         IN  /\ t \in PeerState /\ Calls(n, p, t, id) /\ t.last
             /\ t.pend = s.pend /\ t.inb = s.inb /\ t.envs = s.envs /\ t.peer = s.peer
             /\ t.addr /\ t.dh = s.dh /\ t.notice = s.notice
             /\ t.thread = s.thread
  <1> DEFINE a == IF s.attempts = Absent THEN 1 ELSE s.attempts + 1
             b == [s EXCEPT !.sess = new_initiator(id), !.last = TRUE,
                            !.attempts = IF @ = Absent THEN 1 ELSE @ + 1]
             t == begin_handshake(n, p, s, id)
  <1>1. t \in PeerState /\ t.sess = new_initiator(id)
    <2> HIDE DEF a, b
    <2>1. Begun(n, p, s, t, id)
      BY BeginBegun
    <2> HIDE DEF t
    <2> QED BY <2>1 DEF Begun
  <1>2. b = [s EXCEPT !.sess = new_initiator(id), !.last = TRUE, !.attempts = a]
    BY DEF PeerState
  <1>3. t = send_directed(b, {Msg1(n, p, id)})
    BY DEF begin_handshake
  <1>4. b.addr = s.addr /\ b.out = {}
    <2> HIDE DEF a, b
    <2> QED BY <1>2 DEF PeerState
  <1>5. t = [b EXCEPT !.out = {Msg1(n, p, id)}]
    <2> HIDE DEF b, t
    <2> QED BY <1>3, <1>4 DEF send_directed
  <1>6. /\ t.out = {Msg1(n, p, id)} /\ t.last = TRUE
        /\ t.pend = s.pend /\ t.inb = s.inb /\ t.envs = s.envs /\ t.peer = s.peer
        /\ t.addr /\ t.dh = s.dh /\ t.notice = s.notice
        /\ t.thread = s.thread
    <2> HIDE DEF a, b, t
    <2> QED BY <1>2, <1>5 DEF PeerState
  <1> HIDE DEF t
  <1>7. CallsOf(t) = {Msg1(n, p, id)}
    BY <1>6 DEF CallsOf, IsHandshake, Msg1
  <1> QED BY <1>1, <1>6, <1>7 DEF Calls, t

\* Holding an envelope keeps the retry bookkeeping, and the text if there is room.
LEMMA EnvelopeCalm ==
  ASSUME NEW s \in PeerState, NEW x \in Text
  PROVE  LET t == queue_envelope(s, x)
         IN  /\ t.attempts = s.attempts /\ t.last = s.last /\ t.resync = s.resync
             /\ EnvelopeCap > 0 => x \in Elements(t.envs)
  <1> DEFINE r == SubSeq(s.envs, s.aged + 1, Len(s.envs))
             q == Append(r, x)
             over == IF Len(q) > EnvelopeCap THEN Len(q) - EnvelopeCap ELSE 0
             z == SubSeq(q, over + 1, Len(q))
             t == queue_envelope(s, x)
  <1>1. s.envs \in Seq(Text) /\ s.aged \in Nat /\ s.aged + 1 \in Nat
    BY DEF PeerState
  <1>2. r \in Seq(Text)
    BY <1>1
  <1>3. /\ q \in Seq(Text) /\ Len(q) \in Nat /\ Len(q) >= 1 /\ q[Len(q)] = x
    <2> HIDE DEF r
    <2>1. q \in Seq(Text) /\ Len(q) = Len(r) + 1 /\ q[Len(r) + 1] = x /\ Len(r) \in Nat
      BY <1>2
    <2> HIDE DEF q
    <2> QED BY <2>1
  <1>4. t = [s EXCEPT !.envs = z, !.aged = 0]
    BY DEF queue_envelope
  <1>5. t.attempts = s.attempts /\ t.last = s.last /\ t.resync = s.resync /\ t.envs = z
    <2> HIDE DEF z, t
    <2> QED BY <1>4 DEF PeerState
  <1> HIDE DEF t, q
  <1>6. ASSUME EnvelopeCap > 0 PROVE x \in Elements(z)
    <2>1. over \in Nat /\ over + 1 \in 1 .. Len(q) /\ EnvelopeCap \in Nat
      BY <1>3, <1>6, BoundAssumption
    <2> HIDE DEF over
    <2> DEFINE l == Len(q) - over
    <2>2. l \in 1 .. Len(z) /\ z[l] = q[Len(q)]
      <3>1. Len(z) = l /\ l \in Nat /\ l >= 1
        BY <1>3, <2>1
      <3>2. z[l] = q[over + 1 + l - 1]
        BY <1>3, <2>1, <3>1
      <3> HIDE DEF z
      <3> QED BY <1>3, <2>1, <3>1, <3>2
    <2>3. z \in Seq(Text)
      BY <1>3, <2>1
    <2> HIDE DEF z, l
    <2>4. l \in DOMAIN z /\ z[l] = x
      BY <1>3, <2>2, <2>3
    <2> QED BY <2>4 DEF Elements
  <1> QED BY <1>5, <1>6 DEF t

\* A phase allows any ciphertexts to be gone, and is the same seen from both ends.
LEMMA FewerPhase ==
  ASSUME NEW n, NEW p, NEW e, NEW f, NEW r, NEW q, NEW A, NEW B, NEW K, NEW J,
         Phase(n, p, e, f, r, q, A, B, K, J), NEW L \in SUBSET K, NEW M \in SUBSET J
  PROVE  Phase(n, p, e, f, r, q, A, B, L, M)
  <1>1. Opening(e, f, A, B, K, J) => Opening(e, f, A, B, L, M)
    BY DEF Opening
  <1>2. Replied(n, p, e, f, A, B, K, J) => Replied(n, p, e, f, A, B, L, M)
    BY DEF Replied
  <1>3. Replied(p, n, f, e, B, A, J, K) => Replied(p, n, f, e, B, A, M, L)
    BY DEF Replied
  <1>4. Closing(e, f, r, A, B, K, J) => Closing(e, f, r, A, B, L, M)
    BY DEF Closing, Keyed
  <1>5. Closing(f, e, q, B, A, J, K) => Closing(f, e, q, B, A, M, L)
    BY DEF Closing, Keyed
  <1>6. Settled(e, f, r, A, B, K, J) => Settled(e, f, r, A, B, L, M)
    BY DEF Settled, Keyed
  <1>7. Settled(f, e, q, B, A, J, K) => Settled(f, e, q, B, A, M, L)
    BY DEF Settled, Keyed
  <1> QED BY <1>1, <1>2, <1>3, <1>4, <1>5, <1>6, <1>7 DEF Phase

LEMMA SwapPhase ==
  ASSUME NEW n, NEW p, NEW e, NEW f, NEW r, NEW q, NEW A, NEW B, NEW K, NEW J,
         Phase(n, p, e, f, r, q, A, B, K, J)
  PROVE  Phase(p, n, f, e, q, r, B, A, J, K)
  BY DEF Phase, Opening

\* Sending texts.
Passes(s, t, ts) ==
    /\ t.attempts # Absent => t.last
    /\ Mine(t) = Mine(s) \cup Elements(ts)
    /\ t.sess.recvN \in {0, s.sess.recvN}
    /\ s.addr => \A x \in Elements(s.pend) \cup Elements(ts) :
                    x \in Elements(t.pend) \/ Utters(t, x)
    /\ ~s.addr => /\ t.pend = s.pend
                  /\ EnvelopeCap > 0 /\ ts # <<>> => ts[1] \in Elements(t.envs)
    /\ t.envs = s.envs \/ ~s.addr

LEMMA OwnRows ==
  ASSUME NEW s \in PeerState, NEW ts \in Seq(Text)
  PROVE  LET th == [r \in Row |-> s.thread[r] + (IF r[1]
                     THEN Cardinality({k \in DOMAIN ts : ts[k] = r[2]}) ELSE 0)]
             t == [s EXCEPT !.thread = th]
         IN  /\ th \in [Row -> Nat] /\ t \in PeerState
             /\ Mine(t) = Mine(s) \cup Elements(ts)
  <1> DEFINE C(x) == {k \in DOMAIN ts : ts[k] = x}
             c(x) == Cardinality(C(x))
             A(r) == IF r[1] THEN c(r[2]) ELSE 0
             th == [r \in Row |-> s.thread[r] + A(r)]
             t == [s EXCEPT !.thread = th]
  <1>1. \A x : c(x) \in Nat
    BY CountType
  <1>2. \A r \in Row : s.thread[r] \in Nat /\ A(r) \in Nat
    BY <1>1 DEF PeerState
  <1>3. ASSUME NEW x PROVE c(x) > 0 <=> x \in Elements(ts)
    <2>1. C(x) \in SUBSET (1 .. Len(ts)) /\ Len(ts) \in Nat
      OBVIOUS
    <2>2. C(x) # {} <=> x \in Elements(ts)
      BY DEF Elements
    <2> HIDE DEF C
    <2>3. IsFiniteSet(C(x))
      <3>1. IsFiniteSet(1 .. Len(ts))
        BY <2>1, FS_Interval
      <3> QED BY <2>1, <3>1, FS_Subset
    <2>4. c(x) = 0 <=> C(x) = {}
      BY <2>3, FS_EmptySet
    <2>5. c(x) \in Nat
      BY <2>3, FS_CardinalityType
    <2> HIDE DEF c
    <2> QED BY <2>2, <2>4, <2>5
  <1>4. th \in [Row -> Nat]
    <2> HIDE DEF A
    <2> QED BY <1>2
  <1>5. t \in PeerState /\ t.thread = th
    <2> HIDE DEF th
    <2> QED BY <1>4 DEF PeerState
  <1>6. \A x \in Text : Ours(x) \in Row /\ Ours(x)[1] = TRUE /\ Ours(x)[2] = x
    BY DEF Ours, Row, Body
  <1>7. \A x \in Text : /\ s.thread[Ours(x)] \in Nat /\ c(x) \in Nat
                        /\ t.thread[Ours(x)] = s.thread[Ours(x)] + c(x)
    <2>1. \A r \in Row : th[r] = s.thread[r] + A(r)
      <3> HIDE DEF A
      <3> QED OBVIOUS
    <2>2. \A x \in Text : A(Ours(x)) = c(x)
      <3> HIDE DEF c
      <3> QED BY <1>6
    <2> HIDE DEF c, A, th, t
    <2> QED BY <1>1, <1>2, <1>5, <1>6, <2>1, <2>2
  <1> HIDE DEF c, th, t
  <1>8. \A x \in Text : t.thread[Ours(x)] > 0 <=> s.thread[Ours(x)] > 0 \/ c(x) > 0
    BY <1>7
  <1>9. Elements(ts) \subseteq Text
    BY DEF Elements
  <1>10. Mine(t) = Mine(s) \cup Elements(ts)
    BY <1>3, <1>8, <1>9 DEF Mine
  <1> QED BY <1>4, <1>5, <1>10 DEF t, th, c, C

LEMMA SendCalm ==
  ASSUME NEW n \in Node, NEW p \in Node, NEW s \in PeerState, s.out = {},
         NEW ts \in Seq(Text), NEW id \in Nat, Ready(s) => HasSession(s),
         HasSession(s) => s.addr, s.attempts # Absent => s.last
  PROVE  LET t == send_dms(n, p, s, ts, id)
         IN  /\ Goes(s, t) \/ (s.addr /\ ~HasSession(s) /\ Calls(n, p, t, id))
             /\ Passes(s, t, ts)
  <1> DEFINE th == [r \in Row |-> s.thread[r] + (IF r[1]
                     THEN Cardinality({k \in DOMAIN ts : ts[k] = r[2]}) ELSE 0)]
             own == [s EXCEPT !.thread = th]
             queued == [own EXCEPT !.pend = @ \o ts]
             started == begin_handshake(n, p, queued, id)
             NoRetry(q) == [q EXCEPT !.attempts = Absent, !.last = FALSE]
             t == send_dms(n, p, s, ts, id)
  <1>1. th \in [Row -> Nat] /\ own \in PeerState /\ Mine(own) = Mine(s) \cup Elements(ts)
    BY OwnRows
  <1>2. /\ own.sess = s.sess /\ own.out = {} /\ own.pend = s.pend /\ own.envs = s.envs
        /\ own.addr = s.addr /\ own.attempts = s.attempts /\ own.last = s.last
        /\ own.resync = s.resync
    <2> HIDE DEF th
    <2> QED BY <1>1 DEF PeerState
  <1> HIDE DEF own, th
  <1>3. /\ queued \in PeerState /\ queued.sess = s.sess /\ queued.out = {}
        /\ queued.pend = s.pend \o ts /\ queued.envs = s.envs /\ queued.addr = s.addr
        /\ queued.resync = s.resync /\ queued.thread = own.thread
    <2>1. own.pend \o ts \in Seq(Text)
      BY <1>1 DEF PeerState
    <2> QED BY <1>1, <1>2, <2>1 DEF PeerState
  <1> HIDE DEF queued
  <1>4. \A x \in Elements(s.pend) \cup Elements(ts) : x \in Elements(s.pend \o ts)
    <2> DEFINE a == s.pend
    <2>1. a \in Seq(Text) /\ Len(a) \in Nat /\ Len(ts) \in Nat
      BY DEF PeerState
    <2> HIDE DEF a
    <2>2. \A k \in DOMAIN a : k \in DOMAIN (a \o ts) /\ (a \o ts)[k] = a[k]
      BY <2>1
    <2>3. \A k \in DOMAIN ts : /\ k + Len(a) \in DOMAIN (a \o ts)
                               /\ (a \o ts)[k + Len(a)] = ts[k]
      BY <2>1
    <2>4. /\ \A k \in DOMAIN a : a[k] \in Elements(a \o ts)
          /\ \A k \in DOMAIN ts : ts[k] \in Elements(a \o ts)
      <3> DEFINE b == a \o ts
      <3>1. /\ \A k \in DOMAIN a : k \in DOMAIN b /\ b[k] = a[k]
            /\ \A k \in DOMAIN ts : /\ k + Len(a) \in DOMAIN b
                                     /\ b[k + Len(a)] = ts[k]
        BY <2>2, <2>3
      <3> HIDE DEF b
      <3> QED BY <3>1 DEF Elements, b
    <2>5. \A x \in Elements(a) \cup Elements(ts) : x \in Elements(a \o ts)
      <3> DEFINE E == Elements(a \o ts)
      <3>1. /\ \A k \in DOMAIN a : a[k] \in E
            /\ \A k \in DOMAIN ts : ts[k] \in E
        BY <2>4
      <3> HIDE DEF E
      <3>2. \A x \in Elements(a) \cup Elements(ts) : x \in E
        BY <3>1 DEF Elements
      <3> QED BY <3>2 DEF E
    <2> QED BY <2>5 DEF a
  <1>5. \A q : Mine(q) = Mine(s) \cup Elements(ts) <=> Mine(q) = Mine(own)
    BY <1>1
  <1>6. \A q : q.thread = own.thread => Mine(q) = Mine(own)
    BY DEF Mine
  <1>7. s.sess.recvN \in {0, s.sess.recvN} /\ new_initiator(id).recvN = 0
        /\ HalfOf(s.sess) = HalfOf(s.sess)
    BY DEF new_initiator, NoSession
  <1>8. CallsOf(s) = {} /\ (\A q : q.out = {} => CallsOf(q) = {})
    BY DEF CallsOf
  <1>9. CASE ts = <<>>
    <2>1. t = s
      BY <1>9 DEF send_dms
    <2>2. Elements(ts) = {}
      BY <1>9, NoneDistinct
    <2> HIDE DEF t
    <2> QED BY <1>7, <1>8, <1>9, <2>1, <2>2 DEF Goes, Passes, t
  <1>10. CASE ts # <<>> /\ Ready(s)
    <2>1. t = encrypt_and_send(n, p, own, ts)
      BY <1>10 DEF send_dms, own, th, Handshaking
    <2>2. ts \in Seq(Body)
      BY SeqMonotonic DEF Body
    <2> HIDE DEF t
    <2>3. /\ Works(n, p, own, t) /\ Beside(own, t) /\ t.thread = own.thread
          /\ t.sess.recvN = own.sess.recvN /\ Apart(own, t) /\ t.resync = own.resync
          /\ own.addr => \A k \in DOMAIN ts : Utters(t, ts[k])
      BY <1>1, <2>1, <2>2, EncryptWorks
    <2>4. HalfOf(t.sess) = HalfOf(s.sess)
      BY <1>2, <2>3 DEF Works
    <2>5. Goes(s, t)
      BY <1>2, <1>8, <2>3, <2>4 DEF Goes, Apart
    <2>6. s.addr /\ HasSession(s)
      BY <1>10
    <2>7. \A x \in Elements(ts) : Utters(t, x)
      BY <1>2, <2>3, <2>6 DEF Elements
    <2>8. Passes(s, t, ts)
      BY <1>1, <1>2, <1>6, <2>3, <2>6, <2>7 DEF Passes, Apart, Beside
    <2> QED BY <2>5, <2>8 DEF t
  <1>11. CASE ts # <<>> /\ ~Ready(s) /\ ~s.addr
    <2>1. t = queue_envelope(own, ts[1])
      BY <1>11 DEF send_dms, own, th, Handshaking
    <2>2. ts[1] \in Text
      BY <1>11
    <2> HIDE DEF t
    <2>3. /\ t.sess = own.sess /\ t.out = own.out /\ t.pend = own.pend
          /\ t.thread = own.thread
      BY <1>1, <2>1, <2>2, EnvelopeMove
    <2>4. /\ t.attempts = own.attempts /\ t.last = own.last /\ t.resync = own.resync
          /\ EnvelopeCap > 0 => ts[1] \in Elements(t.envs)
      BY <1>1, <2>1, <2>2, EnvelopeCalm
    <2>5. Goes(s, t)
      BY <1>2, <1>8, <2>3, <2>4 DEF Goes
    <2>6. Passes(s, t, ts)
      BY <1>1, <1>2, <1>6, <1>11, <2>3, <2>4 DEF Passes
    <2> QED BY <2>5, <2>6 DEF t
  <1>12. CASE ts # <<>> /\ Handshaking(s) /\ s.addr
    <2>1. t = NoRetry(queued)
      BY <1>12 DEF send_dms, own, th, queued, Handshaking
    <2>2. /\ t.sess = s.sess /\ t.out = {} /\ t.pend = s.pend \o ts /\ t.envs = s.envs
          /\ t.resync = s.resync /\ t.thread = own.thread /\ t.attempts = Absent
      <3> HIDE DEF t
      <3> QED BY <1>3, <2>1 DEF PeerState
    <2> HIDE DEF t
    <2>3. Goes(s, t)
      BY <1>7, <1>8, <2>2 DEF Goes
    <2>4. Passes(s, t, ts)
      BY <1>1, <1>4, <1>6, <1>7, <1>12, <2>2 DEF Passes
    <2> QED BY <2>3, <2>4 DEF t
  <1>13. CASE ts # <<>> /\ ~HasSession(s) /\ s.addr
    <2>1. /\ started \in PeerState /\ Calls(n, p, started, id) /\ started.last
          /\ started.pend = queued.pend /\ started.envs = queued.envs
          /\ started.thread = queued.thread
      BY <1>3, <1>13, BeginCalls
    <2>2. t = started \/ t = NoRetry(started)
      <3>1. ~Ready(s) /\ ~Handshaking(s)
        BY <1>13 DEF Handshaking
      <3> QED BY <1>13, <3>1 DEF send_dms, own, th, queued, started, NoRetry
    <2> HIDE DEF started
    <2>3. LET q == NoRetry(started)
          IN  /\ q.sess = started.sess /\ q.out = started.out /\ q.pend = started.pend
              /\ q.envs = started.envs /\ q.thread = started.thread /\ q.attempts = Absent
      BY <2>1 DEF PeerState
    <2> HIDE DEF t, NoRetry
    <2>4. /\ t.sess = started.sess /\ t.out = started.out /\ t.pend = queued.pend
          /\ t.envs = s.envs /\ t.thread = own.thread
          /\ t.attempts = Absent \/ t.last
      BY <1>3, <2>1, <2>2, <2>3
    <2>5. Calls(n, p, t, id)
      BY <2>1, <2>4 DEF Calls, CallsOf
    <2>6. t.sess.recvN = 0
      BY <1>7, <2>1, <2>4 DEF Calls
    <2>7. t.attempts # Absent => t.last
      BY <2>4
    <2>8. Mine(t) = Mine(s) \cup Elements(ts)
      BY <1>1, <1>6, <2>4
    <2>9. \A x \in Elements(s.pend) \cup Elements(ts) : x \in Elements(t.pend)
      BY <1>3, <1>4, <2>4
    <2>10. Passes(s, t, ts)
      BY <1>13, <2>4, <2>6, <2>7, <2>8, <2>9 DEF Passes
    <2> QED BY <1>13, <2>5, <2>10 DEF t
  <1> QED BY <1>9, <1>10, <1>11, <1>12, <1>13 DEF Handshaking

(***************************************************************************)
(* What the steps of n about p do to the phase, when they take the packets *)
(* D out of the mesh.                                                      *)
(***************************************************************************)
Underway(n, p) == {m \in net : IsHandshake(m) /\ m.src = n /\ m.dst = p}

PhaseOf(n, p) ==
    Phase(n, p, st[n][p].sess, st[p][n].sess, st[n][p].resync, st[p][n].resync,
          Underway(n, p), Underway(p, n), Known(n, p), Known(p, n))

NoCall(D) == \A m \in D : ~IsHandshake(m)
Fresh(s) == s.sess.role = "none"
Initiating(s) == s.sess.role = "init" /\ ~s.sess.ready

Drops(s, t, m) ==
    /\ HalfOf(t.sess) = HalfOf(s.sess) /\ t.resync = s.resync /\ CallsOf(t) = {}
    /\ Fresh(s) \/ (Initiating(s) /\ m.type = "msg1")
Counts(s, t) ==
    /\ HalfOf(t.sess) = HalfOf(s.sess) /\ t.resync = s.resync + 1 /\ CallsOf(t) = {}
    /\ s.sess.ready
Begins(n, p, s, t, x) ==
    /\ Calls(n, p, t, x)
    /\ Fresh(s) \/ (~s.sess.ready /\ Underway(n, p) = {} /\ Underway(p, n) = {})
Answers(n, p, s, t, x, m) ==
    /\ t.sess = new_responder(x, FirstKey(m))
    /\ CallsOf(t) = {Msg2(n, p, FirstKey(m), x, dhkey[n])}
    /\ Fresh(s) \/ (Initiating(s) /\ m.type = "msg1" /\ ~(n < p))
Initiates(n, p, s, t, m) ==
    /\ m.type = "msg2" /\ Initiating(s) /\ m.i = s.sess.own
    /\ HalfOf(t.sess) = ReadyHalfOf(s.sess, m.r) /\ t.resync = 0
    /\ CallsOf(t) = {Msg3(n, p, m.i, m.r, dhkey[n])}
Concludes(s, t, m) ==
    /\ m.type = "msg3" /\ s.sess.role = "resp" /\ ~s.sess.ready
    /\ HalfOf(t.sess) = ReadyHalfOf(s.sess, s.sess.re) /\ CallsOf(t) = {}

PhaseMove(n, p, s, t, D, x) ==
    \/ NoCall(D) /\ (Goes(s, t) \/ Begins(n, p, s, t, x))
    \/ \E m \in D : /\ D = {m} /\ IsHandshake(m)
                    /\ \/ Drops(s, t, m) \/ Counts(s, t)
                       \/ Answers(n, p, s, t, x, m)
                       \/ Initiates(n, p, s, t, m) \/ Concludes(s, t, m)

LEMMA PhaseKept ==
  ASSUME NEW n \in Node, NEW p \in Node, n # p, PhaseOf(n, p),
         st[n][p] \in PeerState, st[p][n] \in PeerState, NEW t \in PeerState,
         NEW D, \A m \in D : m \in net /\ m.src = p /\ m.dst = n,
         NEW x \in Nat, PhaseMove(n, p, st[n][p], t, D, x),
         Underway(n, p)' = Underway(n, p) \cup CallsOf(t),
         Underway(p, n)' = Underway(p, n) \ D,
         st'[n][p].sess = t.sess, st'[n][p].resync = t.resync, st'[p][n] = st[p][n],
         Known(p, n)' \subseteq Known(p, n),
         \A m \in Known(n, p)' : \/ m \in Known(n, p)
                                 \/ t.sess.ready /\ m.i = KeyI(t.sess) /\ m.r = KeyR(t.sess)
  PROVE  PhaseOf(n, p)'
  <1> DEFINE s == st[n][p]
             e == s.sess
             g == t.sess
             r == s.resync
             f == st[p][n].sess
             q == st[p][n].resync
             A == Underway(n, p)
             B == Underway(p, n)
             K == Known(n, p)
             J == Known(p, n)
             L == Known(p, n)'
             N == Known(n, p)' \ Known(n, p)
  <1>1. n \in Nat /\ p \in Nat /\ r \in Nat /\ q \in Nat /\ t.resync \in Nat
    BY NodeAssumption DEF PeerState
  <1>2. Phase(n, p, e, f, r, q, A, B, K, J)
    BY DEF PhaseOf
  <1>3. \A m \in N : g.ready /\ m.i = KeyI(g) /\ m.r = KeyR(g)
    OBVIOUS
  <1>4. L \in SUBSET J /\ J \in SUBSET J
    OBVIOUS
  <1>5. \A m \in D : IsHandshake(m) => m \in B
    BY DEF Underway
  <1>6. \A m \in B : IsHandshake(m)
    BY DEF Underway
  <1> HIDE DEF r, q, A, B, K, J, L, N, f
  <1>7. SUFFICES Phase(n, p, g, f, t.resync, q, A \cup CallsOf(t), B \ D, K \cup N, L)
    <2>1. Known(n, p)' \subseteq K \cup N
      BY DEF K, N
    <2>2. Phase(n, p, g, f, t.resync, q, A \cup CallsOf(t), B \ D, Known(n, p)', L)
      BY <1>7, <2>1, FewerPhase
    <2> QED BY <2>2 DEF PhaseOf, A, B, L, f, q
  <1>8. HalfOf(g) = HalfOf(e) =>
          /\ g.ready = e.ready
          /\ Sealed(e, N)
    <2> SUFFICES ASSUME HalfOf(g) = HalfOf(e)
                 PROVE  g.ready = e.ready /\ KeyI(g) = KeyI(e) /\ KeyR(g) = KeyR(e)
      BY <1>3 DEF Sealed
    <2> QED BY DEF HalfOf, KeyI, KeyR
  <1>9. CASE NoCall(D) /\ Goes(s, t)
    <2>1. HalfOf(g) = HalfOf(e) /\ t.resync \in {r, 0} /\ CallsOf(t) = {}
      BY <1>9 DEF Goes, r
    <2>2. Phase(n, p, g, f, t.resync, q, A, B, K \cup N, L)
      <3>1. Sealed(e, N)
        BY <1>8, <2>1
      <3>2. HalfOf(g) = HalfOf(e)
        BY <2>1
      <3>3. /\ Phase(n, p, g, f, r, q, A, B, K \cup N, J)
            /\ Phase(n, p, g, f, 0, q, A, B, K \cup N, J)
        BY <1>1, <1>2, <3>1, <3>2, StayPhase
      <3>4. Phase(n, p, g, f, t.resync, q, A, B, K \cup N, J)
        BY <2>1, <3>3
      <3> HIDE DEF e, g
      <3> QED BY <1>4, <3>4, FewerPhase
    <2>3. B \ D = B
      BY <1>6, <1>9 DEF NoCall
    <2> QED BY <2>1, <2>2, <2>3
  <1>10. CASE NoCall(D) /\ Begins(n, p, s, t, x)
    <2>1. /\ g = new_initiator(x) /\ CallsOf(t) = {Msg1(n, p, x)}
          /\ e.role = "none" \/ (~e.ready /\ A = {} /\ B = {})
      BY <1>10 DEF Begins, Calls, Fresh, A, B
    <2>2. ~g.ready /\ g.role = "init" /\ g.own = x
      BY <2>1 DEF new_initiator, NoSession
    <2>3. Msg1(n, p, x).type = "msg1" /\ Msg1(n, p, x).i = x
      BY DEF Msg1
    <2>4. Phase(n, p, g, f, t.resync, q, A \cup CallsOf(t), B, K, J)
      BY <1>1, <1>2, <2>1, <2>2, <2>3, BeginPhase
    <2>5. N = {} /\ B \ D = B
      BY <1>3, <1>6, <1>10, <2>2 DEF NoCall
    <2>6. K \cup N = K
      BY <2>5
    <2> HIDE DEF e, g
    <2>7. Phase(n, p, g, f, t.resync, q, A \cup CallsOf(t), B, K, L)
      BY <1>4, <2>4, FewerPhase
    <2> QED BY <2>5, <2>6, <2>7
  <1>11. ASSUME NEW m \in D, D = {m}, IsHandshake(m), Drops(s, t, m)
         PROVE  Phase(n, p, g, f, t.resync, q, A \cup CallsOf(t), B \ D, K \cup N, L)
    <2>1. /\ HalfOf(g) = HalfOf(e) /\ t.resync = r /\ CallsOf(t) = {} /\ m \in B
          /\ e.role = "none" \/ (e.role = "init" /\ ~e.ready /\ m.type = "msg1")
      BY <1>5, <1>11 DEF Drops, Fresh, Initiating, r
    <2>2. Phase(n, p, e, f, r, q, A, B \ {m}, K, J)
      BY <1>1, <1>2, <2>1, DiscardPhase
    <2>3. Phase(n, p, g, f, t.resync, q, A, B \ {m}, K \cup N, L)
      <3>1. t.resync \in {r, 0}
        BY <2>1
      <3> DEFINE C == B \ {m}
      <3> HIDE DEF C
      <3>2. Phase(n, p, e, f, r, q, A, C, K, J)
        BY <2>2 DEF C
      <3>3. Phase(n, p, g, f, r, q, A, C, K \cup N, J)
        BY <1>1, <1>8, <2>1, <3>2, StayPhase
      <3> HIDE DEF e, g
      <3>4. Phase(n, p, g, f, r, q, A, C, K \cup N, L)
        BY <1>4, <3>3, FewerPhase
      <3> QED BY <2>1, <3>4 DEF C
    <2> QED BY <1>11, <2>1, <2>3
  <1>12. ASSUME NEW m \in D, D = {m}, IsHandshake(m), Counts(s, t)
         PROVE  Phase(n, p, g, f, t.resync, q, A \cup CallsOf(t), B \ D, K \cup N, L)
    <2>1. /\ HalfOf(g) = HalfOf(e) /\ t.resync = r + 1 /\ CallsOf(t) = {} /\ m \in B
          /\ e.ready
      BY <1>5, <1>12 DEF Counts, r
    <2>2. Phase(n, p, e, f, r + 1, q, A, B \ {m}, K, J)
      BY <1>1, <1>2, <2>1, IgnorePhase
    <2>3. Phase(n, p, g, f, t.resync, q, A, B \ {m}, K \cup N, L)
      <3> DEFINE C == B \ {m}
                 y == r + 1
      <3>1. t.resync \in {y, 0} /\ y \in Nat
        BY <1>1, <2>1
      <3> HIDE DEF C, y
      <3>2. Phase(n, p, e, f, y, q, A, C, K, J)
        BY <2>2 DEF C, y
      <3>3. Phase(n, p, g, f, t.resync, q, A, C, K \cup N, L)
        <4>1. Sealed(e, N)
          BY <1>8, <2>1
        <4>2. HalfOf(g) = HalfOf(e)
          BY <2>1
        <4>3. Phase(n, p, g, f, y, q, A, C, K \cup N, J)
          BY <1>1, <3>1, <3>2, <4>1, <4>2, StayPhase
        <4> HIDE DEF e, g
        <4>4. Phase(n, p, g, f, y, q, A, C, K \cup N, L)
          BY <1>4, <4>3, FewerPhase
        <4> QED BY <2>1, <4>4 DEF y
      <3> QED BY <3>3 DEF C
    <2> QED BY <1>12, <2>1, <2>3
  <1>13. ASSUME NEW m \in D, D = {m}, IsHandshake(m), Answers(n, p, s, t, x, m)
         PROVE  Phase(n, p, g, f, t.resync, q, A \cup CallsOf(t), B \ D, K \cup N, L)
    <2> DEFINE k == Msg2(n, p, FirstKey(m), x, dhkey[n])
    <2>1. /\ g = new_responder(x, FirstKey(m)) /\ CallsOf(t) = {k} /\ m \in B
          /\ \/ e.role = "none"
             \/ e.role = "init" /\ ~e.ready /\ m.type = "msg1" /\ ~(n < p)
      BY <1>5, <1>13 DEF Answers, Fresh, Initiating
    <2>2. ~g.ready /\ g.role = "resp" /\ g.own = x /\ g.re = FirstKey(m)
      BY <2>1 DEF new_responder, NoSession
    <2>3. k.type = "msg2" /\ k.i = FirstKey(m) /\ k.r = x
      BY DEF Msg2
    <2> HIDE DEF k
    <2>4. Phase(n, p, g, f, t.resync, q, A \cup {k}, B \ {m}, K, J)
      BY <1>1, <1>2, <2>1, <2>2, <2>3, ReplyPhase
    <2>5. N = {}
      BY <1>3, <2>2
    <2> QED BY <1>4, <1>13, <2>1, <2>4, <2>5, FewerPhase
  <1>14. ASSUME NEW m \in D, D = {m}, IsHandshake(m), Initiates(n, p, s, t, m)
         PROVE  Phase(n, p, g, f, t.resync, q, A \cup CallsOf(t), B \ D, K \cup N, L)
    <2> DEFINE k == Msg3(n, p, m.i, m.r, dhkey[n])
    <2>1. /\ m.type = "msg2" /\ ~e.ready /\ e.role = "init" /\ m.i = e.own
          /\ HalfOf(g) = ReadyHalfOf(e, m.r) /\ t.resync = 0 /\ CallsOf(t) = {k} /\ m \in B
      BY <1>5, <1>14 DEF Initiates, Initiating
    <2>2. g.ready /\ g.role = "init" /\ g.own = e.own /\ g.re = m.r
      BY <2>1 DEF HalfOf, ReadyHalfOf
    <2>3. k.type = "msg3" /\ k.i = g.own /\ k.r = m.r
      BY <2>1, <2>2 DEF Msg3
    <2>4. \A a \in N : a.i = g.own /\ a.r = g.re
      BY <1>3, <2>2 DEF KeyI, KeyR
    <2> HIDE DEF k
    <2>5. Phase(n, p, g, f, 0, q, A \cup {k}, B \ {m}, K \cup N, L)
      <3> HIDE DEF e, g
      <3> QED BY <1>1, <1>2, <1>4, <2>1, <2>2, <2>3, <2>4, ReadyPhase
    <2> QED BY <1>14, <2>1, <2>5
  <1>15. ASSUME NEW m \in D, D = {m}, IsHandshake(m), Concludes(s, t, m)
         PROVE  Phase(n, p, g, f, t.resync, q, A \cup CallsOf(t), B \ D, K \cup N, L)
    <2>1. /\ m.type = "msg3" /\ ~e.ready /\ e.role = "resp"
          /\ HalfOf(g) = ReadyHalfOf(e, e.re) /\ CallsOf(t) = {} /\ m \in B
      BY <1>5, <1>15 DEF Concludes
    <2>2. g.ready /\ g.role = "resp" /\ g.own = e.own /\ g.re = e.re
      BY <2>1 DEF HalfOf, ReadyHalfOf
    <2>3. \A a \in N : a.i = g.re /\ a.r = g.own
      BY <1>3, <2>2 DEF KeyI, KeyR
    <2>4. Phase(n, p, g, f, t.resync, q, A, B \ {m}, K \cup N, L)
      BY <1>1, <1>2, <1>4, <2>1, <2>2, <2>3, SettledPhase
    <2> QED BY <1>15, <2>1, <2>4
  <1> QED BY <1>9, <1>10, <1>11, <1>12, <1>13, <1>14, <1>15 DEF PhaseMove

(***************************************************************************)
(* What any step may add: ciphertexts of a ready session that carry a held *)
(* text, the text of the step, a notice or an ack; rows of the peer for    *)
(* ciphertexts that were there; and no held text but that of the step.     *)
(***************************************************************************)
Fits(a, b, m) ==
    LET s == st[a][b]
        t == st'[a][b]
    IN  /\ t.sess.ready /\ m.i = KeyI(t.sess) /\ m.r = KeyR(t.sess)
        /\ m.body \in Body
        /\ m.body \in Text => m.body \in HeldSet(s) \cup (sent' \ sent)
        /\ m.body = "notice" => s.notice \/ t.peer.verified
        /\ m.body = "ack" => \E c \in Known(b, a) : c.body = "notice"

Arrives(a, b) ==
    /\ \A m \in Known(a, b)' : m \in Known(a, b) \/ Fits(a, b, m)
    /\ \A x \in Body : st'[a][b].thread[Theirs(x)] > st[a][b].thread[Theirs(x)] =>
          \E c \in Known(b, a) : c.body = x
    /\ HeldSet(st'[a][b]) \subseteq HeldSet(st[a][b]) \cup (sent' \ sent)

LEMMA Arrivals ==
  ASSUME DInv, IInv', Proved!PairInv', Next, NEW a \in Node, NEW b \in Node, a # b
  PROVE  Arrives(a, b)
  <1>1. \A x \in Body : st[a][b].thread[Theirs(x)] \in Nat
    BY RowFacts, TheirsType DEF DInv
  <1>2. \A x \in Body : ~(st[a][b].thread[Theirs(x)] > st[a][b].thread[Theirs(x)])
    BY <1>1
  <1>3. CASE \E n, p \in Node : \E t, F : MoveStep(n, p, t, F)
    <2>1. PICK n \in Node, p \in Node : \E t, F : MoveStep(n, p, t, F)
      BY <1>3
    <2>2. PICK t, F : MoveStep(n, p, t, F)
      BY <2>1
    <2>3. /\ Known(n, p)' \subseteq Known(n, p) \cup New(st[n][p], t)
          /\ \A c, d \in Node : c # d /\ (c # n \/ d # p) => Known(c, d)' \subseteq Known(c, d)
      BY <2>2, MoveKnown
    <2>4. Framed(n, p, t)
      BY <2>2, MoveFrame
    <2>5. CASE a # n \/ b # p
      <3>1. st'[a][b] = st[a][b]
        BY <2>4, <2>5 DEF Framed
      <3> QED BY <1>2, <2>3, <2>5, <3>1 DEF Arrives
    <2>6. CASE a = n /\ b = p
      <3> DEFINE s == st[n][p]
      <3>1. /\ SessMove(n, p, s, t, next) /\ TextMove(s, t, F)
            /\ Takes(s, t, Known(p, n)) /\ TrustMove(s, t, Known(p, n))
            /\ F \cap sent = {} /\ sent' = sent \cup F
        BY <2>2 DEF MoveStep, Move
      <3>2. /\ st'[n][p].sess = t.sess /\ st'[n][p].thread = t.thread
            /\ st'[n][p].peer = t.peer /\ st'[n][p].pend = t.pend /\ st'[n][p].envs = t.envs
        BY <2>4 DEF Framed
      <3>3. Single(s) /\ F \cap HeldSet(s) = {}
        BY <2>6, <3>1 DEF DInv, TextInv, Kept
      <3>4. F \subseteq sent' \ sent
        BY <3>1
      <3>5. /\ HeldSet(t) \subseteq HeldSet(s) \cup F
            /\ \A m \in New(s, t) : m.body \in Text => m.body \in HeldSet(s) \cup F
        BY <3>1, <3>3 DEF TextMove
      <3>6. \A m \in New(s, t) : /\ t.sess.ready /\ m.i = KeyI(t.sess) /\ m.r = KeyR(t.sess)
                                 /\ m.body \in Body
        <4>1. \A m \in New(s, t) : t.sess.ready /\ Under(n, p, t.sess, m)
          BY <3>1 DEF SessMove, GoesOn, Ends, Starts
        <4> QED BY <4>1 DEF Under, Ciphertext
      <3>7. \A m \in New(s, t) : /\ m.body = "notice" => s.notice \/ t.peer.verified
                                 /\ m.body = "ack" => \E c \in Known(p, n) : c.body = "notice"
        BY <3>1 DEF TrustMove
      <3>8. \A m \in New(s, t) : Fits(n, p, m)
        BY <3>2, <3>4, <3>5, <3>6, <3>7 DEF Fits
      <3>9. \A x \in Body : t.thread[Theirs(x)] > s.thread[Theirs(x)] =>
               \E c \in Known(p, n) : c.body = x
        BY <3>1 DEF Takes
      <3>10. HeldSet(st'[n][p]) = HeldSet(t)
        BY <3>2 DEF HeldSet
      <3> QED BY <2>3, <2>6, <3>2, <3>4, <3>5, <3>8, <3>9, <3>10 DEF Arrives
    <2> QED BY <2>5, <2>6
  <1>4. CASE Idle
    <2>1. Known(a, b)' \subseteq Known(a, b)
      BY <1>4, IdleKnown
    <2>2. IdleRow(st[a][b], st'[a][b])
      BY <1>4 DEF Idle
    <2>3. HeldSet(st'[a][b]) \subseteq HeldSet(st[a][b])
      BY <2>2, NoneDistinct DEF IdleRow, HeldSet
    <2>4. \A x \in Body : ~(st'[a][b].thread[Theirs(x)] > st[a][b].thread[Theirs(x)])
      BY <1>1, <1>2, <2>2 DEF IdleRow
    <2> QED BY <2>1, <2>3, <2>4 DEF Arrives
  <1> QED BY <1>3, <1>4, MoveCases

(***************************************************************************)
(* The bounded events.                                                     *)
(***************************************************************************)
CalmEvent == {"send", "start", "verify", "petname"}
Unscanned == Calm /\ used["verify"] = 0

LEMMA SpendGrows ==
  ASSUME IInv, NEW ev \in Event, Spend(ev)
  PROVE  /\ \A e \in Event : used[e] \in Nat /\ used'[e] \in {used[e], used[e] + 1}
         /\ used'[ev] = used[ev] + 1
  BY DEF IInv, TypeOK, Spend

\* In a calm mesh only the calm events are spent.
LEMMA CalmSpends ==
  ASSUME IInv, NEW ev \in Event, Spend(ev)
  PROVE  Calm' => ev \in CalmEvent
  <1> SUFFICES ASSUME Calm', ev \notin CalmEvent PROVE FALSE
    OBVIOUS
  <1>1. used'[ev] = 0
    BY DEF Calm, CalmEvent
  <1> QED BY <1>1, SpendGrows

LEMMA UnscannedSpends ==
  ASSUME IInv, Spend("verify")
  PROVE  ~Unscanned'
  <1>1. "verify" \in Event
    BY DEF Event
  <1>2. used'["verify"] = used["verify"] + 1 /\ used["verify"] \in Nat
    BY <1>1, SpendGrows
  <1> QED BY <1>2 DEF Unscanned

LEMMA NextSpends ==
  ASSUME Next
  PROVE  used' = used \/ \E ev \in Event : Spend(ev)
  <1>0. Event = {"send", "verify", "unverify", "forget", "start", "petname", "wipe",
                 "restart", "upgrade", "age", "lose", "dup", "late", "stale"}
    BY DEF Event
  <1>1. \A n, p, s, ev : ev \in Event /\ Command(ev, n, p, s) => \E e \in Event : Spend(e)
    BY DEF Command
  <1>2. \A m, s : Receive(m, s) => used' = used \/ \E e \in Event : Spend(e)
    BY <1>0 DEF Receive
  <1>3. ASSUME NEW n \in Node, NEW p \in Node, UserStep(n, p)
        PROVE  \E ev \in Event : Spend(ev)
    <2>1. \/ \E s : Command("send", n, p, s) \/ Command("verify", n, p, s)
                    \/ Command("unverify", n, p, s) \/ Command("forget", n, p, s)
                    \/ Command("start", n, p, s) \/ Command("petname", n, p, s)
      BY <1>3 DEF UserStep, SendDm, VerifyPeer, UnverifyPeer, ForgetPeer, StartDmSession,
                  SetPetname
    <2> QED BY <1>0, <1>1, <2>1
  <1>4. ASSUME NEW n \in Node, NEW p \in Node,
               \/ ReceiveAnnounce(n, p)
               \/ \E k \in 1 .. dhkey[p] : ReceiveStaleAnnounce(n, p, k)
               \/ RetryStalledHandshake(n, p)
        PROVE  used' = used \/ \E ev \in Event : Spend(ev)
    BY <1>0, <1>1, <1>4
       DEF ReceiveAnnounce, ReceiveStaleAnnounce, RetryStalledHandshake, RetryIsDue
  <1>5. ASSUME NEW n \in Node, NodeStep(n)
        PROVE  \E ev \in Event : Spend(ev)
    BY <1>0, <1>5 DEF NodeStep, PanicWipe, Restart, Upgrade, WholeNode
  <1>6. ASSUME NEW m \in net, PacketStep(m)
        PROVE  used' = used \/ \E ev \in Event : Spend(ev)
    <2>1. \E s : Receive(m, s)
      BY <1>6 DEF PacketStep, HandshakeStep, ReceiveUnresolved, IgnoreRetransmit,
              SupersedeZombie, KeepInitiating, YieldAndRespond, RespondFresh, Respond,
              CompleteInitiator, CompleteResponder, FailRead, BufferEarlyDm, ReceiveDm
    <2> QED BY <1>2, <2>1
  <1>7. ASSUME NEW n \in Node, NEW p \in Node, AgeEnvelopes(n, p)
        PROVE  \E ev \in Event : Spend(ev)
    BY <1>0, <1>7 DEF AgeEnvelopes
  <1>8. ASSUME NEW m \in net, Lose(m)
        PROVE  \E ev \in Event : Spend(ev)
    BY <1>0, <1>8 DEF Lose
  <1> QED BY <1>3, <1>4, <1>5, <1>6, <1>7, <1>8 DEF Next

\* A mesh that is calm after a step was calm before it.
LEMMA CalmBefore ==
  ASSUME IInv, [Next]_vars
  PROVE  (Calm' => Calm) /\ (Unscanned' => Unscanned)
  <1>1. \A e \in Event : used[e] \in Nat /\ used'[e] \in {used[e], used[e] + 1}
    <2>1. used \in [Event -> Nat]
      BY DEF IInv, TypeOK
    <2>2. CASE used' = used
      BY <2>1, <2>2
    <2>3. CASE \E ev \in Event : Spend(ev)
      BY <2>3, SpendGrows
    <2> QED BY <2>2, <2>3, NextSpends DEF vars
  <1>2. \A e \in Event : used'[e] = 0 => used[e] = 0
    BY <1>1
  <1>3. "verify" \in Event
    BY DEF Event
  <1> QED BY <1>2, <1>3 DEF Calm, Unscanned

(***************************************************************************)
(* A calm step of n about p, which takes the packets D out of the mesh and *)
(* is given the texts G.  What it does to the texts, when nobody scans:    *)
(* the thread has the held texts and those of the step, and the only text  *)
(* of the thread stays held or goes out; the receiving nonce moves only    *)
(* with a ciphertext that is shown, and the only ciphertext stays in       *)
(* flight, is kept or is shown.                                            *)
(***************************************************************************)
Writing(s, t, G) ==
    /\ Mine(s) \cup G \subseteq Mine(t) /\ Mine(t) \subseteq Mine(s) \cup HeldSet(s) \cup G
    /\ t.notice = s.notice /\ t.peer.verified = s.peer.verified
    /\ \A x \in HeldSet(s) \cup G : Mine(t) = {x} => Keeps(s, t, x)

Reading(n, p, s, t, D) ==
    /\ Yours(s) \subseteq Yours(t)
    /\ \/ t.sess.recvN \in {0, s.sess.recvN}
       \/ \E c \in Known(p, n) : t.thread[Theirs(c.body)] > 0
    /\ \A m \in Known(p, n) : Known(p, n) = {m} /\ s.sess.recvN = 0 =>
          \/ m \in Elements(t.inb) \/ m \in net \ D
          \/ t.thread[Theirs(m.body)] > 0

\* There is room for a text held back and for a ciphertext that is early.
Roomy == InboundCap > 0 /\ EnvelopeCap > 0

\* The ciphertexts of a step go to p, and the ones it keeps are p's.
Posts(n, p, t) ==
    /\ \A m \in t.out : m.type = "dm" => m.src = n /\ m.dst = p
    /\ Elements(t.inb) \subseteq Known(p, n)

CalmMove(n, p, s, t, D, G) ==
    /\ t \in PeerState /\ Posts(n, p, t)
    /\ \A m \in D : m \in net /\ m.src = p /\ m.dst = n
    /\ PhaseMove(n, p, s, t, D, next)
    /\ Reached(t, dhkey[p])
    /\ Roomy /\ Unscanned' => Writing(s, t, G) /\ Reading(n, p, s, t, D)

CalmStep(n, p, t, D, G) ==
    /\ n # p /\ CalmMove(n, p, st[n][p], t, D, G) /\ Commit(n, p, t)
    /\ net' = (net \ D) \cup t.out /\ dhkey' = dhkey /\ sent' = sent \cup G

\* The invariants.  In a calm mesh a packet names the key its sender has, and
\* the two ends are in one of the phases.
TrueStatics == \A m \in net : m.type \in {"msg2", "msg3"} => m.s = dhkey[m.src]

CalmInv == /\ TrueStatics
           /\ \A n, p \in Node : n # p => Reached(st[n][p], dhkey[p]) /\ PhaseOf(n, p)

\* When nobody scans, only texts are sent; all that is held, on the way or
\* shown is in the thread of its sender; a session that has read something has
\* shown a text; and the only text of a thread is somewhere.
Mail(n, p) ==
    LET s == st[n][p]
        r == st[p][n]
    IN  /\ ~s.notice /\ ~s.peer.verified
        /\ HeldSet(s) \subseteq Mine(s)
        /\ \A m \in Known(n, p) : m.body \in Mine(s)
        /\ Yours(r) \subseteq Mine(s)
        /\ r.sess.recvN > 0 => Yours(r) # {}
        /\ \A x \in Mine(s) : Mine(s) = {x} =>
              \/ x \in HeldSet(s) \/ x \in Yours(r)
              \/ \E m \in Known(n, p) : m.body = x

MailInv == /\ \A n \in Node : Mine(st[n][n]) = {}
           /\ \A n, p \in Node : n # p => Mail(n, p)

Quietly == DInv /\ CalmInv /\ Next /\ Calm' /\ (Roomy /\ Unscanned => MailInv)

LEMMA StillReads ==
  ASSUME NEW n, NEW p, NEW t, Yours(t) = Yours(st[n][p]),
         t.sess.recvN \in {0, st[n][p].sess.recvN},
         Elements(st[n][p].inb) \subseteq Elements(t.inb), NEW D,
         \A m \in D : m.type = "dm" => m \in Elements(t.inb) \/ Elements(st[n][p].inb) # {}
  PROVE  Reading(n, p, st[n][p], t, D)
  <1>1. ASSUME NEW m \in Known(p, n), Known(p, n) = {m}
        PROVE  m \in Elements(t.inb) \/ m \in net \ D
    <2>1. Elements(st[n][p].inb) \subseteq {m}
      BY <1>1 DEF Known
    <2>2. m \in Elements(st[n][p].inb) \/ (m \in net /\ m.type = "dm")
      BY DEF Known
    <2>3. m \in D /\ m.type = "dm" => m \in Elements(t.inb)
      BY <2>1
    <2> QED BY <2>2, <2>3
  <1> QED BY <1>1 DEF Reading

LEMMA StillWrites ==
  ASSUME NEW s, NEW t, Mine(t) = Mine(s), HeldSet(t) = HeldSet(s),
         t.notice = s.notice, t.peer.verified = s.peer.verified
  PROVE  Writing(s, t, {})
  BY DEF Writing, Keeps

\* What the invariants say of the row that a calm step starts from.
LEMMA CalmRow ==
  ASSUME Quietly, NEW n \in Node, NEW p \in Node, n # p
  PROVE  /\ st[n][p] \in PeerState /\ st[n][p].out = {}
         /\ Ready(st[n][p]) => HasSession(st[n][p])
         /\ Single(st[n][p]) /\ next \in Nat /\ dhkey[p] \in Nat /\ dhkey[p] # NoKey
         /\ Reached(st[n][p], dhkey[p]) /\ PhaseOf(n, p)
         /\ Calm /\ IInv /\ (Roomy /\ Unscanned' => Mail(n, p) /\ Mail(p, n))
         /\ n \in Nat /\ p \in Nat
         /\ st[n][p].sess.role \in {"none", "init", "resp"}
         /\ st[n][p].resync \in Nat /\ st[p][n].resync \in Nat
  <1>1. DInv /\ CalmInv /\ IInv
    BY DEF Quietly, DInv
  <1>2. (Calm' => Calm) /\ (Unscanned' => Unscanned)
    BY <1>1, CalmBefore DEF Quietly
  <1>3. Roomy /\ Unscanned' => Mail(n, p) /\ Mail(p, n)
    BY <1>2 DEF Quietly, MailInv
  <1>4. st[p][n] \in PeerState
    BY <1>1, MoveRow
  <1>5. /\ st[n][p].sess.role \in {"none", "init", "resp"}
        /\ st[n][p].resync \in Nat /\ st[p][n].resync \in Nat
    BY <1>1, <1>4, MoveRow DEF PeerState, Session
  <1> QED BY <1>1, <1>2, <1>3, <1>5, MoveRow, NodeAssumption DEF CalmInv, Quietly

\* The commands of the user that a calm mesh allows.
LEMMA SendDmCalm ==
  ASSUME Quietly, NEW n \in Node, NEW p \in Node, NEW x \in Text, SendDm(n, p, x)
  PROVE  \E t, D, G : CalmStep(n, p, t, D, G)
  <1> DEFINE s == st[n][p]
             q == <<x>>
             t == send_dms(n, p, s, q, next)
  <1>1. Command("send", n, p, t) /\ sent' = sent \cup {x} /\ n # p
    BY DEF SendDm, Command
  <1>2. /\ s \in PeerState /\ s.out = {} /\ (Ready(s) => HasSession(s)) /\ next \in Nat
        /\ Reached(s, dhkey[p])
    BY <1>1, CalmRow
  <1>3. q \in Seq(Text) /\ Distinct(q) /\ Elements(q) = {x} /\ q # <<>> /\ q[1] = x
    BY OneDistinct
  <1>4. Roomy /\ Unscanned' => HeldSet(s) \subseteq Mine(s)
    BY <1>1, CalmRow DEF Mail
  <1> HIDE DEF s, q
  <1>51. (HasSession(s) => s.addr) /\ (s.attempts # Absent => s.last)
    BY <1>2 DEF Reached
  <1>5. /\ Goes(s, t) \/ (s.addr /\ ~HasSession(s) /\ Calls(n, p, t, next))
        /\ Passes(s, t, q)
    BY <1>2, <1>3, <1>51, SendCalm
  <1>6. Sends(n, p, s, t, next)
    BY <1>2, <1>3, SendMove
  <1> HIDE DEF t
  <1>7. /\ t \in PeerState
        /\ t.inb = s.inb /\ t.peer = s.peer /\ t.addr = s.addr /\ t.dh = s.dh
        /\ t.notice = s.notice /\ Yours(t) = Yours(s)
    BY <1>6 DEF Sends, SameTheirs, Yours, Body
  <1>8. PhaseMove(n, p, s, t, {}, next)
    BY <1>5 DEF PhaseMove, NoCall, Begins, Fresh, HasSession
  <1>9. HasSession(t) => s.addr
    <2>1. HalfOf(t.sess) = HalfOf(s.sess) => t.sess.role = s.sess.role
      BY DEF HalfOf
    <2> QED BY <1>5, <1>51, <2>1 DEF Goes, HasSession
  <1>10. Reached(t, dhkey[p])
    BY <1>2, <1>5, <1>7, <1>9 DEF Reached, Passes
  <1>11. ASSUME Roomy, Unscanned'
         PROVE  Writing(s, t, {x})
    <2>1. Mine(t) = Mine(s) \cup {x} /\ HeldSet(s) \subseteq Mine(s)
      BY <1>3, <1>4, <1>5, <1>11 DEF Passes
    <2>2. Keeps(s, t, x)
      BY <1>3, <1>5, <1>11 DEF Passes, Keeps, HeldSet, Roomy
    <2>3. \A y \in HeldSet(s) \cup {x} : Mine(t) = {y} => y = x
      BY <2>1
    <2> QED BY <1>7, <2>1, <2>2, <2>3 DEF Writing
  <1>12. Reading(n, p, s, t, {})
    BY <1>5, <1>7, StillReads DEF Passes, s
  <1>13. Posts(n, p, t)
    BY <1>2, <1>6, <1>7 DEF Sends, Works, New, Under, Msg1, Posts, Known, s
  <1>14. CalmMove(n, p, s, t, {}, {x})
    BY <1>7, <1>8, <1>10, <1>11, <1>12, <1>13 DEF CalmMove
  <1>15. CalmStep(n, p, t, {}, {x})
    BY <1>1, <1>14 DEF CalmStep, Command, s
  <1> QED BY <1>15

LEMMA VerifyCalm ==
  ASSUME Quietly, NEW n \in Node, NEW p \in Node, VerifyPeer(n, p)
  PROVE  \E t, D, G : CalmStep(n, p, t, D, G)
  <1> DEFINE s == st[n][p]
             q == [s.peer EXCEPT !.exists = TRUE, !.verified = TRUE]
             th == TextRows(s.thread)
             b == [s EXCEPT !.peer.exists = TRUE, !.peer.verified = TRUE,
                            !.thread = TextRows(@), !.notice = TRUE]
             t == try_send_verify_notice(n, p, b)
  <1>1. Command("verify", n, p, t) /\ sent' = sent /\ n # p
    BY DEF VerifyPeer, Command
  <1>2. s \in PeerState /\ s.out = {} /\ Reached(s, dhkey[p]) /\ IInv
    BY <1>1, CalmRow
  <1>3. ~Unscanned'
    BY <1>1, <1>2, UnscannedSpends DEF Command
  <1> HIDE DEF s
  <1>4. /\ q \in [exists : BOOLEAN, verified : BOOLEAN, petname : BOOLEAN]
        /\ th \in [Row -> Nat]
    BY <1>2, TextRowsType DEF PeerState
  <1>5. b = [s EXCEPT !.peer = q, !.thread = th, !.notice = TRUE]
    BY <1>2 DEF PeerState
  <1>6. /\ b \in PeerState /\ b.sess = s.sess /\ b.out = {} /\ b.addr = s.addr
        /\ b.dh = s.dh /\ b.attempts = s.attempts /\ b.last = s.last
        /\ b.resync = s.resync /\ b.inb = s.inb
    <2> HIDE DEF b, q, th
    <2> QED BY <1>2, <1>4, <1>5 DEF PeerState
  <1> HIDE DEF b
  <1>7. Works(n, p, b, t) /\ Beside(b, t) /\ Apart(b, t) /\ t.resync = b.resync
    BY <1>6, NoticeWorks
  <1> HIDE DEF t
  <1>8. /\ t \in PeerState /\ HalfOf(t.sess) = HalfOf(s.sess) /\ t.resync = s.resync
        /\ t.addr = s.addr /\ t.dh = s.dh /\ t.attempts = s.attempts /\ t.last = s.last
    BY <1>6, <1>7 DEF Works, Beside, Apart
  <1>9. CallsOf(t) = {}
    BY <1>6, <1>7 DEF Apart, CallsOf
  <1>10. PhaseMove(n, p, s, t, {}, next)
    BY <1>8, <1>9 DEF PhaseMove, NoCall, Goes
  <1>11. Reached(t, dhkey[p])
    <2>1. HasSession(t) => HasSession(s)
      BY <1>8 DEF HalfOf, HasSession
    <2>2. (HasSession(s) => s.addr) /\ (s.attempts # Absent => s.last)
          /\ s.dh \in {NoKey, dhkey[p]} /\ (s.addr <=> s.dh # NoKey)
      BY <1>2 DEF Reached
    <2>3. HasSession(t) => t.addr
      BY <1>8, <2>1, <2>2
    <2>4. t.attempts # Absent => t.last
      BY <1>8, <2>2
    <2> QED BY <1>8, <2>2, <2>3, <2>4 DEF Reached
  <1>12. Posts(n, p, t)
    BY <1>6, <1>7 DEF Works, New, Under, Beside, Posts, Known, s
  <1>13. CalmMove(n, p, s, t, {}, {})
    BY <1>3, <1>8, <1>10, <1>11, <1>12 DEF CalmMove
  <1>14. CalmStep(n, p, t, {}, {})
    BY <1>1, <1>13 DEF CalmStep, Command, s
  <1> QED BY <1>14

\* Beginning a handshake keeps the texts.
LEMMA BeginCalm ==
  ASSUME NEW n \in Node, NEW p \in Node, st[n][p] \in PeerState, st[n][p].out = {},
         st[n][p].addr, Reached(st[n][p], dhkey[p]), next \in Nat,
         Fresh(st[n][p]) \/ (~st[n][p].sess.ready
                              /\ Underway(n, p) = {} /\ Underway(p, n) = {})
  PROVE  CalmMove(n, p, st[n][p], begin_handshake(n, p, st[n][p], next), {}, {})
  <1> DEFINE s == st[n][p]
             t == begin_handshake(n, p, s, next)
  <1>1. /\ t \in PeerState /\ Calls(n, p, t, next) /\ t.last
        /\ t.pend = s.pend /\ t.inb = s.inb /\ t.envs = s.envs /\ t.peer = s.peer
        /\ t.addr /\ t.dh = s.dh /\ t.notice = s.notice
        /\ t.thread = s.thread
    <2>1. s \in PeerState /\ s.out = {} /\ s.addr
      OBVIOUS
    <2> HIDE DEF s
    <2> QED BY <2>1, BeginCalls
  <1>0. \A m \in t.out : m = Msg1(n, p, next)
    <2>1. s \in PeerState /\ s.out = {}
      OBVIOUS
    <2> HIDE DEF s
    <2> QED BY <2>1, BeginBegun DEF Begun
  <1> HIDE DEF t, s
  <1>2. Mine(t) = Mine(s) /\ Yours(t) = Yours(s) /\ HeldSet(t) = HeldSet(s)
    BY <1>1 DEF Mine, Yours, HeldSet
  <1>3. t.sess.recvN = 0
    BY <1>1 DEF Calls, new_initiator, NoSession
  <1>4. Writing(s, t, {})
    BY <1>1, <1>2, StillWrites
  <1>5. Reading(n, p, s, t, {})
    BY <1>1, <1>2, <1>3, StillReads DEF s
  <1>6. PhaseMove(n, p, s, t, {}, next)
    BY <1>1 DEF PhaseMove, NoCall, Begins, s
  <1>7. Reached(t, dhkey[p])
    BY <1>1 DEF Reached, s
  <1>8. Posts(n, p, t)
    BY <1>0, <1>1 DEF Posts, Known, Msg1, s
  <1> QED BY <1>1, <1>4, <1>5, <1>6, <1>7, <1>8 DEF CalmMove, s, t

LEMMA UserCalm ==
  ASSUME Quietly, NEW n \in Node, NEW p \in Node, UserStep(n, p)
  PROVE  \E t, D, G : CalmStep(n, p, t, D, G)
  <1> DEFINE s == st[n][p]
  <1>0. Event = {"send", "verify", "unverify", "forget", "start", "petname", "wipe",
                 "restart", "upgrade", "age", "lose", "dup", "late", "stale"}
    BY DEF Event
  <1>1. CASE UnverifyPeer(n, p) \/ ForgetPeer(n, p)
    <2>1. Spend("unverify") \/ Spend("forget")
      BY <1>1 DEF UnverifyPeer, ForgetPeer, Command
    <2>2. IInv /\ Calm'
      BY DEF Quietly, DInv
    <2> QED BY <1>0, <2>1, <2>2, CalmSpends DEF CalmEvent
  <1>2. CASE StartDmSession(n, p)
    <2> DEFINE t == begin_handshake(n, p, s, next)
    <2>1. n # p /\ s.addr /\ ~HasSession(s) /\ Command("start", n, p, t) /\ sent' = sent
      BY <1>2 DEF StartDmSession, Command
    <2>2. CalmMove(n, p, s, t, {}, {})
      BY <2>1, CalmRow, BeginCalm DEF HasSession, Fresh
    <2> HIDE DEF t
    <2>3. CalmStep(n, p, t, {}, {})
      BY <2>1, <2>2 DEF CalmStep, Command
    <2> QED BY <2>3
  <1>3. CASE \E named \in BOOLEAN : SetPetname(n, p, named)
    <2>1. PICK named \in BOOLEAN : SetPetname(n, p, named)
      BY <1>3
    <2> DEFINE q == [s.peer EXCEPT !.exists = TRUE, !.petname = named]
               t == [s EXCEPT !.peer.exists = TRUE, !.peer.petname = named]
    <2>2. Command("petname", n, p, t) /\ sent' = sent /\ n # p
      BY <2>1 DEF SetPetname, Command
    <2>3. s \in PeerState /\ s.out = {} /\ Reached(s, dhkey[p])
      BY <2>2, CalmRow
    <2> HIDE DEF s
    <2>4. /\ q \in [exists : BOOLEAN, verified : BOOLEAN, petname : BOOLEAN]
          /\ q.verified = s.peer.verified
      BY <2>3 DEF PeerState
    <2>5. t = [s EXCEPT !.peer = q]
      BY <2>3 DEF PeerState
    <2>6. /\ t \in PeerState /\ t.peer = q /\ t.sess = s.sess /\ t.out = {} /\ t.addr = s.addr
          /\ t.dh = s.dh /\ t.attempts = s.attempts /\ t.last = s.last
          /\ t.resync = s.resync /\ t.inb = s.inb /\ t.pend = s.pend /\ t.envs = s.envs
          /\ t.notice = s.notice /\ t.thread = s.thread
      <3> HIDE DEF q, t
      <3> QED BY <2>3, <2>4, <2>5 DEF PeerState
    <2> HIDE DEF t, q
    <2>7. Mine(t) = Mine(s) /\ Yours(t) = Yours(s) /\ HeldSet(t) = HeldSet(s)
      BY <2>6 DEF Mine, Yours, HeldSet
    <2>8. Writing(s, t, {})
      BY <2>4, <2>6, <2>7, StillWrites
    <2>9. Reading(n, p, s, t, {})
      BY <2>6, <2>7, StillReads DEF s
    <2>10. PhaseMove(n, p, s, t, {}, next)
      BY <2>6 DEF PhaseMove, NoCall, Goes, CallsOf
    <2>11. Reached(t, dhkey[p])
      BY <2>3, <2>6 DEF Reached, HasSession
    <2>12. CalmMove(n, p, s, t, {}, {})
      <3>1. Posts(n, p, t)
        BY <2>6 DEF Posts, Known, s
      <3> QED BY <2>6, <2>8, <2>9, <2>10, <2>11, <3>1 DEF CalmMove
    <2>13. CalmStep(n, p, t, {}, {})
      BY <2>2, <2>12 DEF CalmStep, Command, s
    <2> QED BY <2>13
  <1> QED BY <1>1, <1>2, <1>3, SendDmCalm, VerifyCalm DEF UserStep

\* What time does in a calm mesh: announces are heard, and a handshake is retried
\* only when nothing is on the way.
LEMMA AnnounceCalm ==
  ASSUME Quietly, NEW n \in Node, NEW p \in Node, ReceiveAnnounce(n, p)
  PROVE  \E t, D, G : CalmStep(n, p, t, D, G)
  <1> DEFINE s == st[n][p]
             k == dhkey[p]
             marked == IF s.dh \notin {NoKey, k} /\ s.peer.exists
                       THEN put_dm(s, <<FALSE, KeyChanged>>) ELSE s
             base == [marked EXCEPT !.dh = k, !.addr = TRUE, !.peer.exists = TRUE,
                                    !.envs = <<>>, !.aged = 0]
             t == send_dms(n, p, base, s.envs, next)
             q == [s.peer EXCEPT !.exists = TRUE]
  <1>0. t = handle_announce(n, p, s, k, next)
    BY DEF handle_announce
  <1>1. /\ n # p /\ Commit(n, p, t) /\ net' = net \cup t.out
        /\ dhkey' = dhkey /\ sent' = sent
    BY <1>0 DEF ReceiveAnnounce
  <1>2. /\ s \in PeerState /\ s.out = {} /\ (Ready(s) => HasSession(s)) /\ next \in Nat
        /\ Reached(s, k) /\ Single(s) /\ k \in Nat /\ k # NoKey
    BY <1>1, CalmRow
  <1> HIDE DEF s, k
  <1>3. marked = s
    BY <1>2 DEF Reached
  <1>4. /\ q \in [exists : BOOLEAN, verified : BOOLEAN, petname : BOOLEAN]
        /\ q.verified = s.peer.verified
    BY <1>2 DEF PeerState
  <1>5. base = [s EXCEPT !.dh = k, !.addr = TRUE, !.peer = q, !.envs = <<>>, !.aged = 0]
    <2> HIDE DEF marked
    <2> QED BY <1>2, <1>3 DEF PeerState
  <1>6. <<>> \in Seq(Text) /\ k \in Key /\ s.envs \in Seq(Text)
    BY <1>2 DEF Key, PeerState
  <1>7. /\ base \in PeerState /\ base.sess = s.sess /\ base.out = {} /\ base.addr = TRUE
        /\ base.dh = k /\ base.peer = q /\ base.envs = <<>> /\ base.pend = s.pend
        /\ base.inb = s.inb /\ base.notice = s.notice /\ base.thread = s.thread
        /\ base.attempts = s.attempts /\ base.last = s.last /\ base.resync = s.resync
    <2> HIDE DEF base, q
    <2> QED BY <1>2, <1>4, <1>5, <1>6 DEF PeerState
  <1> HIDE DEF base
  <1>8. /\ Ready(base) => HasSession(base)
        /\ base.attempts # Absent => base.last
        /\ Distinct(s.envs)
    BY <1>2, <1>7 DEF Ready, HasSession, Reached, Single
  <1>9. /\ Goes(base, t) \/ (~HasSession(base) /\ Calls(n, p, t, next))
        /\ Passes(base, t, s.envs)
    <2> DEFINE ts == s.envs
    <2>1. ts \in Seq(Text)
      BY <1>6
    <2> HIDE DEF ts
    <2>2. LET u == send_dms(n, p, base, ts, next)
          IN  /\ Goes(base, u) \/ (base.addr /\ ~HasSession(base) /\ Calls(n, p, u, next))
              /\ Passes(base, u, ts)
      BY <1>2, <1>7, <1>8, <2>1, SendCalm
    <2> QED BY <2>2 DEF ts
  <1>10. Sends(n, p, base, t, next)
    BY <1>2, <1>6, <1>7, <1>8, SendMove
  <1> HIDE DEF t
  <1>11. /\ t \in PeerState /\ t.inb = s.inb /\ t.peer = q /\ t.addr = TRUE /\ t.dh = k
         /\ t.notice = s.notice /\ Yours(t) = Yours(s)
    BY <1>7, <1>10 DEF Sends, SameTheirs, Yours, Body
  <1>12. PhaseMove(n, p, s, t, {}, next)
    BY <1>7, <1>9 DEF PhaseMove, NoCall, Begins, Fresh, HasSession, Goes
  <1>13. Reached(t, k)
    <2>1. t.attempts # Absent => t.last
      BY <1>9 DEF Passes
    <2> QED BY <1>2, <1>11, <2>1 DEF Reached
  <1>14. Writing(s, t, {})
    <2>1. Mine(base) = Mine(s)
      BY <1>7 DEF Mine
    <2>2. Mine(t) = Mine(s) \cup Elements(s.envs)
      BY <1>9, <2>1 DEF Passes
    <2>3. \A x \in HeldSet(s) : Keeps(s, t, x)
      BY <1>7, <1>9 DEF Passes, Keeps, HeldSet
    <2> QED BY <1>4, <1>11, <2>2, <2>3 DEF Writing, HeldSet
  <1>15. Reading(n, p, s, t, {})
    <2>1. t.sess.recvN \in {0, s.sess.recvN}
      BY <1>7, <1>9 DEF Passes
    <2> QED BY <1>11, <2>1, StillReads DEF s
  <1>16. Posts(n, p, t)
    BY <1>7, <1>10, <1>11 DEF Sends, Works, New, Under, Msg1, Posts, Known, s
  <1>17. CalmMove(n, p, s, t, {}, {})
    BY <1>11, <1>12, <1>13, <1>14, <1>15, <1>16 DEF CalmMove, k
  <1>18. CalmStep(n, p, t, {}, {})
    BY <1>1, <1>17 DEF CalmStep, s
  <1> QED BY <1>18

LEMMA RetryCalm ==
  ASSUME Quietly, NEW n \in Node, NEW p \in Node, RetryStalledHandshake(n, p)
  PROVE  \E t, D, G : CalmStep(n, p, t, D, G)
  <1> DEFINE s == st[n][p]
             t == begin_handshake(n, p, s, next)
  <1>1. /\ n # p /\ Commit(n, p, t) /\ net' = net \cup t.out
        /\ dhkey' = dhkey /\ sent' = sent /\ s.attempts # Absent /\ ~Ready(s) /\ s.addr
        /\ s.last => RetryIsDue(n, p)
    BY DEF RetryStalledHandshake
  <1>2. /\ s \in PeerState /\ s.out = {} /\ next \in Nat /\ Reached(s, dhkey[p]) /\ IInv
    BY <1>1, CalmRow
  <1>3. RetryIsDue(n, p)
    BY <1>1, <1>2 DEF Reached
  <1>4. ~Spend("late")
    <2>1. "late" \in Event /\ "late" \notin CalmEvent
      BY DEF Event, CalmEvent
    <2>2. Calm'
      BY DEF Quietly
    <2> QED BY <1>2, <2>1, <2>2, CalmSpends
  <1>5. Underway(n, p) = {} /\ Underway(p, n) = {}
    BY <1>3, <1>4 DEF RetryIsDue, Underway
  <1>6. CalmMove(n, p, s, t, {}, {})
    BY <1>1, <1>2, <1>5, BeginCalm DEF Ready
  <1> HIDE DEF t
  <1>7. CalmStep(n, p, t, {}, {})
    BY <1>1, <1>6 DEF CalmStep
  <1> QED BY <1>7

LEMMA TimedCalm ==
  ASSUME Quietly, NEW n \in Node, NEW p \in Node,
         \/ ReceiveAnnounce(n, p)
         \/ \E k \in 1 .. dhkey[p] : ReceiveStaleAnnounce(n, p, k)
         \/ RetryStalledHandshake(n, p)
  PROVE  \E t, D, G : CalmStep(n, p, t, D, G)
  <1>1. CASE \E k \in 1 .. dhkey[p] : ReceiveStaleAnnounce(n, p, k)
    <2>1. Spend("stale")
      BY <1>1 DEF ReceiveStaleAnnounce, Command
    <2>2. IInv /\ Calm' /\ "stale" \in Event /\ "stale" \notin CalmEvent
      BY DEF Quietly, DInv, Event, CalmEvent
    <2> QED BY <2>1, <2>2, CalmSpends
  <1> QED BY <1>1, AnnounceCalm, RetryCalm

(***************************************************************************)
(* The packets.                                                            *)
(***************************************************************************)
\* What the row says of the packet m that comes from the peer.
Expected(n, p, s, m) ==
    /\ IsHandshake(m) /\ ~s.sess.ready =>
          \/ m.type = "msg1" /\ s.sess.role \in {"none", "init"}
          \/ m.type = "msg2" /\ s.sess.role = "init" /\ m.i = s.sess.own
          \/ m.type = "msg3" /\ s.sess.role = "resp" /\ m.i = s.sess.re /\ m.r = s.sess.own
    /\ IsHandshake(m) /\ s.sess.ready => s.resync = 0
    /\ \A c \in Known(p, n) : /\ HasSession(s)
                              /\ c.i = KeyI(s.sess) /\ c.r = KeyR(s.sess)
    /\ ~s.sess.ready /\ s.sess.role = "init" => Known(p, n) = {}

LEMMA PacketRow ==
  ASSUME Quietly, NEW m \in net
  PROVE  LET n == m.dst
             p == m.src
             s == At(m)
         IN  /\ n \in Node /\ p \in Node /\ n # p /\ s = st[n][p]
             /\ s \in PeerState /\ s.out = {} /\ next \in Nat
             /\ Ready(s) => HasSession(s)
             /\ HasSession(s) => s.addr
             /\ s.addr <=> s.dh # NoKey
             /\ s.dh \in {NoKey, dhkey[p]}
             /\ s.attempts # Absent => s.last
             /\ s.sess.role \in {"none", "init", "resp"}
             /\ Expected(n, p, s, m)
             /\ m.type = "dm" => m \in Known(p, n) /\ m \in Ciphertext
             /\ m.type # "dm" <=> IsHandshake(m)
  <1> DEFINE n == m.dst
             p == m.src
             s == st[n][p]
  <1>1. IInv
    BY DEF Quietly, DInv
  <1>2. n \in Node /\ p \in Node /\ n # p
    BY <1>1, PacketFacts
  <1>3. /\ s \in PeerState /\ s.out = {} /\ next \in Nat /\ (Ready(s) => HasSession(s))
        /\ Reached(s, dhkey[p]) /\ PhaseOf(n, p)
        /\ n \in Nat /\ p \in Nat /\ s.sess.role \in {"none", "init", "resp"}
        /\ s.resync \in Nat /\ st[p][n].resync \in Nat
    BY <1>2, CalmRow
  <1>4. IsHandshake(m) => m \in Underway(p, n)
    BY DEF Underway
  <1>5. Expected(n, p, s, m)
    <2> DEFINE f == st[p][n].sess
               r == s.resync
               q == st[p][n].resync
               A == Underway(n, p)
               B == Underway(p, n)
               K == Known(n, p)
               J == Known(p, n)
    <2>1. Phase(n, p, s.sess, f, r, q, A, B, K, J)
      BY <1>3 DEF PhaseOf
    <2>2. r \in Nat /\ q \in Nat
      BY <1>3
    <2> HIDE DEF f, r, q, A, B, K, J, s, n, p
    <2> DEFINE e == s.sess
    <2>5. /\ n \in Nat /\ p \in Nat /\ e.role \in {"none", "init", "resp"}
          /\ Phase(n, p, e, f, r, q, A, B, K, J)
      BY <1>3, <2>1
    <2> HIDE DEF e
    <2>3. /\ \A k \in B : ~e.ready =>
               \/ k.type = "msg1" /\ e.role \in {"none", "init"}
               \/ k.type = "msg2" /\ e.role = "init" /\ k.i = e.own
               \/ k.type = "msg3" /\ e.role = "resp" /\ k.i = e.re /\ k.r = e.own
          /\ \A k \in J : e.role # "none" /\ k.i = KeyI(e) /\ k.r = KeyR(e)
          /\ ~e.ready /\ e.role = "init" => J = {}
      BY <2>2, <2>5, NoStranger
    <2>4. ASSUME m \in B, e.ready
          PROVE  r = 0
      <3>1. r = 0 /\ Phase(n, p, e, f, r + 1, q, A, B \ {m}, K, J)
        BY <2>2, <2>4, <2>5, IgnorePhase
      <3> QED BY <3>1
    <2> QED BY <1>4, <2>3, <2>4 DEF Expected, HasSession, B, J, r, e
  <1>6. /\ m.type = "dm" => m \in Known(p, n) /\ m \in Ciphertext
        /\ m.type # "dm" <=> IsHandshake(m)
    BY <1>1, PacketFacts DEF Known, IsHandshake
  <1> QED BY <1>2, <1>3, <1>5, <1>6 DEF Reached, At

\* A packet that is received is gone.
LEMMA ReceiveCalm ==
  ASSUME Quietly, NEW m \in net, NEW t, Receive(m, t),
         CalmMove(m.dst, m.src, At(m), t, {m}, {})
  PROVE  CalmStep(m.dst, m.src, t, {m}, {})
  <1>1. "dup" \in Event /\ "dup" \notin CalmEvent /\ IInv /\ Calm'
    BY DEF Event, CalmEvent, Quietly, DInv
  <1>2. ~Spend("dup")
    BY <1>1, CalmSpends
  <1>3. /\ Commit(m.dst, m.src, t) /\ net' = (net \ {m}) \cup t.out
        /\ dhkey' = dhkey /\ sent' = sent
    BY <1>2 DEF Receive
  <1>4. m.dst # m.src /\ At(m) = st[m.dst][m.src]
    BY PacketRow
  <1> QED BY <1>3, <1>4 DEF CalmStep

\* The packet changes nothing but the tally.
LEMMA PassCalm ==
  ASSUME Quietly, NEW m \in net, IsHandshake(m), NEW t \in PeerState,
         t.sess = At(m).sess, t.out = {}, t.pend = At(m).pend, t.inb = At(m).inb,
         t.envs = At(m).envs, t.addr = At(m).addr, t.dh = At(m).dh,
         t.notice = At(m).notice, t.peer = At(m).peer, t.thread = At(m).thread,
         t.attempts = At(m).attempts, t.last = At(m).last,
         \/ t.resync = At(m).resync
            /\ (Fresh(At(m)) \/ (Initiating(At(m)) /\ m.type = "msg1"))
         \/ t.resync = At(m).resync + 1 /\ At(m).sess.ready
  PROVE  CalmMove(m.dst, m.src, At(m), t, {m}, {})
  <1> DEFINE n == m.dst
             p == m.src
             s == At(m)
  <1>1. /\ s = st[n][p]
        /\ HasSession(s) => s.addr
        /\ s.addr <=> s.dh # NoKey
        /\ s.dh \in {NoKey, dhkey[p]}
        /\ s.attempts # Absent => s.last
        /\ m.type # "dm"
    BY PacketRow
  <1> HIDE DEF s
  <1>2. CallsOf(t) = {}
    BY DEF CallsOf
  <1>3. Drops(s, t, m) \/ Counts(s, t)
    BY <1>2 DEF Drops, Counts, s
  <1>4. PhaseMove(n, p, s, t, {m}, next)
    BY <1>3 DEF PhaseMove
  <1>5. Reached(t, dhkey[p])
    BY <1>1 DEF Reached, HasSession, s
  <1>6. Mine(t) = Mine(s) /\ Yours(t) = Yours(s) /\ HeldSet(t) = HeldSet(s)
    BY DEF Mine, Yours, HeldSet, s
  <1>7. Writing(s, t, {})
    BY <1>6, StillWrites DEF s
  <1>8. Reading(n, p, s, t, {m})
    <2>1. t.sess = s.sess /\ t.inb = s.inb
      BY DEF s
    <2> QED BY <1>1, <1>6, <2>1, StillReads
  <1>9. Posts(n, p, t)
    BY <1>1 DEF Posts, Known, s
  <1> QED BY <1>4, <1>5, <1>7, <1>8, <1>9 DEF CalmMove, s

\* Answering.
LEMMA RespondCalm ==
  ASSUME Quietly, NEW m \in net, IsHandshake(m), Resolved(m), Respond(m, At(m)),
         Fresh(At(m)) \/ (Initiating(At(m)) /\ m.type = "msg1" /\ ~(m.dst < m.src))
  PROVE  \E t, D, G : CalmStep(m.dst, m.src, t, D, G)
  <1> DEFINE n == m.dst
             p == m.src
             s == At(m)
             e == FirstKey(m)
             a == IF s.attempts = Absent THEN 0 ELSE s.attempts
             b == [s EXCEPT !.sess = new_responder(next, e), !.last = TRUE,
                            !.attempts = IF @ = Absent THEN 0 ELSE @]
             k == Msg2(n, p, e, next, dhkey[n])
             t == send_directed(b, {k})
  <1>1. /\ n \in Node /\ p \in Node /\ n # p /\ s = st[n][p]
        /\ s \in PeerState /\ s.out = {} /\ next \in Nat
        /\ s.addr <=> s.dh # NoKey
        /\ s.dh \in {NoKey, dhkey[p]}
        /\ m.type # "dm"
    BY PacketRow
  <1>2. s.addr = TRUE
    <2>1. s.addr \in BOOLEAN
      BY <1>1 DEF PeerState
    <2> QED BY <1>1, <2>1 DEF Resolved
  <1>3. e \in Ephemeral
    <2>1. m.type \in {"msg1", "msg2", "msg3"}
      BY DEF IsHandshake
    <2>2. e = IF m.type = "msg1" THEN m.i ELSE IF m.type = "msg2" THEN m.r ELSE Garbage
      BY <2>1 DEF FirstKey
    <2> QED BY <2>1, <2>2, PacketFacts DEF Quietly, DInv, Ephemeral
  <1>4. new_responder(next, e) \in Session
    BY <1>1, <1>3, SessionTypes
  <1>5. Receive(m, t)
    BY DEF Respond
  <1> HIDE DEF e, n, p, s
  <1>6. /\ b \in PeerState /\ b.sess = new_responder(next, e) /\ b.out = {}
        /\ b.pend = s.pend /\ b.inb = s.inb /\ b.envs = s.envs /\ b.peer = s.peer
        /\ b.addr = TRUE /\ b.dh = s.dh /\ b.notice = s.notice /\ b.thread = s.thread
        /\ b.last = TRUE
    <2>1. a \in {Absent} \cup Nat
      BY <1>1 DEF PeerState
    <2>2. b = [s EXCEPT !.sess = new_responder(next, e), !.last = TRUE, !.attempts = a]
      BY <1>1 DEF PeerState
    <2> HIDE DEF a, b
    <2> QED BY <1>1, <1>2, <1>4, <2>1, <2>2 DEF PeerState
  <1>7. {k} \in SUBSET Packet
    <2>1. dhkey[n] \in Nat
      BY <1>1, RowFacts DEF Quietly, DInv
    <2> QED BY <1>1, <1>3, <2>1 DEF Msg2, Packet, Handshake23, Key
  <1> HIDE DEF b
  <1>8. t = [b EXCEPT !.out = {k}]
    <2> HIDE DEF k
    <2> QED BY <1>6 DEF send_directed
  <1>9. IsHandshake(k)
    BY DEF k, Msg2, IsHandshake
  <1> HIDE DEF k, t
  <1>10. /\ t \in PeerState /\ t.sess = new_responder(next, e) /\ t.out = {k}
         /\ t.pend = s.pend /\ t.inb = s.inb /\ t.envs = s.envs /\ t.peer = s.peer
         /\ t.addr = TRUE /\ t.dh = s.dh /\ t.notice = s.notice /\ t.thread = s.thread
         /\ t.last = TRUE
    BY <1>6, <1>7, <1>8 DEF PeerState
  <1>11. CallsOf(t) = {k}
    BY <1>9, <1>10 DEF CallsOf
  <1>12. Answers(n, p, s, t, next, m)
    BY <1>10, <1>11 DEF Answers, k, e, n, p, s
  <1>13. PhaseMove(n, p, s, t, {m}, next)
    BY <1>12 DEF PhaseMove
  <1>14. Reached(t, dhkey[p])
    BY <1>1, <1>2, <1>10 DEF Reached
  <1>15. Mine(t) = Mine(s) /\ Yours(t) = Yours(s) /\ HeldSet(t) = HeldSet(s)
    BY <1>10 DEF Mine, Yours, HeldSet
  <1>16. Writing(s, t, {})
    BY <1>10, <1>15, StillWrites
  <1>17. Reading(n, p, s, t, {m})
    <2>1. t.sess.recvN = 0
      BY <1>10 DEF new_responder, NoSession
    <2> QED BY <1>1, <1>10, <1>15, <2>1, StillReads
  <1>18. Posts(n, p, t)
    BY <1>1, <1>9, <1>10 DEF Posts, Known, IsHandshake
  <1>19. CalmMove(n, p, s, t, {m}, {})
    BY <1>10, <1>13, <1>14, <1>16, <1>17, <1>18 DEF CalmMove, n, p
  <1>20. CalmStep(n, p, t, {m}, {})
    BY <1>5, <1>19, ReceiveCalm DEF n, p, s
  <1> QED BY <1>20 DEF n, p

\* Completing a handshake: b is the row with its session made ready, and a packet
\* of the handshake that says so.
LEMMA FinishCalm ==
  ASSUME Quietly, NEW m \in net, IsHandshake(m), Resolved(m),
         NEW b, MadeReady(At(m), b), b.sess.rs = dhkey[m.src],
         \A c \in Known(m.src, m.dst) : Opens(b.sess, c),
         LET t == finish_session(m.dst, m.src, b)
         IN  /\ HalfOf(t.sess) = HalfOf(b.sess) /\ CallsOf(t) = CallsOf(b) /\ t.resync = 0
             => Initiates(m.dst, m.src, At(m), t, m) \/ Concludes(At(m), t, m)
  PROVE  CalmMove(m.dst, m.src, At(m), finish_session(m.dst, m.src, b), {m}, {})
  <1> DEFINE n == m.dst
             p == m.src
             s == At(m)
             t == finish_session(n, p, b)
  <1>1. /\ n \in Node /\ p \in Node /\ n # p /\ s = st[n][p] /\ s \in PeerState
        /\ HasSession(s) => s.addr
        /\ s.addr <=> s.dh # NoKey
        /\ s.dh \in {NoKey, dhkey[p]}
        /\ m.type # "dm"
    BY PacketRow
  <1>2. /\ HalfOf(t.sess) = HalfOf(b.sess) /\ CallsOf(t) = CallsOf(b) /\ t.resync = 0
        => Initiates(n, p, s, t, m) \/ Concludes(s, t, m)
    OBVIOUS
  <1>3. Roomy /\ Unscanned' => ~s.notice
    BY <1>1, CalmRow DEF Mail
  <1>4. s.dh = dhkey[p] /\ s.dh # NoKey
    BY <1>1 DEF Resolved
  <1>5. \A c \in Known(p, n) : Opens(b.sess, c)
    OBVIOUS
  <1> HIDE DEF s
  <1>6. /\ b \in PeerState /\ b.sess.rs = dhkey[p] /\ b.sess.recvN = s.sess.recvN
        /\ Beside(s, b) /\ b.notice = s.notice /\ b.thread = s.thread
    BY DEF MadeReady, s
  <1>7. (WorksOff(n, p, b, t) /\ Completes(b, t)) \/ DropsSession(b, t)
    BY <1>1, <1>6, FinishWorks
  <1> HIDE DEF t, n, p
  <1>8. b.dh = s.dh /\ b.addr = s.addr /\ b.pend = s.pend /\ b.inb = s.inb /\ b.envs = s.envs
        /\ b.peer = s.peer
    BY <1>6 DEF Beside
  <1>9. WorksOff(n, p, b, t) /\ Completes(b, t)
    BY <1>4, <1>6, <1>7, <1>8 DEF DropsSession
  <1>10. /\ t \in PeerState /\ HalfOf(t.sess) = HalfOf(b.sess)
         /\ t.pend = <<>> /\ t.inb = <<>> /\ t.envs = s.envs
         /\ t.peer = s.peer /\ t.addr = s.addr /\ t.dh = s.dh
         /\ t.notice => s.notice
    BY <1>6, <1>8, <1>9 DEF WorksOff, Works
  <1>11. /\ CallsOf(t) = CallsOf(b) /\ t.attempts = Absent /\ t.resync = 0
         /\ SameOurs(b, t) /\ Reads(b, t, s.inb)
         /\ s.addr => \A k \in DOMAIN s.pend : Utters(t, s.pend[k])
    BY <1>8, <1>9 DEF Completes
  <1>12. PhaseMove(n, p, s, t, {m}, next)
    BY <1>2, <1>10, <1>11 DEF PhaseMove
  <1>13. Reached(t, dhkey[p])
    BY <1>1, <1>4, <1>10, <1>11 DEF Reached
  <1>14. ASSUME Roomy, Unscanned'
         PROVE  Writing(s, t, {})
    <2>1. t.notice = s.notice
      <3>1. t.notice \in BOOLEAN /\ s.notice \in BOOLEAN
        BY <1>1, <1>10 DEF PeerState
      <3> QED BY <1>3, <1>10, <1>14, <3>1
    <2>2. Mine(t) = Mine(s)
      BY <1>6, <1>11 DEF SameOurs, Mine
    <2>3. s.addr
      BY <1>1, <1>4
    <2>4. \A x \in HeldSet(s) : Keeps(s, t, x)
      BY <1>10, <1>11, <2>3 DEF HeldSet, Keeps, Elements
    <2> QED BY <1>10, <2>1, <2>2, <2>4 DEF Writing
  <1>15. Reading(n, p, s, t, {m})
    <2>1. \A y \in Body : s.thread[Theirs(y)] <= t.thread[Theirs(y)]
      BY <1>6, <1>11 DEF Reads
    <2>2. \A y \in Body : s.thread[Theirs(y)] \in Nat /\ t.thread[Theirs(y)] \in Nat
      BY <1>1, <1>10, TheirsType
    <2>3. Yours(s) \subseteq Yours(t)
      BY <2>1, <2>2 DEF Yours, Body
    <2>4. Elements(s.inb) \subseteq Known(p, n)
      BY <1>1 DEF Known
    <2>5. \/ t.sess.recvN = s.sess.recvN
          \/ \E c \in Known(p, n) : t.thread[Theirs(c.body)] > 0
      BY <1>6, <1>11, <2>4 DEF Reads
    <2>6. ASSUME NEW k \in Known(p, n), Known(p, n) = {k}, s.sess.recvN = 0
          PROVE  k \in net \ {m} \/ t.thread[Theirs(k.body)] > 0
      <3>1. CASE k \in Elements(s.inb)
        <4>1. s.inb \in Seq(Ciphertext)
          BY <1>1 DEF PeerState
        <4>2. s.inb # <<>>
          BY <3>1, NoneDistinct
        <4>3. s.inb[1] \in Elements(s.inb)
          <5> DEFINE q == s.inb
          <5>1. q \in Seq(Ciphertext) /\ q # <<>>
            BY <4>1, <4>2
          <5> HIDE DEF q
          <5>2. 1 \in DOMAIN q
            BY <5>1
          <5> QED BY <5>2 DEF Elements, q
        <4>4. s.inb[1] = k
          BY <2>4, <2>6, <4>3
        <4>5. Opens(b.sess, k)
          BY <1>5
        <4> QED BY <1>6, <1>11, <2>6, <4>2, <4>4, <4>5 DEF Reads
      <3>2. CASE k \notin Elements(s.inb)
        <4>1. k \in net /\ k.type = "dm"
          BY <1>1, <3>2 DEF Known
        <4> QED BY <1>1, <4>1
      <3> QED BY <3>1, <3>2
    <2> QED BY <2>3, <2>5, <2>6 DEF Reading
  <1>16. Posts(n, p, t)
    <2>1. \A c \in b.out : c.type # "dm"
      BY DEF MadeReady
    <2>2. \A c \in New(b, t) : c.src = n /\ c.dst = p
      BY <1>9 DEF WorksOff, Works, Under
    <2> QED BY <1>10, <2>1, <2>2, NoneDistinct DEF New, Posts
  <1>17. CalmMove(n, p, s, t, {m}, {})
    BY <1>10, <1>12, <1>13, <1>14, <1>15, <1>16 DEF CalmMove, n, p
  <1> QED BY <1>17 DEF n, p, s, t

LEMMA InitiatorCalm ==
  ASSUME Quietly, NEW m \in net, CompleteInitiator(m)
  PROVE  \E t, D, G : CalmStep(m.dst, m.src, t, D, G)
  <1> DEFINE n == m.dst
             p == m.src
             row == At(m)
             e == [row.sess EXCEPT !.ready = TRUE, !.re = m.r, !.rs = m.s]
             s == [row EXCEPT !.sess.ready = TRUE, !.sess.re = m.r, !.sess.rs = m.s,
                              !.last = TRUE]
             k == Msg3(n, p, m.i, m.r, dhkey[n])
             b == send_directed(s, {k})
             t == finish_session(n, p, b)
  <1>1. /\ row.sess.role = "init" /\ ~row.sess.ready /\ m.type = "msg2"
        /\ m.i = row.sess.own /\ Receive(m, t) /\ row.dh # NoKey /\ Resolved(m)
    BY DEF CompleteInitiator, Handshaking, Ready, AnswersMe, Resolved
  <1>2. /\ n \in Node /\ p \in Node /\ m.i \in Ephemeral /\ m.r \in Nat /\ m.s \in Nat
    BY <1>1, PacketFacts DEF Quietly, DInv
  <1>3. /\ row \in PeerState /\ row.out = {} /\ row.sess \in Session /\ dhkey[n] \in Nat
    BY <1>2, RowFacts DEF At, Quietly, DInv
  <1>4. /\ row.addr <=> row.dh # NoKey
        /\ Expected(n, p, row, m)
    BY PacketRow
  <1>5. m.s = dhkey[p]
    BY <1>1 DEF Quietly, CalmInv, TrueStatics
  <1> HIDE DEF row
  <1>6. /\ e \in Session /\ e.ready = TRUE /\ e.role = row.sess.role
        /\ e.own = row.sess.own /\ e.re = m.r /\ e.rs = m.s
        /\ e.sendN = row.sess.sendN /\ e.recvN = row.sess.recvN
    BY <1>2, <1>3 DEF Session, Key, Ephemeral
  <1>7. s = [row EXCEPT !.sess = e, !.last = TRUE]
    BY <1>3 DEF PeerState, Session
  <1>8. /\ s \in PeerState /\ s.sess = e /\ s.out = {} /\ Beside(row, s)
        /\ s.notice = row.notice /\ s.thread = row.thread
    <2> HIDE DEF e, s
    <2> QED BY <1>3, <1>6, <1>7 DEF PeerState, Beside
  <1>9. {k} \in SUBSET Packet
    BY <1>2, <1>3 DEF Msg3, Packet, Handshake23, Key
  <1>10. k.type = "msg3" /\ IsHandshake(k)
    BY DEF Msg3, IsHandshake
  <1> HIDE DEF s, k, e
  <1>11. s.addr
    BY <1>1, <1>4, <1>8 DEF Beside
  <1>12. b = [s EXCEPT !.out = {k}]
    BY <1>8, <1>11 DEF send_directed
  <1> HIDE DEF b
  <1>13. /\ b \in PeerState /\ b.sess = e /\ b.out = {k} /\ Beside(row, b)
         /\ b.notice = row.notice /\ b.thread = row.thread
    BY <1>8, <1>9, <1>12 DEF PeerState, Beside
  <1>14. MadeReady(row, b)
    BY <1>1, <1>6, <1>10, <1>13 DEF MadeReady
  <1>15. CallsOf(b) = {k}
    BY <1>10, <1>13 DEF CallsOf
  <1>16. HalfOf(b.sess) = ReadyHalfOf(row.sess, m.r)
    BY <1>6, <1>13 DEF HalfOf, ReadyHalfOf
  <1>17. \A c \in Known(p, n) : Opens(b.sess, c)
    BY <1>1, <1>4 DEF Expected
  <1>18. \A u : HalfOf(u.sess) = HalfOf(b.sess) /\ CallsOf(u) = CallsOf(b) /\ u.resync = 0
            => Initiates(n, p, row, u, m)
    BY <1>1, <1>15, <1>16 DEF Initiates, Initiating, k
  <1>19. CalmMove(n, p, row, t, {m}, {})
    <2>1. IsHandshake(m)
      BY <1>1 DEF IsHandshake
    <2>2. b.sess.rs = dhkey[p]
      BY <1>5, <1>6, <1>13
    <2>3. MadeReady(At(m), b)
      BY <1>14 DEF row
    <2>4. HalfOf(t.sess) = HalfOf(b.sess) /\ CallsOf(t) = CallsOf(b) /\ t.resync = 0
            => Initiates(n, p, At(m), t, m)
      BY <1>18 DEF row
    <2> QED BY <1>1, <1>17, <2>1, <2>2, <2>3, <2>4, FinishCalm DEF row
  <1> HIDE DEF t
  <1>20. CalmStep(m.dst, m.src, t, {m}, {})
    BY <1>1, <1>19, ReceiveCalm DEF row
  <1> QED BY <1>20

LEMMA ResponderCalm ==
  ASSUME Quietly, NEW m \in net, CompleteResponder(m)
  PROVE  \E t, D, G : CalmStep(m.dst, m.src, t, D, G)
  <1> DEFINE n == m.dst
             p == m.src
             row == At(m)
             e == [row.sess EXCEPT !.ready = TRUE, !.rs = m.s]
             b == [row EXCEPT !.sess.ready = TRUE, !.sess.rs = m.s, !.last = TRUE]
             t == finish_session(n, p, b)
  <1>1. /\ row.sess.role = "resp" /\ ~row.sess.ready /\ m.type = "msg3"
        /\ m.r = row.sess.own /\ Receive(m, t) /\ row.dh # NoKey /\ Resolved(m)
    BY DEF CompleteResponder, Handshaking, Ready, ClosesMine, Resolved
  <1>2. n \in Node /\ p \in Node /\ m.s \in Nat
    BY <1>1, PacketFacts DEF Quietly, DInv
  <1>3. row \in PeerState /\ row.out = {} /\ row.sess \in Session
    BY <1>2, RowFacts DEF At, Quietly, DInv
  <1>4. Expected(n, p, row, m)
    BY PacketRow
  <1>5. m.s = dhkey[p]
    BY <1>1 DEF Quietly, CalmInv, TrueStatics
  <1> HIDE DEF row
  <1>6. /\ e \in Session /\ e.ready = TRUE /\ e.role = row.sess.role
        /\ e.own = row.sess.own /\ e.re = row.sess.re /\ e.rs = m.s
        /\ e.sendN = row.sess.sendN /\ e.recvN = row.sess.recvN
    BY <1>2, <1>3 DEF Session, Key
  <1>7. b = [row EXCEPT !.sess = e, !.last = TRUE]
    BY <1>3 DEF PeerState, Session
  <1>8. /\ b \in PeerState /\ b.sess = e /\ b.out = {} /\ Beside(row, b)
        /\ b.notice = row.notice /\ b.thread = row.thread
    <2> HIDE DEF e, b
    <2> QED BY <1>3, <1>6, <1>7 DEF PeerState, Beside
  <1> HIDE DEF b, e
  <1>9. MadeReady(row, b)
    BY <1>1, <1>6, <1>8 DEF MadeReady
  <1>10. CallsOf(b) = {}
    BY <1>8 DEF CallsOf
  <1>11. HalfOf(b.sess) = ReadyHalfOf(row.sess, row.sess.re)
    BY <1>6, <1>8 DEF HalfOf, ReadyHalfOf
  <1>12. \A c \in Known(p, n) : Opens(b.sess, c)
    BY <1>4, <1>6, <1>8 DEF Expected, Opens, KeyI, KeyR
  <1>13. \A u : HalfOf(u.sess) = HalfOf(b.sess) /\ CallsOf(u) = CallsOf(b) /\ u.resync = 0
            => Concludes(row, u, m)
    BY <1>1, <1>10, <1>11 DEF Concludes
  <1>14. CalmMove(n, p, row, t, {m}, {})
    <2>1. IsHandshake(m)
      BY <1>1 DEF IsHandshake
    <2>2. b.sess.rs = dhkey[p]
      BY <1>5, <1>6, <1>8
    <2>3. MadeReady(At(m), b)
      BY <1>9 DEF row
    <2>4. HalfOf(t.sess) = HalfOf(b.sess) /\ CallsOf(t) = CallsOf(b) /\ t.resync = 0
            => Concludes(At(m), t, m)
      BY <1>13 DEF row
    <2> QED BY <1>1, <1>12, <2>1, <2>2, <2>3, <2>4, FinishCalm DEF row
  <1> HIDE DEF t
  <1>15. CalmStep(m.dst, m.src, t, {m}, {})
    BY <1>1, <1>14, ReceiveCalm DEF row
  <1> QED BY <1>15

LEMMA BufferCalm ==
  ASSUME Quietly, NEW m \in net, BufferEarlyDm(m)
  PROVE  \E t, D, G : CalmStep(m.dst, m.src, t, D, G)
  <1> DEFINE n == m.dst
             p == m.src
             s == At(m)
             w == Append(s.inb, m)
             z == [s EXCEPT !.inb = Append(@, m)]
             t == IF Len(s.inb) < InboundCap THEN z ELSE s
  <1>1. /\ n \in Node /\ p \in Node /\ n # p /\ s = st[n][p]
        /\ s \in PeerState /\ s.out = {}
        /\ Expected(n, p, s, m) /\ m.type = "dm" /\ m \in Known(p, n) /\ m \in Ciphertext
        /\ HasSession(s) => s.addr
        /\ s.addr <=> s.dh # NoKey
        /\ s.dh \in {NoKey, dhkey[p]}
        /\ s.attempts # Absent => s.last
    BY PacketRow DEF BufferEarlyDm
  <1>2. HasSession(s)
    BY <1>1 DEF Expected
  <1>3. Receive(m, t)
    BY <1>2 DEF BufferEarlyDm
  <1>4. ~IsHandshake(m)
    BY <1>1 DEF IsHandshake
  <1> HIDE DEF s
  <1>5. /\ s.inb \in Seq(Ciphertext) /\ Len(s.inb) \in Nat
        /\ w \in Seq(Ciphertext) /\ Elements(s.inb) \subseteq Elements(w) /\ m \in Elements(w)
        /\ Elements(w) \subseteq Elements(s.inb) \cup {m}
    <2> DEFINE q == s.inb
    <2>1. q \in Seq(Ciphertext)
      BY <1>1 DEF PeerState
    <2> HIDE DEF q
    <2>2. /\ Append(q, m) \in Seq(Ciphertext) /\ Len(Append(q, m)) = Len(q) + 1 /\ Len(q) \in Nat
          /\ \A k \in 1 .. Len(q) : Append(q, m)[k] = q[k]
          /\ Append(q, m)[Len(q) + 1] = m
          /\ DOMAIN Append(q, m) = 1 .. Len(Append(q, m)) /\ DOMAIN q = 1 .. Len(q)
      BY <1>1, <2>1, AppendProperties
    <2> DEFINE y == Append(q, m)
    <2>3. /\ \A k \in DOMAIN q : k \in DOMAIN y /\ y[k] = q[k]
          /\ Len(q) + 1 \in DOMAIN y /\ y[Len(q) + 1] = m
      <3> HIDE DEF y
      <3> QED BY <2>2 DEF y
    <2> HIDE DEF y
    <2>4. Elements(q) \subseteq Elements(y) /\ m \in Elements(y)
      BY <2>3 DEF Elements
    <2>5. Elements(y) \subseteq Elements(q) \cup {m}
      <3>1. \A k \in DOMAIN y : (k \in DOMAIN q /\ y[k] = q[k]) \/ y[k] = m
        BY <2>2 DEF y
      <3> QED BY <3>1 DEF Elements
    <2> QED BY <2>1, <2>2, <2>4, <2>5 DEF q, y
  <1>6. z = [s EXCEPT !.inb = w]
    BY <1>1 DEF PeerState
  <1> HIDE DEF w, z
  <1>7. /\ t \in PeerState /\ t.sess = s.sess /\ t.out = {} /\ t.pend = s.pend
        /\ t.envs = s.envs /\ t.addr = s.addr /\ t.dh = s.dh /\ t.notice = s.notice
        /\ t.peer = s.peer /\ t.thread = s.thread /\ t.attempts = s.attempts
        /\ t.last = s.last /\ t.resync = s.resync
        /\ Elements(s.inb) \subseteq Elements(t.inb)
        /\ Len(s.inb) < InboundCap => m \in Elements(t.inb)
        /\ Elements(t.inb) \subseteq Elements(s.inb) \cup {m}
    <2>1. CASE Len(s.inb) < InboundCap
      <3>1. t = z
        BY <2>1
      <3> HIDE DEF t
      <3> QED BY <1>1, <1>5, <1>6, <2>1, <3>1 DEF PeerState
    <2>2. CASE ~(Len(s.inb) < InboundCap)
      BY <1>1, <2>2
    <2> QED BY <2>1, <2>2
  <1> HIDE DEF t, n, p
  <1>8. PhaseMove(n, p, s, t, {m}, next)
    <2>1. Goes(s, t)
      BY <1>7 DEF Goes, CallsOf
    <2> QED BY <1>4, <2>1 DEF PhaseMove, NoCall
  <1>9. Reached(t, dhkey[p])
    BY <1>1, <1>7 DEF Reached, HasSession
  <1>10. Mine(t) = Mine(s) /\ Yours(t) = Yours(s) /\ HeldSet(t) = HeldSet(s)
    BY <1>7 DEF Mine, Yours, HeldSet
  <1>11. Writing(s, t, {})
    BY <1>7, <1>10, StillWrites
  <1>12. ASSUME Roomy
         PROVE  Reading(n, p, s, t, {m})
    <2>1. m \in Elements(t.inb) \/ Elements(s.inb) # {}
      <3> SUFFICES ASSUME ~(Len(s.inb) < InboundCap) PROVE Elements(s.inb) # {}
        BY <1>7
      <3> DEFINE q == s.inb
      <3>1. q \in Seq(Ciphertext) /\ Len(q) \in Nat /\ Len(q) > 0
        BY <1>5, <1>12, BoundAssumption DEF Roomy
      <3> HIDE DEF q
      <3>2. 1 \in DOMAIN q
        BY <3>1
      <3>3. Elements(q) # {}
        BY <3>2 DEF Elements
      <3> QED BY <3>3 DEF q
    <2>2. t.sess.recvN \in {0, s.sess.recvN}
      BY <1>7
    <2> QED BY <1>1, <1>7, <1>10, <2>1, <2>2, StillReads
  <1>13. Posts(n, p, t)
    <2>1. Elements(s.inb) \subseteq Known(p, n) /\ m \in Known(p, n)
      BY <1>1 DEF Known
    <2> QED BY <1>7, <2>1 DEF Posts
  <1>14. CalmMove(n, p, s, t, {m}, {})
    BY <1>7, <1>8, <1>9, <1>11, <1>12, <1>13 DEF CalmMove, n, p
  <1>15. CalmStep(n, p, t, {m}, {})
    BY <1>3, <1>14, ReceiveCalm DEF n, p, s
  <1> QED BY <1>15 DEF n, p

LEMMA ReadCalm ==
  ASSUME Quietly, NEW m \in net, ReceiveDm(m)
  PROVE  \E t, D, G : CalmStep(m.dst, m.src, t, D, G)
  <1> DEFINE n == m.dst
             p == m.src
             s == At(m)
             cs == <<m>>
             t == decrypt_and_emit(n, p, s, cs)
  <1>1. /\ n \in Node /\ p \in Node /\ n # p /\ s = st[n][p]
        /\ s \in PeerState /\ s.out = {}
        /\ Expected(n, p, s, m) /\ m.type = "dm" /\ m \in Known(p, n) /\ m \in Ciphertext
        /\ HasSession(s) => s.addr
        /\ s.addr <=> s.dh # NoKey
        /\ s.dh \in {NoKey, dhkey[p]}
        /\ s.attempts # Absent => s.last
    BY PacketRow DEF ReceiveDm
  <1>2. Receive(m, t) /\ Ready(s)
    BY DEF ReceiveDm
  <1>3. ~IsHandshake(m)
    BY <1>1 DEF IsHandshake
  <1>4. cs \in Seq(Ciphertext) /\ Elements(cs) = {m} /\ cs # <<>> /\ cs[1] = m
    <2>1. cs \in Seq(Ciphertext) /\ cs # <<>> /\ cs[1] = m
      <3>1. m \in Ciphertext
        BY <1>1
      <3> QED BY <3>1
    <2>2. Elements(cs) = {m}
      BY DEF Elements
    <2> QED BY <2>1, <2>2
  <1>5. Opens(s.sess, m)
    BY <1>1, <1>2 DEF Expected, Opens, Ready
  <1> HIDE DEF s, cs
  <1>6. /\ Works(n, p, s, t) /\ Beside(s, t) /\ t.notice = s.notice
        /\ Apart(s, t) /\ t.resync \in {s.resync, 0}
        /\ SameOurs(s, t) /\ Reads(s, t, cs)
    BY <1>1, <1>4, DecryptWorks
  <1> HIDE DEF t, n, p
  <1>7. /\ t \in PeerState /\ HalfOf(t.sess) = HalfOf(s.sess)
        /\ t.pend = s.pend /\ t.inb = s.inb /\ t.envs = s.envs
        /\ t.peer = s.peer /\ t.addr = s.addr /\ t.dh = s.dh
        /\ t.attempts = s.attempts /\ t.last = s.last /\ CallsOf(t) = CallsOf(s)
    BY <1>6 DEF Works, Beside, Apart
  <1>8. PhaseMove(n, p, s, t, {m}, next)
    <2>1. Goes(s, t)
      BY <1>1, <1>6, <1>7 DEF Goes, CallsOf
    <2> QED BY <1>3, <2>1 DEF PhaseMove, NoCall
  <1>9. Reached(t, dhkey[p])
    <2>1. HasSession(t) => HasSession(s)
      BY <1>7 DEF HalfOf, HasSession
    <2> QED BY <1>1, <1>7, <2>1 DEF Reached
  <1>10. Writing(s, t, {})
    <2>1. Mine(t) = Mine(s) /\ HeldSet(t) = HeldSet(s)
      BY <1>6, <1>7 DEF Mine, SameOurs, HeldSet
    <2> QED BY <1>6, <1>7, <2>1, StillWrites
  <1>11. Reading(n, p, s, t, {m})
    <2>1. \A y \in Body : s.thread[Theirs(y)] <= t.thread[Theirs(y)]
      BY <1>6 DEF Reads
    <2>2. \A y \in Body : s.thread[Theirs(y)] \in Nat /\ t.thread[Theirs(y)] \in Nat
      BY <1>1, <1>7, TheirsType
    <2>3. Yours(s) \subseteq Yours(t)
      BY <2>1, <2>2 DEF Yours, Body
    <2>4. \/ t.sess.recvN = s.sess.recvN
          \/ \E c \in Known(p, n) : t.thread[Theirs(c.body)] > 0
      BY <1>1, <1>4, <1>6 DEF Reads
    <2>5. s.sess.recvN = 0 => t.thread[Theirs(m.body)] > 0
      BY <1>4, <1>5, <1>6 DEF Reads
    <2>6. \A k \in Known(p, n) : Known(p, n) = {k} => k = m
      BY <1>1
    <2> QED BY <2>3, <2>4, <2>5, <2>6 DEF Reading
  <1>12. Posts(n, p, t)
    BY <1>1, <1>6, <1>7 DEF Works, New, Under, Posts, Known
  <1>13. CalmMove(n, p, s, t, {m}, {})
    BY <1>7, <1>8, <1>9, <1>10, <1>11, <1>12 DEF CalmMove, n, p
  <1>14. CalmStep(n, p, t, {m}, {})
    BY <1>2, <1>13, ReceiveCalm DEF n, p, s
  <1> QED BY <1>14 DEF n, p

\* Every delivery in a calm mesh is such a step: no packet is unreadable, and none
\* that was only counted is counted again.
LEMMA PacketCalm ==
  ASSUME Quietly, ResyncThreshold > 1, NEW m \in net, PacketStep(m)
  PROVE  \E t, D, G : CalmStep(m.dst, m.src, t, D, G)
  <1> DEFINE s == At(m)
  <1>1. /\ s \in PeerState /\ s.out = {} /\ Expected(m.dst, m.src, s, m)
        /\ HasSession(s) => s.addr
        /\ s.addr <=> s.dh # NoKey
        /\ s.sess.role \in {"none", "init", "resp"}
        /\ m.type = "dm" => m \in Known(m.src, m.dst)
        /\ m.type # "dm" <=> IsHandshake(m)
        /\ Ready(s) => HasSession(s)
    BY PacketRow
  <1> HIDE DEF s
  <1>2. CASE ReceiveUnresolved(m) \/ KeepInitiating(m)
    <2>1. Receive(m, s)
      BY <1>2 DEF ReceiveUnresolved, KeepInitiating, s
    <2>2. Fresh(s) \/ (Initiating(s) /\ m.type = "msg1")
      <3>1. CASE KeepInitiating(m)
        BY <3>1 DEF KeepInitiating, Glare, Initiating, Ready, s
      <3>2. CASE ReceiveUnresolved(m)
        <4>1. s.dh = NoKey
          BY <3>2 DEF ReceiveUnresolved, Resolved, s
        <4> QED BY <1>1, <4>1 DEF HasSession, Fresh
      <3> QED BY <1>2, <3>1, <3>2
    <2>3. IsHandshake(m)
      <3>1. m.type = "dm" => HasSession(s)
        BY <1>1 DEF Expected
      <3>2. CASE KeepInitiating(m)
        BY <3>2 DEF KeepInitiating, Glare, IsHandshake
      <3>3. CASE ReceiveUnresolved(m)
        <4>1. s.dh = NoKey
          BY <3>3 DEF ReceiveUnresolved, Resolved, s
        <4> QED BY <1>1, <3>1, <4>1
      <3> QED BY <1>2, <3>2, <3>3
    <2>4. CalmMove(m.dst, m.src, s, s, {m}, {})
      BY <1>1, <2>2, <2>3, PassCalm DEF s
    <2>5. CalmStep(m.dst, m.src, s, {m}, {})
      BY <2>1, <2>4, ReceiveCalm DEF s
    <2> QED BY <2>5
  <1>3. CASE IgnoreRetransmit(m)
    <2> DEFINE t == [s EXCEPT !.resync = @ + 1]
    <2>1. IsHandshake(m) /\ s.sess.ready /\ Receive(m, t)
      BY <1>3 DEF IgnoreRetransmit, Ready, s
    <2>2. s.resync + 1 \in Nat
      BY <1>1 DEF PeerState
    <2>3. /\ t \in PeerState /\ t.sess = s.sess /\ t.out = {} /\ t.pend = s.pend
          /\ t.inb = s.inb /\ t.envs = s.envs /\ t.addr = s.addr /\ t.dh = s.dh
          /\ t.notice = s.notice /\ t.peer = s.peer /\ t.thread = s.thread
          /\ t.attempts = s.attempts /\ t.last = s.last /\ t.resync = s.resync + 1
      BY <1>1, <2>2 DEF PeerState
    <2> HIDE DEF t
    <2>4. CalmMove(m.dst, m.src, s, t, {m}, {})
      BY <2>1, <2>3, PassCalm DEF s
    <2>5. CalmStep(m.dst, m.src, t, {m}, {})
      BY <2>1, <2>4, ReceiveCalm DEF s
    <2> QED BY <2>5
  <1>4. CASE SupersedeZombie(m)
    <2>1. IsHandshake(m) /\ s.sess.ready /\ s.resync + 1 >= ResyncThreshold
      BY <1>4 DEF SupersedeZombie, Ready, s
    <2>2. s.resync = 0
      BY <1>1, <2>1 DEF Expected
    <2> QED BY <2>1, <2>2, BoundAssumption
  <1>5. CASE YieldAndRespond(m)
    <2>1. /\ IsHandshake(m) /\ Resolved(m) /\ Respond(m, At(m))
          /\ Initiating(At(m)) /\ m.type = "msg1" /\ ~(m.dst < m.src)
      BY <1>5 DEF YieldAndRespond, Glare, IsHandshake, Initiating, Ready
    <2> QED BY <2>1, RespondCalm
  <1>6. CASE RespondFresh(m)
    BY <1>6, RespondCalm DEF RespondFresh, Fresh, HasSession
  <1>7. CASE FailRead(m)
    <2>1. /\ IsHandshake(m) /\ HasSession(s) /\ ~s.sess.ready /\ Resolved(m)
          /\ ~Glare(m) /\ ~AnswersMe(m) /\ ~ClosesMine(m)
      BY <1>7 DEF FailRead, Handshaking, Ready, s
    <2> QED BY <1>1, <2>1 DEF Expected, Glare, AnswersMe, ClosesMine, HasSession, Ready, s
  <1> QED BY <1>2, <1>3, <1>4, <1>5, <1>6, <1>7, InitiatorCalm, ResponderCalm, BufferCalm,
             ReadCalm
          DEF PacketStep, HandshakeStep

\* Every step of a calm mesh is one of n about p.
LEMMA CalmSteps ==
  ASSUME Quietly, ResyncThreshold > 1
  PROVE  \E n, p \in Node : \E t, D, G : CalmStep(n, p, t, D, G)
  <1>0. IInv /\ Calm' /\ Next
    BY DEF Quietly, DInv
  <1>1. \A ev \in {"wipe", "restart", "upgrade", "age", "lose"} : ~Spend(ev)
    <2>1. \A ev \in {"wipe", "restart", "upgrade", "age", "lose"} :
             ev \in Event /\ ev \notin CalmEvent
      BY DEF Event, CalmEvent
    <2> QED BY <1>0, <2>1, CalmSpends
  <1>2. \A n \in Node : ~NodeStep(n)
    BY <1>1 DEF NodeStep, PanicWipe, Restart, Upgrade, WholeNode
  <1>3. \A n, p \in Node : ~AgeEnvelopes(n, p)
    BY <1>1 DEF AgeEnvelopes
  <1>4. \A m \in net : ~Lose(m)
    BY <1>1 DEF Lose
  <1>5. ASSUME NEW n \in Node, NEW p \in Node,
               \/ UserStep(n, p)
               \/ ReceiveAnnounce(n, p)
               \/ \E k \in 1 .. dhkey[p] : ReceiveStaleAnnounce(n, p, k)
               \/ RetryStalledHandshake(n, p)
        PROVE  \E t, D, G : CalmStep(n, p, t, D, G)
    BY <1>5, UserCalm, TimedCalm
  <1>6. ASSUME NEW m \in net, PacketStep(m)
        PROVE  \E n, p \in Node : \E t, D, G : CalmStep(n, p, t, D, G)
    <2>1. m.dst \in Node /\ m.src \in Node
      BY PacketRow
    <2> QED BY <1>6, <2>1, PacketCalm
  <1> QED BY <1>0, <1>2, <1>3, <1>4, <1>5, <1>6 DEF Next

\* What such a step leaves: only the row changes, the packets D are gone, the ones
\* sent are on their way to p, and no other ciphertext is new.
CalmFrame(n, p, t, D) ==
    /\ st'[n][p].sess = t.sess /\ st'[n][p].resync = t.resync
    /\ st'[n][p].pend = t.pend /\ st'[n][p].envs = t.envs /\ st'[n][p].inb = t.inb
    /\ st'[n][p].attempts = t.attempts /\ st'[n][p].last = t.last
    /\ st'[n][p].notice = t.notice /\ st'[n][p].peer = t.peer
    /\ st'[n][p].addr = t.addr /\ st'[n][p].dh = t.dh /\ st'[n][p].thread = t.thread
    /\ \A a, b \in Node : a # n \/ b # p => st'[a][b] = st[a][b]
    /\ Underway(n, p)' = Underway(n, p) \cup CallsOf(t)
    /\ Underway(p, n)' = Underway(p, n) \ D
    /\ Known(n, p) \subseteq Known(n, p)' /\ Known(p, n)' \subseteq Known(p, n)
    /\ \A m \in t.out : m.type = "dm" => m \in Known(n, p)'
    /\ \A m \in Known(p, n) : m \in Elements(t.inb) \/ m \in net \ D => m \in Known(p, n)'
    /\ \A a, b \in Node : {a, b} # {n, p} =>
          Underway(a, b)' = Underway(a, b) /\ Known(a, b)' = Known(a, b)

LEMMA CalmFrames ==
  ASSUME DInv, NEW n \in Node, NEW p \in Node, NEW t, NEW D, NEW G, CalmStep(n, p, t, D, G)
  PROVE  CalmFrame(n, p, t, D)
  <1>1. /\ n # p /\ t \in PeerState /\ Posts(n, p, t)
        /\ \A m \in D : m \in net /\ m.src = p /\ m.dst = n
        /\ PhaseMove(n, p, st[n][p], t, D, next)
        /\ st' = [st EXCEPT ![n][p] = [t EXCEPT !.out = {}]]
        /\ net' = (net \ D) \cup t.out
    BY DEF CalmStep, CalmMove, Commit
  <1>2. st \in [Node -> [Node -> PeerState]]
    BY DEF DInv, IInv, TypeOK
  <1>3. st'[n][p] = [t EXCEPT !.out = {}]
    BY <1>1, <1>2
  <1>4. \A a, b \in Node : a # n \/ b # p => st'[a][b] = st[a][b]
    BY <1>1, <1>2
  <1>5. /\ st'[n][p].sess = t.sess /\ st'[n][p].resync = t.resync
        /\ st'[n][p].pend = t.pend /\ st'[n][p].envs = t.envs /\ st'[n][p].inb = t.inb
        /\ st'[n][p].attempts = t.attempts /\ st'[n][p].last = t.last
        /\ st'[n][p].notice = t.notice /\ st'[n][p].peer = t.peer
        /\ st'[n][p].addr = t.addr /\ st'[n][p].dh = t.dh /\ st'[n][p].thread = t.thread
    BY <1>1, <1>3 DEF PeerState
  <1>6. \A m \in t.out : m.src = n /\ m.dst = p /\ (m.type = "dm" \/ IsHandshake(m))
    <2>1. \A m \in CallsOf(t) : m.src = n /\ m.dst = p
      <3>1. CASE \E x : Calls(n, p, t, x)
        BY <3>1 DEF Calls, Msg1
      <3>2. CASE CallsOf(t) = {}
        BY <3>2
      <3>3. CASE \E m : Answers(n, p, st[n][p], t, next, m)
        BY <3>3 DEF Answers, Msg2
      <3>4. CASE \E m : Initiates(n, p, st[n][p], t, m)
        BY <3>4 DEF Initiates, Msg3
      <3> QED BY <1>1, <3>1, <3>2, <3>3, <3>4
              DEF PhaseMove, Goes, Begins, Drops, Counts, Concludes
    <2>2. \A m \in t.out : m \in Packet
      BY <1>1 DEF PeerState
    <2>3. \A m \in t.out : m.type = "dm" \/ IsHandshake(m)
      BY <2>2 DEF Packet, Handshake1, Handshake23, Ciphertext, IsHandshake
    <2> QED BY <1>1, <2>1, <2>3 DEF Posts, CallsOf
  <1>7. \A m : m.type = "dm" => ~IsHandshake(m)
    BY DEF IsHandshake
  <1>8. Underway(n, p)' = Underway(n, p) \cup CallsOf(t)
    BY <1>1, <1>6 DEF Underway, CallsOf
  <1>9. Underway(p, n)' = Underway(p, n) \ D
    BY <1>1, <1>6 DEF Underway
  <1>10. Known(n, p) \subseteq Known(n, p)' /\ (\A m \in t.out : m.type = "dm" => m \in Known(n, p)')
    <2>1. st'[p][n] = st[p][n]
      BY <1>1, <1>4
    <2> QED BY <1>1, <1>6, <2>1 DEF Known
  <1>11. /\ Known(p, n)' \subseteq Known(p, n)
         /\ \A m \in Known(p, n) : m \in Elements(t.inb) \/ m \in net \ D => m \in Known(p, n)'
    <2>1. \A m \in net' : m.type = "dm" /\ m.src = p /\ m.dst = n => m \in net
      BY <1>1, <1>6
    <2>2. Elements(st'[n][p].inb) = Elements(t.inb) /\ Elements(t.inb) \subseteq Known(p, n)
      BY <1>1, <1>5 DEF Posts
    <2>3. \A m \in net : m.type = "dm" /\ m.src = p /\ m.dst = n /\ m \notin D => m \in net'
      BY <1>1
    <2>4. \A m \in Known(p, n) : m \in net \ D => m.type = "dm" /\ m.src = p /\ m.dst = n
      BY <1>1 DEF DInv, NonceInv, Addressed, Ciphertext, Known
    <2> QED BY <2>1, <2>2, <2>3, <2>4 DEF Known
  <1>12. ASSUME NEW a \in Node, NEW b \in Node, {a, b} # {n, p}
         PROVE  Underway(a, b)' = Underway(a, b) /\ Known(a, b)' = Known(a, b)
    <2>1. st'[b][a] = st[b][a]
      BY <1>4, <1>12
    <2>2. \A m : m.src = a /\ m.dst = b => (m \in net' <=> m \in net)
      BY <1>1, <1>6, <1>12
    <2> QED BY <2>1, <2>2 DEF Underway, Known
  <1> QED BY <1>4, <1>5, <1>8, <1>9, <1>10, <1>11, <1>12 DEF CalmFrame

\* The phases go on.
LEMMA CalmKept ==
  ASSUME Quietly, IInv', Proved!PairInv', NEW n \in Node, NEW p \in Node, NEW t, NEW D, NEW G,
         CalmStep(n, p, t, D, G)
  PROVE  CalmInv'
  <1>1. /\ n # p /\ t \in PeerState /\ dhkey' = dhkey /\ net' = (net \ D) \cup t.out
        /\ \A m \in D : m \in net /\ m.src = p /\ m.dst = n
        /\ PhaseMove(n, p, st[n][p], t, D, next) /\ Reached(t, dhkey[p])
    BY DEF CalmStep, CalmMove
  <1>2. DInv /\ Next /\ CalmInv
    BY DEF Quietly
  <1>3. CalmFrame(n, p, t, D)
    BY <1>2, CalmFrames
  <1>4. TrueStatics'
    <2>1. \A m \in CallsOf(t) : m.type \in {"msg2", "msg3"} => m.s = dhkey[m.src]
      <3>1. CASE \E x : Calls(n, p, t, x)
        BY <3>1 DEF Calls, Msg1
      <3>2. CASE CallsOf(t) = {}
        BY <3>2
      <3>3. CASE \E m : Answers(n, p, st[n][p], t, next, m)
        BY <3>3 DEF Answers, Msg2
      <3>4. CASE \E m : Initiates(n, p, st[n][p], t, m)
        BY <3>4 DEF Initiates, Msg3
      <3> QED BY <1>1, <3>1, <3>2, <3>3, <3>4
              DEF PhaseMove, Goes, Begins, Drops, Counts, Concludes
    <2>2. \A m \in net' : m.type \in {"msg2", "msg3"} => m \in net \/ m \in CallsOf(t)
      BY <1>1 DEF CallsOf, IsHandshake
    <2> QED BY <1>1, <1>2, <2>1, <2>2 DEF TrueStatics, CalmInv
  <1>5. Reached(st'[n][p], dhkey'[p])
    BY <1>1, <1>3 DEF CalmFrame, Reached, HasSession
  <1>6. PhaseOf(n, p)'
    <2>1. st[n][p] \in PeerState /\ st[p][n] \in PeerState /\ next \in Nat
      BY <1>1, <1>2, MoveRow
    <2>2. PhaseOf(n, p)
      BY <1>1, <1>2 DEF CalmInv
    <2>3. /\ Underway(n, p)' = Underway(n, p) \cup CallsOf(t)
          /\ Underway(p, n)' = Underway(p, n) \ D
          /\ st'[n][p].sess = t.sess /\ st'[n][p].resync = t.resync
          /\ Known(p, n)' \subseteq Known(p, n)
      BY <1>3 DEF CalmFrame
    <2>4. st'[p][n] = st[p][n]
      BY <1>1, <1>3 DEF CalmFrame
    <2>5. \A m \in Known(n, p)' : \/ m \in Known(n, p)
                                  \/ t.sess.ready /\ m.i = KeyI(t.sess) /\ m.r = KeyR(t.sess)
      <3>1. Arrives(n, p)
        BY <1>1, <1>2, Arrivals
      <3> QED BY <2>3, <3>1 DEF Arrives, Fits
    <2> QED BY <1>1, <2>1, <2>2, <2>3, <2>4, <2>5, PhaseKept
  <1>7. PhaseOf(p, n)'
    <2> DEFINE e == st'[n][p].sess
               f == st'[p][n].sess
               r == st'[n][p].resync
               q == st'[p][n].resync
               A == Underway(n, p)'
               B == Underway(p, n)'
               K == Known(n, p)'
               J == Known(p, n)'
    <2>1. Phase(n, p, e, f, r, q, A, B, K, J)
      BY <1>6 DEF PhaseOf
    <2> HIDE DEF e, f, r, q, A, B, K, J
    <2>2. Phase(p, n, f, e, q, r, B, A, J, K)
      BY <2>1, SwapPhase
    <2> QED BY <2>2 DEF PhaseOf, e, f, r, q, A, B, K, J
  <1>8. ASSUME NEW a \in Node, NEW b \in Node, a # b
        PROVE  Reached(st'[a][b], dhkey'[b])
    <2>1. CASE a = n /\ b = p
      BY <1>5, <2>1
    <2>2. CASE a # n \/ b # p
      BY <1>1, <1>2, <1>3, <1>8, <2>2 DEF CalmFrame, CalmInv
    <2> QED BY <2>1, <2>2
  <1>9. ASSUME NEW a \in Node, NEW b \in Node, a # b
        PROVE  PhaseOf(a, b)'
    <2>1. CASE {a, b} = {n, p}
      <3>1. (a = n /\ b = p) \/ (a = p /\ b = n)
        BY <1>9, <2>1
      <3> QED BY <1>6, <1>7, <3>1
    <2>2. CASE {a, b} # {n, p}
      <3>1. st'[a][b] = st[a][b] /\ st'[b][a] = st[b][a]
        BY <1>3, <2>2 DEF CalmFrame
      <3>2. /\ Underway(a, b)' = Underway(a, b) /\ Underway(b, a)' = Underway(b, a)
            /\ Known(a, b)' = Known(a, b) /\ Known(b, a)' = Known(b, a)
        <4>1. {b, a} # {n, p}
          BY <2>2
        <4> QED BY <1>3, <2>2, <4>1 DEF CalmFrame
      <3>3. PhaseOf(a, b)
        BY <1>2, <1>9 DEF CalmInv
      <3> QED BY <3>1, <3>2, <3>3 DEF PhaseOf
    <2> QED BY <2>1, <2>2
  <1> QED BY <1>4, <1>8, <1>9 DEF CalmInv

\* So do the texts, those of n
LEMMA WriterKept ==
  ASSUME Quietly, IInv', Proved!PairInv', NEW n \in Node, NEW p \in Node, NEW t, NEW D, NEW G,
         CalmStep(n, p, t, D, G), Roomy, Unscanned'
  PROVE  Mail(n, p)'
  <1> DEFINE s == st[n][p]
             r == st[p][n]
             u == st'[n][p]
  <1>1. /\ n # p /\ t \in PeerState /\ Writing(s, t, G) /\ sent' = sent \cup G
    BY DEF CalmStep, CalmMove
  <1>2. DInv /\ Next
    BY DEF Quietly
  <1>3. Mail(n, p) /\ Mail(p, n)
    BY <1>1, CalmRow
  <1>4. /\ u.notice = t.notice /\ u.peer = t.peer /\ u.thread = t.thread
        /\ u.pend = t.pend /\ u.envs = t.envs /\ u.sess = t.sess
        /\ Known(n, p) \subseteq Known(n, p)'
        /\ \A m \in t.out : m.type = "dm" => m \in Known(n, p)'
    BY <1>2, CalmFrames DEF CalmFrame
  <1>5. st'[p][n] = r
    BY <1>1, <1>2, CalmFrames DEF CalmFrame
  <1>6. Arrives(n, p)
    BY <1>1, <1>2, Arrivals
  <1>7. Mine(u) = Mine(t) /\ HeldSet(u) = HeldSet(t)
    BY <1>4 DEF Mine, HeldSet
  <1>8. /\ ~s.notice /\ ~s.peer.verified /\ HeldSet(s) \subseteq Mine(s)
        /\ \A m \in Known(n, p) : m.body \in Mine(s)
        /\ Yours(r) \subseteq Mine(s)
        /\ r.sess.recvN > 0 => Yours(r) # {}
        /\ \A x \in Mine(s) : Mine(s) = {x} =>
              \/ x \in HeldSet(s) \/ x \in Yours(r)
              \/ \E m \in Known(n, p) : m.body = x
    BY <1>3 DEF Mail
  <1>9. \A m \in Known(p, n) : m.body \in Text
    BY <1>3 DEF Mail, Mine
  <1> HIDE DEF s, r, u
  <1>10. ~u.notice /\ ~u.peer.verified
    BY <1>1, <1>4, <1>8 DEF Writing
  <1>11. HeldSet(s) \cup (sent' \ sent) \subseteq Mine(t)
    BY <1>1, <1>8 DEF Writing
  <1>12. HeldSet(u) \subseteq Mine(u)
    BY <1>6, <1>7, <1>11 DEF Arrives, s, u
  <1>13. \A m \in Known(n, p)' : m.body \in Mine(u)
    <2> SUFFICES ASSUME NEW m \in Known(n, p)', m \notin Known(n, p)
                 PROVE  m.body \in Mine(u)
      BY <1>1, <1>7, <1>8 DEF Writing
    <2>1. /\ m.body \in Body
          /\ m.body \in Text => m.body \in HeldSet(s) \cup (sent' \ sent)
          /\ m.body = "notice" => s.notice \/ u.peer.verified
          /\ m.body = "ack" => \E c \in Known(p, n) : c.body = "notice"
      BY <1>6 DEF Arrives, Fits, s, u
    <2>2. m.body \in Text
      BY <1>8, <1>9, <1>10, <2>1, TextIsNoControl DEF Body, Control
    <2> QED BY <1>7, <1>11, <2>1, <2>2
  <1>14. Yours(r) \subseteq Mine(u)
    BY <1>1, <1>7, <1>8 DEF Writing
  <1>15. ASSUME NEW x \in Mine(u), Mine(u) = {x}
         PROVE  \/ x \in HeldSet(u) \/ x \in Yours(r)
                \/ \E m \in Known(n, p)' : m.body = x
    <2>1. CASE x \in HeldSet(s) \cup G
      <3>1. Keeps(s, t, x)
        BY <1>1, <1>7, <1>15, <2>1 DEF Writing
      <3> QED BY <1>4, <1>7, <3>1 DEF Keeps, Utters
    <2>2. CASE x \notin HeldSet(s) \cup G
      <3>1. x \in Mine(s) /\ Mine(s) = {x}
        BY <1>1, <1>7, <1>15, <2>2 DEF Writing
      <3> QED BY <1>4, <1>8, <2>2, <3>1
    <2> QED BY <2>1, <2>2
  <1> QED BY <1>5, <1>8, <1>10, <1>12, <1>13, <1>14, <1>15 DEF Mail, u, r

\* and those that n reads.
LEMMA ReaderKept ==
  ASSUME Quietly, IInv', Proved!PairInv', NEW n \in Node, NEW p \in Node, NEW t, NEW D, NEW G,
         CalmStep(n, p, t, D, G), Roomy, Unscanned'
  PROVE  Mail(p, n)'
  <1> DEFINE s == st[n][p]
             r == st[p][n]
             u == st'[n][p]
  <1>1. n # p /\ t \in PeerState /\ Reading(n, p, s, t, D)
    BY DEF CalmStep, CalmMove
  <1>2. DInv /\ Next
    BY DEF Quietly
  <1>3. Mail(p, n)
    BY <1>1, CalmRow
  <1>4. /\ u.thread = t.thread /\ u.sess = t.sess
        /\ Known(p, n)' \subseteq Known(p, n)
        /\ \A m \in Known(p, n) : m \in Elements(t.inb) \/ m \in net \ D => m \in Known(p, n)'
    BY <1>2, CalmFrames DEF CalmFrame
  <1>5. st'[p][n] = r
    BY <1>1, <1>2, CalmFrames DEF CalmFrame
  <1>6. \A x \in Body : u.thread[Theirs(x)] > s.thread[Theirs(x)] =>
           \E c \in Known(p, n) : c.body = x
    BY <1>1, <1>2, Arrivals DEF Arrives
  <1>7. Yours(u) = Yours(t)
    BY <1>4 DEF Yours
  <1>8. /\ ~r.notice /\ ~r.peer.verified /\ HeldSet(r) \subseteq Mine(r)
        /\ \A m \in Known(p, n) : m.body \in Mine(r)
        /\ Yours(s) \subseteq Mine(r)
        /\ s.sess.recvN > 0 => Yours(s) # {}
        /\ \A x \in Mine(r) : Mine(r) = {x} =>
              \/ x \in HeldSet(r) \/ x \in Yours(s)
              \/ \E m \in Known(p, n) : m.body = x
    BY <1>3 DEF Mail
  <1>9. s \in PeerState
    BY <1>1, <1>2, MoveRow
  <1>10. /\ \A x \in Body : s.thread[Theirs(x)] \in Nat /\ t.thread[Theirs(x)] \in Nat
         /\ s.sess.recvN \in Nat /\ t.sess.recvN \in Nat
    BY <1>1, <1>9, TheirsType DEF PeerState, Session
  <1>11. \A a, b \in Known(p, n) : a.body \in Text /\ a.body = b.body => a = b
    BY <1>1, <1>2 DEF DInv, TextInv, Kept
  <1>12. Mine(r) \subseteq Text
    BY DEF Mine
  <1> HIDE DEF s, r, u
  <1>13. Yours(u) \subseteq Mine(r)
    <2> SUFFICES ASSUME NEW x \in Yours(u), x \notin Yours(s) PROVE x \in Mine(r)
      BY <1>8
    <2>1. x \in Text /\ x \in Body /\ t.thread[Theirs(x)] > 0 /\ ~(s.thread[Theirs(x)] > 0)
      BY <1>7 DEF Yours, Body
    <2>2. t.thread[Theirs(x)] > s.thread[Theirs(x)]
      BY <1>10, <2>1
    <2> QED BY <1>4, <1>6, <1>8, <2>1, <2>2
  <1>14. Yours(s) \subseteq Yours(u)
    BY <1>1, <1>7 DEF Reading
  <1>15. u.sess.recvN > 0 => Yours(u) # {}
    <2>1. CASE t.sess.recvN \in {0, s.sess.recvN}
      BY <1>4, <1>8, <1>14, <2>1
    <2>2. CASE \E c \in Known(p, n) : t.thread[Theirs(c.body)] > 0
      BY <1>7, <1>8, <1>12, <2>2 DEF Yours
    <2> QED BY <1>1, <2>1, <2>2 DEF Reading
  <1>16. ASSUME NEW x \in Mine(r), Mine(r) = {x}
         PROVE  \/ x \in HeldSet(r) \/ x \in Yours(u)
                \/ \E m \in Known(p, n)' : m.body = x
    <2>1. CASE x \in Yours(s)
      BY <1>14, <2>1
    <2>2. CASE x \notin Yours(s) /\ \E m \in Known(p, n) : m.body = x
      <3>1. PICK m \in Known(p, n) : m.body = x
        BY <2>2
      <3>2. Known(p, n) = {m}
        BY <1>8, <1>11, <1>12, <1>16, <3>1
      <3>3. s.sess.recvN = 0
        <4>1. Yours(s) = {}
          BY <1>8, <1>16, <2>2
        <4> QED BY <1>8, <1>10, <4>1
      <3>4. m \in Elements(t.inb) \/ m \in net \ D \/ t.thread[Theirs(m.body)] > 0
        BY <1>1, <3>2, <3>3 DEF Reading
      <3>5. t.thread[Theirs(m.body)] > 0 => x \in Yours(u)
        BY <1>7, <1>12, <3>1 DEF Yours
      <3> QED BY <1>4, <3>1, <3>4, <3>5
    <2> QED BY <1>8, <1>16, <2>1, <2>2
  <1>17. \A m \in Known(p, n)' : m.body \in Mine(r)
    BY <1>4, <1>8
  <1> QED BY <1>5, <1>8, <1>13, <1>15, <1>16, <1>17 DEF Mail, u, r

LEMMA MailKept ==
  ASSUME Quietly, IInv', Proved!PairInv', NEW n \in Node, NEW p \in Node, NEW t, NEW D, NEW G,
         CalmStep(n, p, t, D, G), Roomy, Unscanned'
  PROVE  MailInv'
  <1>1. n # p /\ DInv /\ Quietly
    BY DEF CalmStep, Quietly
  <1>2. Unscanned
    BY <1>1, CalmBefore DEF Quietly, DInv
  <1>3. MailInv
    BY <1>1, <1>2 DEF Quietly
  <1>4. CalmFrame(n, p, t, D)
    BY <1>1, CalmFrames
  <1>5. \A a \in Node : Mine(st'[a][a]) = {}
    <2>1. \A a \in Node : st'[a][a] = st[a][a]
      BY <1>1, <1>4 DEF CalmFrame
    <2> QED BY <1>3, <2>1 DEF MailInv
  <1>6. ASSUME NEW a \in Node, NEW b \in Node, a # b
        PROVE  Mail(a, b)'
    <2>1. CASE {a, b} = {n, p}
      <3>1. (a = n /\ b = p) \/ (a = p /\ b = n)
        BY <1>6, <2>1
      <3> QED BY <3>1, WriterKept, ReaderKept
    <2>2. CASE {a, b} # {n, p}
      <3>1. st'[a][b] = st[a][b] /\ st'[b][a] = st[b][a] /\ Known(a, b)' = Known(a, b)
        BY <1>4, <2>2 DEF CalmFrame
      <3>2. Mail(a, b)
        BY <1>3, <1>6 DEF MailInv
      <3> QED BY <3>1, <3>2 DEF Mail
    <2> QED BY <2>1, <2>2
  <1> QED BY <1>5, <1>6 DEF MailInv

(***************************************************************************)
(* The invariant of the calm mesh.                                         *)
(***************************************************************************)
CalmMeshInv == (Calm => CalmInv) /\ (Roomy /\ Unscanned => MailInv)

LEMMA InitQuiet == Init => CalmMeshInv
  <1> SUFFICES ASSUME Init PROVE CalmInv /\ MailInv
    BY DEF CalmMeshInv
  <1>1. \A n, p \in Node : st[n][p] = Forgotten
    BY DEF Init
  <1>2. \A r \in Row : Forgotten.thread[r] = 0
    BY DEF Forgotten
  <1>3. /\ Forgotten.sess = NoSession /\ Forgotten.pend = <<>> /\ Forgotten.inb = <<>>
        /\ Forgotten.envs = <<>> /\ Forgotten.notice = FALSE /\ Forgotten.addr = FALSE
        /\ Forgotten.dh = NoKey /\ Forgotten.attempts = Absent /\ Forgotten.resync = 0
        /\ Forgotten.peer.verified = FALSE
    BY DEF Forgotten
  <1>4. NoSession.role = "none" /\ NoSession.ready = FALSE /\ NoSession.recvN = 0
    BY DEF NoSession
  <1> HIDE DEF Forgotten, NoSession
  <1>5. \A n, p \in Node : Known(n, p) = {} /\ Underway(n, p) = {}
    BY <1>1, <1>3, NoneDistinct DEF Known, Underway, Init
  <1>6. Mine(Forgotten) = {} /\ Yours(Forgotten) = {} /\ HeldSet(Forgotten) = {}
    <2>1. \A x \in Text : Ours(x) \in Row /\ Theirs(x) \in Row
      BY DEF Ours, Theirs, Row, Body
    <2> QED BY <1>2, <1>3, <2>1, NoneDistinct DEF Mine, Yours, HeldSet
  <1>7. \A k : Reached(Forgotten, k)
    BY <1>3, <1>4 DEF Reached, HasSession
  <1>8. \A n, p \in Node : PhaseOf(n, p)
    <2>1. Offers(NoSession, {})
      BY <1>4 DEF Offers, Lone
    <2> QED BY <1>1, <1>3, <1>5, <2>1 DEF PhaseOf, Phase, Opening
  <1>9. TrueStatics
    BY DEF TrueStatics, Init
  <1>10. \A n, p \in Node : Mail(n, p)
    BY <1>1, <1>3, <1>4, <1>5, <1>6 DEF Mail
  <1> QED BY <1>1, <1>6, <1>7, <1>8, <1>9, <1>10 DEF CalmInv, MailInv

LEMMA NextQuiet ==
  ASSUME ResyncThreshold > 1, DInv, CalmMeshInv, [Next]_vars, IInv', Proved!PairInv'
  PROVE  CalmMeshInv'
  <1>1. (Calm' => Calm) /\ (Unscanned' => Unscanned) /\ (Unscanned' => Calm')
    BY CalmBefore DEF DInv, Unscanned
  <1>2. Roomy' <=> Roomy
    BY DEF Roomy
  <1>3. CASE UNCHANGED vars
    <2>1. /\ \A n, p \in Node : Known(n, p)' = Known(n, p) /\ Underway(n, p)' = Underway(n, p)
          /\ st' = st /\ net' = net /\ dhkey' = dhkey
      BY <1>3 DEF vars, Known, Underway
    <2>2. CalmInv => CalmInv'
      BY <2>1 DEF CalmInv, TrueStatics, PhaseOf
    <2>3. MailInv => MailInv'
      <3>1. \A n, p \in Node : Mail(n, p) => Mail(n, p)'
        BY <2>1 DEF Mail
      <3>2. \A n \in Node : Mine(st'[n][n]) = Mine(st[n][n])
        BY <2>1
      <3> QED BY <3>1, <3>2 DEF MailInv
    <2> QED BY <1>1, <1>2, <2>2, <2>3 DEF CalmMeshInv
  <1>4. CASE Next /\ Calm'
    <2>1. Quietly
      BY <1>1, <1>4 DEF Quietly, CalmMeshInv
    <2>2. PICK n \in Node, p \in Node : \E t, D, G : CalmStep(n, p, t, D, G)
      BY <2>1, CalmSteps
    <2>3. PICK t, D, G : CalmStep(n, p, t, D, G)
      BY <2>2
    <2>4. CalmInv'
      BY <2>1, <2>3, CalmKept
    <2>5. Roomy /\ Unscanned' => MailInv'
      BY <2>1, <2>3, MailKept
    <2> QED BY <1>2, <2>4, <2>5 DEF CalmMeshInv
  <1>5. CASE Next /\ ~Calm'
    BY <1>1, <1>5 DEF CalmMeshInv
  <1> QED BY <1>3, <1>4, <1>5

LEMMA CalmMeshInvHolds ==
  ASSUME ResyncThreshold > 1
  PROVE  Spec => [](DInv /\ CalmMeshInv)
  <1>1. Spec => []IInv
    BY InitIInv, NextIInv, PTL DEF Spec
  <1>2. DInv /\ CalmMeshInv /\ [Next]_vars /\ IInv' /\ Proved!PairInv' => CalmMeshInv'
    BY NextQuiet
  <1> QED BY <1>1, <1>2, InitQuiet, DeliveryInvHolds, MappedPairInv, PTL DEF Spec

\* node.rs: glare, a retry when nothing is on the way and packets in any order
\* never reset a session that is ready at both ends.  Each end is left with at
\* most one packet to ignore, its peer's offer, which is below the threshold of
\* RESYNC_HANDSHAKE_THRESHOLD, 2 (node.rs:144); at 1 it would reset the session.
THEOREM SessionStays ==
  ASSUME ResyncThreshold > 1
  PROVE  Spec => SessionSurvives
  <1>1. ASSUME DInv, CalmMeshInv, Next, NEW a \in Node, NEW b \in Node, a # b, Calm',
               Ready(st[a][b])
        PROVE  Ready(st'[a][b])
    <2>1. Quietly
      BY <1>1, CalmBefore DEF Quietly, CalmMeshInv, DInv
    <2>2. PICK n \in Node, p \in Node : \E t, D, G : CalmStep(n, p, t, D, G)
      BY <2>1, CalmSteps
    <2>3. PICK t, D, G : CalmStep(n, p, t, D, G)
      BY <2>2
    <2>4. st'[n][p].sess = t.sess /\ \A c, d \in Node : c # n \/ d # p => st'[c][d] = st[c][d]
      BY <1>1, <2>3, CalmFrames DEF CalmFrame
    <2>5. n # p /\ PhaseMove(n, p, st[n][p], t, D, next)
      BY <2>3 DEF CalmStep, CalmMove
    <2>6. Ready(st[n][p]) => HasSession(st[n][p])
      BY <1>1, <2>5, MoveRow
    <2>7. st[n][p].sess.ready => t.sess.ready
      <3> DEFINE s == st[n][p]
      <3>1. s.sess.ready => s.sess.role # "none"
        BY <2>6 DEF Ready, HasSession
      <3>2. HalfOf(t.sess) = HalfOf(s.sess) => t.sess.ready = s.sess.ready
        BY DEF HalfOf
      <3> QED BY <2>5, <3>1, <3>2 DEF PhaseMove, Goes, Begins, Drops, Counts, Answers,
                  Initiates, Concludes, Fresh, Initiating
    <2> QED BY <1>1, <2>4, <2>7 DEF Ready
  <1>2. DInv /\ CalmMeshInv /\ [Next]_vars
            => [\A n, p \in Node : n # p /\ Calm' /\ BothReady(n, p) => BothReady(n, p)']_vars
    <2>1. ASSUME DInv, CalmMeshInv, Next, NEW n \in Node, NEW p \in Node, n # p, Calm',
                 BothReady(n, p)
          PROVE  BothReady(n, p)'
      BY <1>1, <2>1 DEF BothReady, Ready
    <2> QED BY <2>1
  <1> QED BY <1>2, CalmMeshInvHolds, PTL DEF Spec, SessionSurvives

\* node.rs: while the mesh loses nothing and nobody scans, the only text of n to
\* p is held in the store, queued behind the handshake, in flight, kept as an early
\* ciphertext or in p's thread: whatever handshakes meet, it is not dropped.  There
\* has to be room for one held text and one early ciphertext.
THEOREM FirstTextTheorem ==
  ASSUME ResyncThreshold > 1, InboundCap > 0, EnvelopeCap > 0
  PROVE  Spec => []FirstTextKept
  <1>1. DInv /\ CalmMeshInv => FirstTextKept
    <2> SUFFICES ASSUME DInv, CalmMeshInv, NEW n \in Node, NEW p \in Node, NEW x \in Text,
                        Unscanned, st[n][p].thread[Ours(x)] > 0,
                        \A u \in Text \ {x} : st[n][p].thread[Ours(u)] = 0
                 PROVE  Somewhere(n, p, x)
      BY DEF FirstTextKept, Ours, Unscanned
    <2>1. MailInv
      BY DEF CalmMeshInv, Roomy
    <2>2. x \in Mine(st[n][p]) /\ Mine(st[n][p]) = {x}
      BY DEF Mine
    <2>3. n # p
      BY <2>1, <2>2 DEF MailInv
    <2>4. \/ x \in HeldSet(st[n][p]) \/ x \in Yours(st[p][n])
          \/ \E m \in Known(n, p) : m.body = x
      BY <2>1, <2>2, <2>3 DEF MailInv, Mail
    <2>5. x \in HeldSet(st[n][p]) => Holds(st[n][p].envs, x) \/ Holds(st[n][p].pend, x)
      BY DEF HeldSet, Elements, Holds
    <2>6. x \in Yours(st[p][n]) => st[p][n].thread[<<FALSE, x>>] > 0
      BY DEF Yours, Theirs
    <2>7. ASSUME NEW m \in Known(n, p), m.body = x
          PROVE  \/ \E k \in net : k.type = "dm" /\ k.body = x
                 \/ Carries(st[p][n].inb, x)
      BY <2>7 DEF Known, Elements, Carries
    <2> QED BY <2>4, <2>5, <2>6, <2>7 DEF Somewhere
  <1> QED BY <1>1, CalmMeshInvHolds, PTL

=============================================================================

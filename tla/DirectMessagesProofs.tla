------------------------ MODULE DirectMessagesProofs ------------------------
(***************************************************************************)
(* Proofs about DirectMessages: type correctness, that the handshake code  *)
(* implements SessionPairing, and with it that two ready ends agree.       *)
(***************************************************************************)
EXTENDS DirectMessages, FiniteSetTheorems, SequenceTheorems, WellFoundedInduction, TLAPS

(***************************************************************************)
(* The operators.  A step of n about p that leaves the half of its session *)
(* alone and sends nothing but ciphertexts is plain.                       *)
(***************************************************************************)
Plain(n, p, s, t) ==
    /\ t \in PeerState
    /\ HalfOf(t.sess) = HalfOf(s.sess)
    /\ \A m \in t.out : m \in s.out \/ (m \in Ciphertext /\ m.src = n /\ m.dst = p)

\* A set of naturals with an upper bound has a largest element.
LEMMA MaxExists ==
  ASSUME NEW L \in Nat, NEW K \in SUBSET (1 .. L), K # {}
  PROVE  \E k \in K : \A j \in K : j <= k
  <1> DEFINE R == OpToRel(<, Nat)
             D == {L - k : k \in K}
  <1>1. IsWellFoundedOn(R, Nat)
    BY NatLessThanWellFounded
  <1>2. \A x, y \in Nat : <<y, x>> \in R <=> y < x
    BY DEF OpToRel
  <1> HIDE DEF R
  <1>3. \A k \in K : k \in Nat /\ L - k \in Nat
    OBVIOUS
  <1>4. D \subseteq Nat /\ D # {}
    BY <1>3
  <1>5. \E x \in D : \A y \in D : ~ (<<y, x>> \in R)
    <2> HIDE DEF D
    <2> QED BY <1>1, <1>4, WFMin
  <1>6. PICK x \in D : \A y \in D : ~ (y < x)
    <2> HIDE DEF D
    <2> QED BY <1>2, <1>4, <1>5
  <1>7. PICK k \in K : x = L - k
    OBVIOUS
  <1>8. ASSUME NEW j \in K PROVE j <= k
    <2>1. L - j \in D
      OBVIOUS
    <2>2. ~(L - j < L - k)
      BY <1>6, <1>7, <2>1
    <2> QED BY <1>3, <2>2
  <1> QED BY <1>8

\* The session constructors have their type.
LEMMA SessionTypes ==
  /\ NoSession \in Session
  /\ \A id \in Nat : new_initiator(id) \in Session
  /\ \A id \in Nat, e \in Ephemeral : new_responder(id, e) \in Session
  /\ \A e \in Session : KeyI(e) \in Ephemeral /\ KeyR(e) \in Ephemeral
  BY DEF Session, NoSession, new_initiator, new_responder, NoKey, Key, Ephemeral,
         Garbage, KeyI, KeyR

\* A ciphertext of a session is a ciphertext.
LEMMA DmType ==
  ASSUME NEW n \in Node, NEW p \in Node, NEW e \in Session, NEW x \in Nat,
         NEW b \in Body
  PROVE  Dm(n, p, e, x, b) \in Ciphertext /\ Dm(n, p, e, x, b).src = n
         /\ Dm(n, p, e, x, b).dst = p
  BY SessionTypes DEF Dm, Ciphertext

\* send_directed adds packets to those of the step, or none.
LEMMA SendDirectedType ==
  ASSUME NEW s \in PeerState, NEW pkts \in SUBSET Packet
  PROVE  /\ send_directed(s, pkts) \in PeerState
         /\ send_directed(s, pkts).sess = s.sess
         /\ send_directed(s, pkts).addr = s.addr
         /\ \A m \in send_directed(s, pkts).out : m \in s.out \/ m \in pkts
  BY DEF send_directed, PeerState

\* Encrypting is plain.
LEMMA EncryptPlain ==
  ASSUME NEW n \in Node, NEW p \in Node, NEW s \in PeerState, NEW bs \in Seq(Body)
  PROVE  Plain(n, p, s, encrypt_and_send(n, p, s, bs))
  <1> DEFINE t == [s EXCEPT !.sess.sendN = @ + Len(bs)]
             pk == {Dm(n, p, s.sess, s.sess.sendN + k - 1, bs[k]) : k \in DOMAIN bs}
  <1>1. s.sess \in Session /\ s.sess.sendN \in Nat
    BY DEF PeerState, Session
  <1>2. \A k \in DOMAIN bs : bs[k] \in Body /\ s.sess.sendN + k - 1 \in Nat
    BY <1>1
  <1>3. \A m \in pk : m \in Ciphertext /\ m.src = n /\ m.dst = p
    BY <1>1, <1>2, DmType
  <1>4. Len(bs) \in Nat
    OBVIOUS
  <1>5. t \in PeerState /\ HalfOf(t.sess) = HalfOf(s.sess) /\ t.out = s.out
    <2> DEFINE e == [s.sess EXCEPT !.sendN = @ + Len(bs)]
    <2>1. e \in Session /\ HalfOf(e) = HalfOf(s.sess)
      BY <1>1, <1>4 DEF Session, HalfOf
    <2>2. t = [s EXCEPT !.sess = e]
      BY DEF PeerState
    <2> HIDE DEF t, e
    <2> QED BY <2>1, <2>2 DEF PeerState
  <1>6. pk \in SUBSET Packet
    BY <1>3 DEF Packet
  <1>7. encrypt_and_send(n, p, s, bs) = send_directed(t, pk)
    BY DEF encrypt_and_send
  <1> HIDE DEF t, pk
  <1> QED BY <1>3, <1>5, <1>6, <1>7, SendDirectedType DEF Plain

\* Storing a row changes nothing but the thread.
LEMMA PutDmType ==
  ASSUME NEW s \in PeerState, NEW row \in Row
  PROVE  /\ put_dm(s, row) \in PeerState
         /\ put_dm(s, row).sess = s.sess
         /\ put_dm(s, row).out = s.out
  <1> DEFINE th == [s.thread EXCEPT ![row] = @ + 1]
  <1>1. th \in [Row -> Nat]
    BY DEF PeerState
  <1>2. put_dm(s, row) = [s EXCEPT !.thread = th]
    BY DEF put_dm, PeerState
  <1> HIDE DEF th
  <1> QED BY <1>1, <1>2 DEF PeerState

\* Plain steps compose.
LEMMA PlainTrans ==
  ASSUME NEW n, NEW p, NEW s, NEW t, NEW u, Plain(n, p, t, u),
         HalfOf(t.sess) = HalfOf(s.sess),
         \A m \in t.out : m \in s.out \/ (m \in Ciphertext /\ m.src = n /\ m.dst = p)
  PROVE  Plain(n, p, s, u)
  BY DEF Plain

\* Sending a control message is plain.
LEMMA ControlPlain ==
  ASSUME NEW n \in Node, NEW p \in Node, NEW s \in PeerState, NEW b \in Control
  PROVE  Plain(n, p, s, send_control_dm(n, p, s, b))
  <1> DEFINE t == put_dm(s, <<TRUE, b>>)
  <1>1. <<TRUE, b>> \in Row /\ <<b>> \in Seq(Body)
    <2>1. b \in Body
      BY DEF Body
    <2>2. <<TRUE, b>> \in Row
      BY <2>1 DEF Row
    <2> QED BY <2>1, <2>2
  <1>2. t \in PeerState /\ t.sess = s.sess /\ t.out = s.out
    BY <1>1, PutDmType
  <1>3. Plain(n, p, t, encrypt_and_send(n, p, t, <<b>>))
    BY <1>1, <1>2, EncryptPlain
  <1>4. send_control_dm(n, p, s, b) = encrypt_and_send(n, p, t, <<b>>)
    BY DEF send_control_dm
  <1> HIDE DEF t
  <1> QED BY <1>2, <1>3, <1>4, PlainTrans

\* So is the notice that verify_peer owes.
LEMMA NoticePlain ==
  ASSUME NEW n \in Node, NEW p \in Node, NEW s \in PeerState
  PROVE  Plain(n, p, s, try_send_verify_notice(n, p, s))
  <1> DEFINE t == [s EXCEPT !.notice = FALSE]
  <1>1. t \in PeerState /\ t.sess = s.sess /\ t.out = s.out
    BY DEF PeerState
  <1>2. Plain(n, p, t, send_control_dm(n, p, t, "notice"))
    <2> HIDE DEF t
    <2> QED BY <1>1, ControlPlain DEF Control
  <1>3. Plain(n, p, s, send_control_dm(n, p, t, "notice"))
    <2> HIDE DEF t
    <2> QED BY <1>1, <1>2, PlainTrans
  <1>4. Plain(n, p, s, s)
    BY DEF Plain
  <1> QED BY <1>3, <1>4 DEF try_send_verify_notice

\* The nonce expected next is a natural number.
LEMMA NextNonceType ==
  ASSUME NEW e \in Session, NEW cs \in Seq(Ciphertext), NEW ks \in SUBSET DOMAIN cs
  PROVE  NextNonce(e, cs, ks) \in Nat
  <1>1. CASE ks = {}
    BY <1>1 DEF NextNonce, Session
  <1>2. CASE ks # {}
    <2> DEFINE k == CHOOSE k \in ks : \A j \in ks : j <= k
    <2>1. DOMAIN cs = 1 .. Len(cs) /\ Len(cs) \in Nat
      OBVIOUS
    <2>2. k \in ks
      BY <1>2, <2>1, MaxExists
    <2>3. cs[k] \in Ciphertext
      BY <2>1, <2>2
    <2>4. NextNonce(e, cs, ks) = cs[k].nonce + 1
      BY <1>2 DEF NextNonce
    <2> HIDE DEF k
    <2> QED BY <2>3, <2>4 DEF Ciphertext
  <1> QED BY <1>1, <1>2

\* Subsets of the indices of a sequence can be counted.
LEMMA CountType ==
  ASSUME NEW S, NEW cs \in Seq(S), NEW ks \in SUBSET DOMAIN cs
  PROVE  Cardinality(ks) \in Nat
  <1>1. DOMAIN cs = 1 .. Len(cs) /\ Len(cs) \in Int
    OBVIOUS
  <1>2. IsFiniteSet(1 .. Len(cs))
    BY <1>1, FS_Interval
  <1> QED BY <1>1, <1>2, FS_Subset, FS_CardinalityType

\* Decrypting, with the acks it sends, is plain.
LEMMA DecryptPlain ==
  ASSUME NEW n \in Node, NEW p \in Node, NEW s \in PeerState,
         NEW cs \in Seq(Ciphertext)
  PROVE  Plain(n, p, s, decrypt_and_emit(n, p, s, cs))
  <1> DEFINE ok == Accepted(s.sess, cs)
             Carrying(b) == {k \in ok : cs[k].body = b}
             acks == Cardinality(Carrying("notice"))
             stored == [r \in Row |->
                     s.thread[r] + (IF r = <<TRUE, "ack">> THEN acks ELSE 0)
                                 + (IF r[1] THEN 0 ELSE Cardinality(Carrying(r[2])))]
             e == [s.sess EXCEPT !.recvN = NextNonce(s.sess, cs, ok)]
             t == [s EXCEPT !.resync = IF ok = {} THEN @ ELSE 0,
                            !.sess.recvN = NextNonce(s.sess, cs, ok),
                            !.thread = stored]
             bs == [k \in 1 .. acks |-> "ack"]
  <1>1. s.sess \in Session /\ s.thread \in [Row -> Nat]
    BY DEF PeerState
  <1>2. ok \in SUBSET DOMAIN cs
    BY DEF Accepted
  <1>3. \A b : Cardinality(Carrying(b)) \in Nat
    BY <1>2, CountType
  <1>4. acks \in Nat
    BY <1>3
  <1>5. stored \in [Row -> Nat]
    <2> DEFINE A(r) == IF r = <<TRUE, "ack">> THEN acks ELSE 0
               B(r) == IF r[1] THEN 0 ELSE Cardinality(Carrying(r[2]))
    <2>1. \A r \in Row : s.thread[r] \in Nat /\ A(r) \in Nat /\ B(r) \in Nat
      <3> HIDE DEF acks, Carrying
      <3> QED BY <1>1, <1>3, <1>4
    <2>2. stored = [r \in Row |-> s.thread[r] + A(r) + B(r)]
      OBVIOUS
    <2> HIDE DEF A, B, stored
    <2> QED BY <2>1, <2>2
  <1>6. e \in Session /\ HalfOf(e) = HalfOf(s.sess)
    <2>1. NextNonce(s.sess, cs, ok) \in Nat
      BY <1>1, <1>2, NextNonceType
    <2> HIDE DEF ok
    <2> QED BY <1>1, <2>1 DEF Session, HalfOf
  <1>7. bs \in Seq(Body)
    <2> HIDE DEF acks
    <2> QED BY <1>4, IsASeq DEF Body, Control
  <1>8. t = [s EXCEPT !.resync = IF ok = {} THEN @ ELSE 0, !.sess = e, !.thread = stored]
    <2> HIDE DEF ok, stored
    <2> QED BY DEF PeerState
  <1>9. t \in PeerState /\ HalfOf(t.sess) = HalfOf(s.sess) /\ t.out = s.out
    <2> HIDE DEF ok, stored, e, t
    <2> QED BY <1>5, <1>6, <1>8 DEF PeerState
  <1>10. decrypt_and_emit(n, p, s, cs) = encrypt_and_send(n, p, t, bs)
    BY DEF decrypt_and_emit
  <1> HIDE DEF t, bs
  <1>11. Plain(n, p, t, encrypt_and_send(n, p, t, bs))
    BY <1>7, <1>9, EncryptPlain
  <1> QED BY <1>9, <1>10, <1>11, PlainTrans

\* Completing a session is plain, or drops it and sends nothing.
LEMMA FinishCases ==
  ASSUME NEW n \in Node, NEW p \in Node, NEW s \in PeerState
  PROVE  LET t == finish_session(n, p, s)
         IN  \/ Plain(n, p, s, t)
             \/ t \in PeerState /\ t.sess = NoSession /\ t.out = s.out
  <1> DEFINE reset == [s EXCEPT !.last = FALSE, !.attempts = Absent]
             clear == [reset EXCEPT !.resync = 0]
             told == try_send_verify_notice(n, p, clear)
             queue == [told EXCEPT !.pend = <<>>]
             flushed == encrypt_and_send(n, p, queue, s.pend)
             ready == [flushed EXCEPT !.inb = <<>>]
             done == decrypt_and_emit(n, p, ready, s.inb)
             dropped == [reset EXCEPT !.sess = NoSession, !.pend = <<>>]
  <1>1. reset \in PeerState /\ reset.sess = s.sess /\ reset.out = s.out
    BY DEF PeerState
  <1>0. <<>> \in Seq(Text) /\ <<>> \in Seq(Ciphertext) /\ NoSession \in Session
    BY SessionTypes
  <1>2. dropped \in PeerState /\ dropped.sess = NoSession /\ dropped.out = s.out
    <2> HIDE DEF reset
    <2> QED BY <1>0, <1>1 DEF PeerState
  <1>3. clear \in PeerState /\ clear.sess = s.sess /\ clear.out = s.out
    <2> HIDE DEF reset
    <2> QED BY <1>1 DEF PeerState
  <1>4. Plain(n, p, clear, told)
    <2> HIDE DEF clear
    <2> QED BY <1>3, NoticePlain
  <1>5. Plain(n, p, s, told)
    <2> HIDE DEF clear, told
    <2> QED BY <1>3, <1>4 DEF Plain
  <1>6. queue \in PeerState /\ queue.sess = told.sess /\ queue.out = told.out
    <2>1. told \in PeerState
      BY <1>4 DEF Plain
    <2> HIDE DEF told
    <2> QED BY <1>0, <2>1 DEF PeerState
  <1>7. s.pend \in Seq(Body) /\ s.inb \in Seq(Ciphertext)
    <2>1. s.pend \in Seq(Text) /\ s.inb \in Seq(Ciphertext) /\ Text \subseteq Body
      BY DEF PeerState, Body
    <2> QED BY <2>1, SeqMonotonic
  <1>8. Plain(n, p, queue, flushed)
    <2> HIDE DEF queue
    <2> QED BY <1>6, <1>7, EncryptPlain
  <1>9. Plain(n, p, s, flushed)
    <2> HIDE DEF queue, told, flushed
    <2> QED BY <1>5, <1>6, <1>8 DEF Plain
  <1>10. ready \in PeerState /\ ready.sess = flushed.sess /\ ready.out = flushed.out
    <2>1. flushed \in PeerState
      BY <1>8 DEF Plain
    <2> HIDE DEF flushed
    <2> QED BY <1>0, <2>1 DEF PeerState
  <1>11. Plain(n, p, ready, done)
    <2> HIDE DEF ready
    <2> QED BY <1>7, <1>10, DecryptPlain
  <1>12. Plain(n, p, s, done)
    <2> HIDE DEF ready, flushed, done
    <2> QED BY <1>9, <1>10, <1>11 DEF Plain
  <1>13. finish_session(n, p, s) = IF s.sess.rs = s.dh THEN done ELSE dropped
    BY DEF finish_session
  <1> HIDE DEF done, dropped
  <1> QED BY <1>2, <1>12, <1>13

\* n begins a handshake with p under the ephemeral key id.
Begun(n, p, s, t, id) ==
    /\ t \in PeerState
    /\ t.sess = new_initiator(id)
    /\ \A m \in t.out : m \in s.out \/ m = Msg1(n, p, id)

\* begin_handshake does that.
LEMMA BeginBegun ==
  ASSUME NEW n \in Node, NEW p \in Node, NEW s \in PeerState, NEW id \in Nat
  PROVE  Begun(n, p, s, begin_handshake(n, p, s, id), id)
  <1> DEFINE t == [s EXCEPT !.sess = new_initiator(id), !.last = TRUE,
                            !.attempts = IF @ = Absent THEN 1 ELSE @ + 1]
  <1>1. t \in PeerState /\ t.sess = new_initiator(id) /\ t.out = s.out
    <2> DEFINE a == IF s.attempts = Absent THEN 1 ELSE s.attempts + 1
    <2>0. s.attempts \in {Absent} \cup Nat
      BY DEF PeerState
    <2>1. a \in {Absent} \cup Nat
      BY <2>0 DEF Absent
    <2>2. new_initiator(id) \in Session /\ a \in {Absent} \cup Nat
      BY <2>1, SessionTypes
    <2>3. t = [s EXCEPT !.sess = new_initiator(id), !.last = TRUE, !.attempts = a]
      BY DEF PeerState
    <2> HIDE DEF t, a
    <2> QED BY <2>2, <2>3 DEF PeerState
  <1>2. {Msg1(n, p, id)} \in SUBSET Packet
    BY DEF Msg1, Packet, Handshake1
  <1>3. begin_handshake(n, p, s, id) = send_directed(t, {Msg1(n, p, id)})
    BY DEF begin_handshake
  <1> HIDE DEF t
  <1> QED BY <1>1, <1>2, <1>3, SendDirectedType DEF Begun

\* Holding an envelope sends nothing.
LEMMA EnvelopePlain ==
  ASSUME NEW n \in Node, NEW p \in Node, NEW s \in PeerState, NEW x \in Text
  PROVE  Plain(n, p, s, queue_envelope(s, x))
  <1> DEFINE q == Append(SubSeq(s.envs, s.aged + 1, Len(s.envs)), x)
             over == IF Len(q) > EnvelopeCap THEN Len(q) - EnvelopeCap ELSE 0
             z == SubSeq(q, over + 1, Len(q))
  <1>1. s.envs \in Seq(Text) /\ s.aged \in Nat
    BY DEF PeerState
  <1>2. q \in Seq(Text)
    <2>1. SubSeq(s.envs, s.aged + 1, Len(s.envs)) \in Seq(Text)
      BY <1>1
    <2> QED BY <2>1
  <1>3. over \in Nat
    <2> HIDE DEF q
    <2> QED BY <1>2, BoundAssumption
  <1>4. z \in Seq(Text)
    <2> HIDE DEF q, over
    <2> QED BY <1>2, <1>3
  <1>5. queue_envelope(s, x) = [s EXCEPT !.envs = z, !.aged = 0]
    BY DEF queue_envelope
  <1> HIDE DEF z
  <1>6. [s EXCEPT !.envs = z, !.aged = 0] \in PeerState
    BY <1>4 DEF PeerState
  <1>7. /\ queue_envelope(s, x).sess = s.sess
        /\ queue_envelope(s, x).out = s.out
    BY <1>5 DEF PeerState
  <1> QED BY <1>5, <1>6, <1>7 DEF Plain

\* Sending texts is plain, or begins a handshake.
LEMMA SendCases ==
  ASSUME NEW n \in Node, NEW p \in Node, NEW s \in PeerState,
         NEW ts \in Seq(Text), NEW id \in Nat
  PROVE  LET t == send_dms(n, p, s, ts, id)
         IN  Plain(n, p, s, t) \/ Begun(n, p, s, t, id)
  <1> DEFINE th == [r \in Row |-> s.thread[r] + (IF r[1]
                     THEN Cardinality({k \in DOMAIN ts : ts[k] = r[2]}) ELSE 0)]
             own == [s EXCEPT !.thread = th]
             queued == [own EXCEPT !.pend = @ \o ts]
             started == begin_handshake(n, p, queued, id)
             NoRetry(q) == [q EXCEPT !.attempts = Absent, !.last = FALSE]
  <1>1. th \in [Row -> Nat]
    <2> DEFINE A(r) == IF r[1] THEN Cardinality({k \in DOMAIN ts : ts[k] = r[2]}) ELSE 0
    <2>1. \A x : Cardinality({k \in DOMAIN ts : ts[k] = x}) \in Nat
      BY CountType
    <2>2. \A r \in Row : s.thread[r] \in Nat /\ A(r) \in Nat
      BY <2>1 DEF PeerState
    <2>3. th = [r \in Row |-> s.thread[r] + A(r)]
      OBVIOUS
    <2> HIDE DEF A, th
    <2> QED BY <2>2, <2>3
  <1>2. own \in PeerState /\ own.sess = s.sess /\ own.out = s.out
    <2> HIDE DEF th
    <2> QED BY <1>1 DEF PeerState
  <1>3. queued \in PeerState /\ queued.sess = s.sess /\ queued.out = s.out
    <2>1. own.pend \o ts \in Seq(Text)
      BY <1>2 DEF PeerState
    <2> HIDE DEF own
    <2> QED BY <1>2, <2>1 DEF PeerState
  <1>4. Begun(n, p, s, started, id)
    <2> HIDE DEF queued
    <2>1. Begun(n, p, queued, begin_handshake(n, p, queued, id), id)
      BY <1>3, BeginBegun
    <2> QED BY <1>3, <2>1 DEF Begun
  <1>5. \A q \in PeerState : /\ NoRetry(q) \in PeerState
                             /\ NoRetry(q).sess = q.sess
                             /\ NoRetry(q).out = q.out
    BY DEF PeerState
  <1>6. Begun(n, p, s, NoRetry(started), id)
    <2> HIDE DEF started, NoRetry
    <2> QED BY <1>4, <1>5 DEF Begun
  <1>7. Plain(n, p, s, NoRetry(queued))
    <2> HIDE DEF queued, NoRetry
    <2> QED BY <1>3, <1>5 DEF Plain
  <1>8. Plain(n, p, s, encrypt_and_send(n, p, own, ts))
    <2> HIDE DEF own
    <2>1. ts \in Seq(Body)
      BY SeqMonotonic DEF Body
    <2>2. Plain(n, p, own, encrypt_and_send(n, p, own, ts))
      BY <1>2, <2>1, EncryptPlain
    <2> QED BY <1>2, <2>2 DEF Plain
  <1>9. ts # <<>> => Plain(n, p, s, queue_envelope(own, ts[1]))
    <2> HIDE DEF own
    <2>1. ts # <<>> => ts[1] \in Text
      OBVIOUS
    <2>2. ts # <<>> => Plain(n, p, own, queue_envelope(own, ts[1]))
      BY <1>2, <2>1, EnvelopePlain
    <2> QED BY <1>2, <2>2 DEF Plain
  <1>10. Plain(n, p, s, s)
    BY DEF Plain
  <1>11. send_dms(n, p, s, ts, id) =
           CASE ts = <<>> -> s
             [] ts # <<>> /\ Ready(s) -> encrypt_and_send(n, p, own, ts)
             [] ts # <<>> /\ ~Ready(s) /\ ~s.addr -> queue_envelope(own, ts[1])
             [] ts # <<>> /\ Handshaking(s) /\ s.addr -> NoRetry(queued)
             [] ts # <<>> /\ ~HasSession(s) /\ s.addr ->
                   IF Len(ts) = 1 THEN started ELSE NoRetry(started)
    BY DEF send_dms
  <1>12. \/ ts = <<>>
         \/ ts # <<>> /\ Ready(s)
         \/ ts # <<>> /\ ~Ready(s) /\ ~s.addr
         \/ ts # <<>> /\ Handshaking(s) /\ s.addr
         \/ ts # <<>> /\ ~HasSession(s) /\ s.addr
    BY DEF Handshaking
  <1> HIDE DEF own, queued, started, NoRetry
  <1> QED BY <1>4, <1>6, <1>7, <1>8, <1>9, <1>10, <1>11, <1>12

-----------------------------------------------------------------------------
(***************************************************************************)
(* The invariant.  Between steps nothing waits in out, and every ephemeral *)
(* key of a session or of a handshake packet is older than the next one.   *)
(***************************************************************************)
PacketOK(m, x) == /\ m.src # m.dst
                  /\ m.type = "msg1" => m.i < x
                  /\ m.type \in {"msg2", "msg3"} => m.r < x

StateOK(s, x) == s.out = {} /\ s.sess.own < x

IInv == /\ TypeOK
        /\ \A n, p \in Node : StateOK(st[n][p], next)
        /\ \A m \in net : PacketOK(m, next)

(***************************************************************************)
(* Every step of a node about a peer has one of five shapes.  s is the     *)
(* state it ends in, and a plain one is as above.                          *)
(***************************************************************************)
Cipher(n, p, m) == m \in Ciphertext /\ m.src = n /\ m.dst = p

Dropped(s) == s \in PeerState /\ s.sess = NoSession /\ s.out = {}

Answered(n, p, s) ==
    /\ s \in PeerState
    /\ \E e \in Ephemeral :
          /\ e < next
          /\ s.sess = new_responder(next, e)
          /\ \A m \in s.out : m = Msg2(n, p, e, next, dhkey[n])

\* The half of session e once it is ready, having read the ephemeral key x.
ReadyHalfOf(e, x) == [role |-> e.role, ready |-> TRUE, own |-> e.own, re |-> x]

FinishedInitiator(n, p, s) ==
    LET e == st[n][p].sess
    IN  /\ s \in PeerState
        /\ e.role = "init" /\ ~e.ready
        /\ \E m \in net :
              /\ m.type = "msg2" /\ m.src = p /\ m.dst = n /\ m.i = e.own
              /\ \/ HalfOf(s.sess) = ReadyHalfOf(e, m.r)
                 \/ s.sess = NoSession
              /\ \A k \in s.out : Cipher(n, p, k) \/ k = Msg3(n, p, m.i, m.r, dhkey[n])

FinishedResponder(n, p, s) ==
    LET e == st[n][p].sess
    IN  /\ s \in PeerState
        /\ e.role = "resp" /\ ~e.ready
        /\ \E m \in net : /\ m.type = "msg3" /\ m.src = p /\ m.dst = n
                          /\ m.i = e.re /\ m.r = e.own
        /\ HalfOf(s.sess) = ReadyHalfOf(e, e.re)
        /\ \A k \in s.out : Cipher(n, p, k)

Shape(n, p, s) == \/ Plain(n, p, st[n][p], s)
                  \/ Begun(n, p, st[n][p], s, next)
                  \/ Dropped(s)
                  \/ Answered(n, p, s)
                  \/ FinishedInitiator(n, p, s)
                  \/ FinishedResponder(n, p, s)

\* A step of n about p that ends in s.
PairStep(n, p, s) == /\ n # p
                     /\ Shape(n, p, s)
                     /\ Commit(n, p, s)
                     /\ net' \subseteq net \cup s.out
                     /\ dhkey' \in [Node -> Nat]
                     /\ sent' \subseteq Text
                     /\ used' \in [Event -> Nat]

\* What the invariant says of one row.
LEMMA RowFacts ==
  ASSUME IInv, NEW n \in Node, NEW p \in Node
  PROVE  /\ st[n][p] \in PeerState /\ st[n][p].out = {}
         /\ st[n][p].sess \in Session
         /\ st[n][p].sess.own \in Nat /\ st[n][p].sess.own < next
         /\ next \in Nat /\ next > 0 /\ dhkey[n] \in Nat
  <1>1. st[n][p] \in PeerState /\ next \in Nat /\ next > 0 /\ dhkey[n] \in Nat
    BY DEF IInv, TypeOK
  <1>2. st[n][p].out = {} /\ st[n][p].sess.own < next
    BY DEF IInv, StateOK
  <1>3. st[n][p].sess \in Session
    BY <1>1 DEF PeerState
  <1>4. st[n][p].sess.own \in Nat
    BY <1>3 DEF Session
  <1> QED BY <1>1, <1>2, <1>3, <1>4

\* In each shape the session's own key is at most the next one, and a new
\* handshake packet is not younger than the session.
LEMMA ShapeBounds ==
  ASSUME IInv, NEW n \in Node, NEW p \in Node, n # p, NEW s, Shape(n, p, s)
  PROVE  /\ s \in PeerState
         /\ s.sess.own <= next
         /\ \A m \in s.out : /\ m \in Packet /\ m.src # m.dst
                             /\ m.type = "msg1" => m.i < next \/ m.i = s.sess.own
                             /\ m.type \in {"msg2", "msg3"} =>
                                    m.r < next \/ m.r = s.sess.own
  <1> DEFINE e == st[n][p].sess
  <1>1. /\ st[n][p] \in PeerState /\ st[n][p].out = {} /\ e \in Session /\ e.own < next
        /\ next \in Nat /\ next > 0 /\ e.own \in Nat /\ dhkey[n] \in Nat
    BY RowFacts
  <1>2. \A m : Cipher(n, p, m) => m \in Packet /\ m.src # m.dst /\ m.type = "dm"
    BY DEF Cipher, Packet, Ciphertext
  <1>3. CASE Plain(n, p, st[n][p], s)
    <2>1. \A m \in s.out : Cipher(n, p, m)
      BY <1>1, <1>3 DEF Plain, Cipher
    <2>2. s.sess.own = e.own
      BY <1>3 DEF Plain, HalfOf
    <2> QED BY <1>1, <1>2, <1>3, <2>1, <2>2 DEF Plain
  <1>4. CASE Begun(n, p, st[n][p], s, next)
    <2>1. s.sess.own = next
      BY <1>4 DEF Begun, new_initiator, NoSession
    <2>2. \A m \in s.out : m = Msg1(n, p, next)
      BY <1>1, <1>4 DEF Begun
    <2>3. /\ Msg1(n, p, next) \in Packet /\ Msg1(n, p, next).type = "msg1"
          /\ Msg1(n, p, next).i = next
          /\ Msg1(n, p, next).src = n /\ Msg1(n, p, next).dst = p
      BY <1>1 DEF Msg1, Packet, Handshake1
    <2> QED BY <1>1, <1>4, <2>1, <2>2, <2>3 DEF Begun
  <1>5. CASE Dropped(s)
    <2>1. s.sess.own = 0
      BY <1>5 DEF Dropped, NoSession
    <2> QED BY <1>1, <1>5, <2>1 DEF Dropped
  <1>6. CASE Answered(n, p, s)
    <2>1. PICK x \in Ephemeral :
             /\ s.sess = new_responder(next, x)
             /\ \A m \in s.out : m = Msg2(n, p, x, next, dhkey[n])
      BY <1>6 DEF Answered
    <2>2. s.sess.own = next
      BY <2>1 DEF new_responder, NoSession
    <2> DEFINE k == Msg2(n, p, x, next, dhkey[n])
    <2>3. k \in Packet /\ k.type = "msg2" /\ k.r = next /\ k.src = n /\ k.dst = p
      BY <1>1 DEF Msg2, Packet, Handshake23, Key
    <2> HIDE DEF k
    <2> QED BY <1>1, <1>6, <2>1, <2>2, <2>3 DEF Answered, k
  <1>7. CASE FinishedInitiator(n, p, s)
    <2>1. PICK m \in net :
             /\ m.type = "msg2"
             /\ \/ HalfOf(s.sess) = ReadyHalfOf(e, m.r)
                \/ s.sess = NoSession
             /\ \A k \in s.out : Cipher(n, p, k) \/ k = Msg3(n, p, m.i, m.r, dhkey[n])
      BY <1>7 DEF FinishedInitiator
    <2>2. m.r < next /\ m \in Packet
      BY <2>1 DEF IInv, TypeOK, PacketOK
    <2>3. m.i \in Ephemeral /\ m.r \in Nat
      BY <2>1, <2>2 DEF Packet, Handshake1, Handshake23, Ciphertext
    <2>4. s.sess.own = e.own \/ s.sess.own = 0
      <3>1. HalfOf(s.sess).own = s.sess.own
        BY DEF HalfOf
      <3>2. ReadyHalfOf(e, m.r).own = e.own
        BY DEF ReadyHalfOf
      <3>3. NoSession.own = 0
        BY DEF NoSession
      <3> QED BY <2>1, <3>1, <3>2, <3>3
    <2> DEFINE k == Msg3(n, p, m.i, m.r, dhkey[n])
    <2>5. k \in Packet /\ k.type = "msg3" /\ k.r = m.r /\ k.src = n /\ k.dst = p
      BY <1>1, <2>3 DEF Msg3, Packet, Handshake23, Key
    <2>6. s \in PeerState
      BY <1>7 DEF FinishedInitiator
    <2>7. \A j \in s.out : Cipher(n, p, j) \/ j = k
      BY <2>1
    <2> HIDE DEF k
    <2> QED BY <1>1, <1>2, <2>2, <2>4, <2>5, <2>6, <2>7
  <1>8. CASE FinishedResponder(n, p, s)
    <2>1. s.sess.own = e.own
      BY <1>8 DEF FinishedResponder, HalfOf, ReadyHalfOf
    <2> QED BY <1>1, <1>2, <1>8, <2>1 DEF FinishedResponder
  <1> QED BY <1>3, <1>4, <1>5, <1>6, <1>7, <1>8 DEF Shape

\* A step of a node about a peer preserves the invariant.
LEMMA PairStepInv ==
  ASSUME IInv, NEW n \in Node, NEW p \in Node, NEW s, PairStep(n, p, s)
  PROVE  IInv'
  <1> DEFINE z == [s EXCEPT !.out = {}]
  <1>1. /\ n # p /\ Shape(n, p, s) /\ Commit(n, p, s)
        /\ net' \subseteq net \cup s.out
        /\ dhkey' \in [Node -> Nat] /\ sent' \subseteq Text /\ used' \in [Event -> Nat]
    BY DEF PairStep
  <1>2. /\ s \in PeerState
        /\ s.sess.own <= next
        /\ \A m \in s.out : /\ m \in Packet /\ m.src # m.dst
                            /\ m.type = "msg1" => m.i < next \/ m.i = s.sess.own
                            /\ m.type \in {"msg2", "msg3"} =>
                                   m.r < next \/ m.r = s.sess.own
    BY <1>1, ShapeBounds
  <1>3. next \in Nat /\ next > 0 /\ s.sess.own \in Nat
    <2>1. s.sess \in Session
      BY <1>2 DEF PeerState
    <2> QED BY <2>1, RowFacts DEF Session
  <1>4. /\ next' \in Nat \ {0}
        /\ next <= next'
        /\ s.sess.own < next'
    BY <1>1, <1>2, <1>3 DEF Commit
  <1>5. z \in PeerState /\ z.out = {} /\ z.sess = s.sess
    BY <1>2 DEF PeerState
  <1>6. st' = [st EXCEPT ![n][p] = z]
    BY <1>1 DEF Commit
  <1>7. st \in [Node -> [Node -> PeerState]] /\ net \subseteq Packet
    BY DEF IInv, TypeOK
  <1> HIDE DEF z
  <1>8. st' \in [Node -> [Node -> PeerState]]
    BY <1>5, <1>6, <1>7
  <1>9. \A m \in net' : m \in net \/ m \in s.out
    BY <1>1
  <1>10. net' \subseteq Packet
    BY <1>2, <1>7, <1>9
  <1>11. \A a, b \in Node : StateOK(st'[a][b], next')
    <2> SUFFICES ASSUME NEW a \in Node, NEW b \in Node
                 PROVE  StateOK(st'[a][b], next')
      OBVIOUS
    <2>1. CASE a = n /\ b = p
      BY <1>4, <1>5, <1>6, <1>7, <2>1 DEF StateOK
    <2>2. CASE ~(a = n /\ b = p)
      <3>1. st'[a][b] = st[a][b]
        BY <1>6, <1>7, <2>2
      <3>2. st[a][b].out = {} /\ st[a][b].sess.own < next /\ st[a][b].sess.own \in Nat
        BY RowFacts
      <3> QED BY <1>3, <1>4, <3>1, <3>2 DEF StateOK
    <2> QED BY <2>1, <2>2
  <1>12. \A m \in net' : PacketOK(m, next')
    <2> SUFFICES ASSUME NEW m \in net' PROVE PacketOK(m, next')
      OBVIOUS
    <2>1. /\ m.type = "msg1" => m.i \in Nat
          /\ m.type \in {"msg2", "msg3"} => m.r \in Nat
      BY <1>10 DEF Packet, Handshake1, Handshake23, Ciphertext
    <2>2. CASE m \in net
      <3>1. PacketOK(m, next)
        BY <2>2 DEF IInv
      <3> QED BY <1>3, <1>4, <2>1, <3>1 DEF PacketOK
    <2>3. CASE m \in s.out
      BY <1>2, <1>3, <1>4, <2>1, <2>3 DEF PacketOK
    <2> QED BY <1>9, <2>2, <2>3
  <1> QED BY <1>1, <1>4, <1>8, <1>10, <1>11, <1>12 DEF IInv, TypeOK

\* What is lost in the mesh or spent by the environment preserves it, and so
\* does the end of a whole node's volatile state.
LEMMA QuietInv ==
  ASSUME IInv, st' \in [Node -> [Node -> PeerState]],
         \A n, p \in Node : st'[n][p].sess \in {st[n][p].sess, NoSession}
                            /\ st'[n][p].out = {},
         net' \subseteq net, next' = next, dhkey' \in [Node -> Nat],
         sent' \subseteq Text, used' \in [Event -> Nat]
  PROVE  IInv'
  <1>1. next \in Nat \ {0} /\ net \subseteq Packet
    BY DEF IInv, TypeOK
  <1>2. \A n, p \in Node : StateOK(st'[n][p], next')
    <2> SUFFICES ASSUME NEW n \in Node, NEW p \in Node PROVE StateOK(st'[n][p], next')
      OBVIOUS
    <2>1. st[n][p].sess.own < next
      BY RowFacts
    <2>2. NoSession.own = 0
      BY DEF NoSession
    <2>3. st'[n][p].sess = st[n][p].sess \/ st'[n][p].sess = NoSession
      OBVIOUS
    <2> QED BY <1>1, <2>1, <2>2, <2>3 DEF StateOK
  <1>3. \A m \in net' : PacketOK(m, next')
    BY DEF IInv
  <1> QED BY <1>1, <1>2, <1>3 DEF IInv, TypeOK

-----------------------------------------------------------------------------
(***************************************************************************)
(* The actions: each is a step of one of the shapes.                       *)
(***************************************************************************)
\* A bounded event is counted.
LEMMA SpendType ==
  ASSUME IInv, NEW ev \in Event, Spend(ev)
  PROVE  used' \in [Event -> Nat]
  BY DEF IInv, TypeOK, Spend

\* A command is a step if it has a shape.
LEMMA CommandStep ==
  ASSUME IInv, NEW ev \in Event, NEW n \in Node, NEW p \in Node, NEW s,
         Command(ev, n, p, s), Shape(n, p, s), sent' \subseteq Text
  PROVE  PairStep(n, p, s)
  <1>1. used' \in [Event -> Nat]
    BY SpendType DEF Command
  <1>2. dhkey' \in [Node -> Nat]
    BY DEF Command, IInv, TypeOK
  <1> QED BY <1>1, <1>2 DEF Command, PairStep

\* So is the receipt of a packet.
LEMMA ReceiveStep ==
  ASSUME IInv, NEW m \in net, NEW s, Receive(m, s), Shape(m.dst, m.src, s)
  PROVE  m.dst \in Node /\ m.src \in Node /\ PairStep(m.dst, m.src, s)
  <1>1. m.dst \in Node /\ m.src \in Node /\ m.dst # m.src
    BY DEF IInv, TypeOK, Packet, Handshake1, Handshake23, Ciphertext, PacketOK
  <1>2. used' \in [Event -> Nat]
    <2>1. CASE UNCHANGED used
      BY <2>1 DEF IInv, TypeOK
    <2>2. CASE Spend("dup")
      BY <2>2, SpendType DEF Event
    <2> QED BY <2>1, <2>2 DEF Receive
  <1>3. dhkey' \in [Node -> Nat] /\ sent' \subseteq Text
    BY DEF Receive, IInv, TypeOK
  <1>4. net' \subseteq net \cup s.out /\ Commit(m.dst, m.src, s)
    BY DEF Receive
  <1> QED BY <1>1, <1>2, <1>3, <1>4 DEF PairStep

\* drop_peer_session_state drops the session and sends nothing.
LEMMA DropType ==
  ASSUME NEW s \in PeerState, s.out = {}
  PROVE  Dropped(drop_peer_session_state(s))
  <1>1. NoSession \in Session /\ <<>> \in Seq(Text) /\ <<>> \in Seq(Ciphertext)
    BY SessionTypes
  <1> QED BY <1>1 DEF Dropped, drop_peer_session_state, PeerState

\* The thread without its control rows is a thread.
LEMMA TextRowsType ==
  ASSUME NEW th \in [Row -> Nat] PROVE TextRows(th) \in [Row -> Nat]
  BY DEF TextRows

\* An announce is plain, or begins a handshake.
LEMMA AnnounceCases ==
  ASSUME NEW n \in Node, NEW p \in Node, NEW s \in PeerState, NEW k \in Nat,
         NEW id \in Nat
  PROVE  LET t == handle_announce(n, p, s, k, id)
         IN  Plain(n, p, s, t) \/ Begun(n, p, s, t, id)
  <1> DEFINE marked == IF s.dh \notin {NoKey, k} /\ s.peer.exists
                       THEN put_dm(s, <<FALSE, KeyChanged>>) ELSE s
             base == [marked EXCEPT !.dh = k, !.addr = TRUE, !.peer.exists = TRUE,
                                    !.envs = <<>>, !.aged = 0]
             t == send_dms(n, p, base, s.envs, id)
  <1>1. marked \in PeerState /\ marked.sess = s.sess /\ marked.out = s.out
    <2>1. <<FALSE, KeyChanged>> \in Row
      BY DEF Row
    <2> QED BY <2>1, PutDmType
  <1> HIDE DEF marked
  <1>2. base \in PeerState /\ base.sess = s.sess /\ base.out = s.out
    <2> DEFINE q == [marked.peer EXCEPT !.exists = TRUE]
    <2>1. q \in [exists : BOOLEAN, verified : BOOLEAN, petname : BOOLEAN]
      BY <1>1 DEF PeerState
    <2>2. base = [marked EXCEPT !.dh = k, !.addr = TRUE, !.peer = q,
                                !.envs = <<>>, !.aged = 0]
      BY <1>1 DEF PeerState
    <2>3. <<>> \in Seq(Text) /\ k \in Key
      BY DEF Key
    <2> HIDE DEF q, base
    <2> QED BY <1>1, <2>1, <2>2, <2>3 DEF PeerState
  <1>3. s.envs \in Seq(Text)
    BY DEF PeerState
  <1> HIDE DEF base
  <1>4. Plain(n, p, base, t) \/ Begun(n, p, base, t, id)
    BY <1>2, <1>3, SendCases
  <1>5. handle_announce(n, p, s, k, id) = t
    BY DEF handle_announce, marked, base
  <1> HIDE DEF t
  <1>6. CASE Plain(n, p, base, t)
    BY <1>2, <1>5, <1>6 DEF Plain
  <1>7. CASE Begun(n, p, base, t, id)
    BY <1>2, <1>5, <1>7 DEF Begun
  <1> QED BY <1>4, <1>6, <1>7

\* Every command of a user is such a step.
LEMMA UserSteps ==
  ASSUME IInv, NEW n \in Node, NEW p \in Node, UserStep(n, p)
  PROVE  \E s : PairStep(n, p, s)
  <1> DEFINE row == st[n][p]
  <1>1. row \in PeerState /\ row.out = {} /\ next \in Nat /\ sent \subseteq Text
    BY RowFacts DEF IInv, TypeOK
  <1>2. \A q : Plain(n, p, row, q) \/ Begun(n, p, row, q, next) \/ Dropped(q)
                 => Shape(n, p, q)
    BY DEF Shape
  <1> HIDE DEF row
  <1>3. CASE \E x \in Text : SendDm(n, p, x)
    <2>1. PICK x \in Text : SendDm(n, p, x)
      BY <1>3
    <2> DEFINE s == send_dms(n, p, row, <<x>>, next)
    <2>2. Command("send", n, p, s) /\ sent' \subseteq Text
      BY <1>1, <2>1 DEF SendDm, row
    <2>3. Plain(n, p, row, s) \/ Begun(n, p, row, s, next)
      <3>1. <<x>> \in Seq(Text)
        OBVIOUS
      <3> QED BY <1>1, <3>1, SendCases
    <2> HIDE DEF s
    <2>4. "send" \in Event
      BY DEF Event
    <2> QED BY <1>2, <2>2, <2>3, <2>4, CommandStep
  <1>4. CASE VerifyPeer(n, p)
    <2> DEFINE q == [row.peer EXCEPT !.exists = TRUE, !.verified = TRUE]
               th == TextRows(row.thread)
               b == [row EXCEPT !.peer.exists = TRUE, !.peer.verified = TRUE,
                                !.thread = TextRows(@), !.notice = TRUE]
               s == try_send_verify_notice(n, p, b)
    <2>1. /\ q \in [exists : BOOLEAN, verified : BOOLEAN, petname : BOOLEAN]
          /\ th \in [Row -> Nat]
      BY <1>1, TextRowsType DEF PeerState
    <2>2. b = [row EXCEPT !.peer = q, !.thread = th, !.notice = TRUE]
      BY <1>1 DEF PeerState
    <2>3. b \in PeerState /\ b.sess = row.sess /\ b.out = row.out
      <3> HIDE DEF b, q, th
      <3> QED BY <1>1, <2>1, <2>2 DEF PeerState
    <2>4. Command("verify", n, p, s) /\ sent' \subseteq Text
      BY <1>1, <1>4 DEF VerifyPeer, row
    <2> HIDE DEF b
    <2>5. Plain(n, p, b, s)
      BY <2>3, NoticePlain
    <2> HIDE DEF s
    <2>6. Plain(n, p, row, s)
      BY <2>3, <2>5 DEF Plain
    <2>7. "verify" \in Event
      BY DEF Event
    <2> QED BY <1>2, <2>4, <2>6, <2>7, CommandStep
  <1>5. CASE UnverifyPeer(n, p)
    <2> DEFINE q == [row.peer EXCEPT !.verified = FALSE]
               th == TextRows(row.thread)
               b == [row EXCEPT !.peer.verified = FALSE, !.thread = TextRows(@)]
               s == drop_peer_session_state(b)
    <2>1. /\ q \in [exists : BOOLEAN, verified : BOOLEAN, petname : BOOLEAN]
          /\ th \in [Row -> Nat]
      BY <1>1, TextRowsType DEF PeerState
    <2>2. b = [row EXCEPT !.peer = q, !.thread = th]
      BY <1>1 DEF PeerState
    <2>3. b \in PeerState /\ b.out = {}
      <3> HIDE DEF b, q, th
      <3> QED BY <1>1, <2>1, <2>2 DEF PeerState
    <2>4. Command("unverify", n, p, s) /\ sent' \subseteq Text
      BY <1>1, <1>5 DEF UnverifyPeer, row
    <2> HIDE DEF b
    <2>5. Dropped(s)
      BY <2>3, DropType
    <2> HIDE DEF s
    <2>6. "unverify" \in Event
      BY DEF Event
    <2> QED BY <1>2, <2>4, <2>5, <2>6, CommandStep
  <1>6. CASE ForgetPeer(n, p)
    <2> DEFINE b == [row EXCEPT !.peer = Forgotten.peer, !.thread = Forgotten.thread,
                                !.addr = FALSE]
               s == drop_peer_session_state(b)
    <2>1. /\ Forgotten.peer \in [exists : BOOLEAN, verified : BOOLEAN, petname : BOOLEAN]
          /\ Forgotten.thread \in [Row -> Nat]
      BY DEF Forgotten
    <2>2. b \in PeerState /\ b.out = {}
      BY <1>1, <2>1 DEF PeerState
    <2>3. Command("forget", n, p, s) /\ sent' \subseteq Text
      BY <1>1, <1>6 DEF ForgetPeer, row
    <2> HIDE DEF b
    <2>4. Dropped(s)
      BY <2>2, DropType
    <2> HIDE DEF s
    <2>5. "forget" \in Event
      BY DEF Event
    <2> QED BY <1>2, <2>3, <2>4, <2>5, CommandStep
  <1>7. CASE StartDmSession(n, p)
    <2> DEFINE s == begin_handshake(n, p, row, next)
    <2>1. Begun(n, p, row, s, next)
      BY <1>1, BeginBegun
    <2>2. Command("start", n, p, s) /\ sent' \subseteq Text
      BY <1>1, <1>7 DEF StartDmSession, row
    <2> HIDE DEF s
    <2>3. "start" \in Event
      BY DEF Event
    <2> QED BY <1>2, <2>1, <2>2, <2>3, CommandStep
  <1>8. CASE \E named \in BOOLEAN : SetPetname(n, p, named)
    <2>1. PICK named \in BOOLEAN : SetPetname(n, p, named)
      BY <1>8
    <2> DEFINE q == [row.peer EXCEPT !.exists = TRUE, !.petname = named]
               s == [row EXCEPT !.peer.exists = TRUE, !.peer.petname = named]
    <2>2. q \in [exists : BOOLEAN, verified : BOOLEAN, petname : BOOLEAN]
      BY <1>1 DEF PeerState
    <2>3. s = [row EXCEPT !.peer = q]
      BY <1>1 DEF PeerState
    <2>4. s \in PeerState /\ s.sess = row.sess /\ s.out = row.out
      <3> HIDE DEF s, q
      <3> QED BY <1>1, <2>2, <2>3 DEF PeerState
    <2>5. Command("petname", n, p, s) /\ sent' \subseteq Text
      BY <1>1, <2>1 DEF SetPetname, row
    <2> HIDE DEF s
    <2>6. Plain(n, p, row, s)
      BY <2>4 DEF Plain
    <2>7. "petname" \in Event
      BY DEF Event
    <2> QED BY <1>2, <2>5, <2>6, <2>7, CommandStep
  <1> QED BY <1>3, <1>4, <1>5, <1>6, <1>7, <1>8 DEF UserStep

\* The announces and the retries are steps too.
LEMMA TimedSteps ==
  ASSUME IInv, NEW n \in Node, NEW p \in Node,
         \/ ReceiveAnnounce(n, p)
         \/ \E k \in 1 .. dhkey[p] : ReceiveStaleAnnounce(n, p, k)
         \/ RetryStalledHandshake(n, p)
  PROVE  \E s : PairStep(n, p, s)
  <1> DEFINE row == st[n][p]
  <1>1. /\ row \in PeerState /\ row.out = {} /\ next \in Nat /\ dhkey[p] \in Nat
        /\ sent \subseteq Text /\ dhkey \in [Node -> Nat] /\ used \in [Event -> Nat]
    BY RowFacts DEF IInv, TypeOK
  <1>2. \A q : Plain(n, p, row, q) \/ Begun(n, p, row, q, next) => Shape(n, p, q)
    BY DEF Shape
  <1> HIDE DEF row
  <1>3. CASE ReceiveAnnounce(n, p)
    <2> DEFINE s == handle_announce(n, p, row, dhkey[p], next)
    <2>1. Plain(n, p, row, s) \/ Begun(n, p, row, s, next)
      BY <1>1, AnnounceCases
    <2>2. /\ n # p /\ Commit(n, p, s) /\ net' = net \cup s.out
          /\ dhkey' = dhkey /\ sent' = sent /\ used' = used
      BY <1>3 DEF ReceiveAnnounce, row
    <2> HIDE DEF s
    <2> QED BY <1>1, <1>2, <2>1, <2>2 DEF PairStep
  <1>4. CASE \E k \in 1 .. dhkey[p] : ReceiveStaleAnnounce(n, p, k)
    <2>1. PICK k \in 1 .. dhkey[p] : ReceiveStaleAnnounce(n, p, k)
      BY <1>4
    <2> DEFINE s == handle_announce(n, p, row, k, next)
    <2>2. k \in Nat
      BY <1>1, <2>1
    <2>3. Plain(n, p, row, s) \/ Begun(n, p, row, s, next)
      BY <1>1, <2>2, AnnounceCases
    <2>4. Command("stale", n, p, s) /\ sent' \subseteq Text
      BY <1>1, <2>1 DEF ReceiveStaleAnnounce, row
    <2> HIDE DEF s
    <2>5. "stale" \in Event
      BY DEF Event
    <2> QED BY <1>2, <2>3, <2>4, <2>5, CommandStep
  <1>5. CASE RetryStalledHandshake(n, p)
    <2> DEFINE s == begin_handshake(n, p, row, next)
    <2>1. Begun(n, p, row, s, next)
      BY <1>1, BeginBegun
    <2>2. /\ n # p /\ Commit(n, p, s) /\ net' = net \cup s.out
          /\ dhkey' = dhkey /\ sent' = sent
          /\ RetryIsDue(n, p) \/ used' = used
      BY <1>5 DEF RetryStalledHandshake, row
    <2>3. used' \in [Event -> Nat]
      <3>1. "late" \in Event
        BY DEF Event
      <3>2. Spend("late") \/ used' = used
        BY <2>2 DEF RetryIsDue
      <3> QED BY <1>1, <3>1, <3>2, SpendType
    <2> HIDE DEF s
    <2> QED BY <1>1, <1>2, <2>1, <2>2, <2>3 DEF PairStep
  <1> QED BY <1>3, <1>4, <1>5

\* The packets and their fields.
LEMMA PacketFacts ==
  ASSUME IInv, NEW m \in net
  PROVE  /\ m.src \in Node /\ m.dst \in Node /\ m.src # m.dst
         /\ m.type \in {"msg1", "msg2", "msg3", "dm"}
         /\ m.type = "msg1" => m.i \in Nat /\ m.i < next
         /\ m.type \in {"msg2", "msg3"} =>
              m.i \in Ephemeral /\ m.r \in Nat /\ m.r < next /\ m.s \in Nat
         /\ m.type = "dm" => m \in Ciphertext
  BY DEF IInv, TypeOK, Packet, Handshake1, Handshake23, Ciphertext, PacketOK, Key

\* Answering a packet is a step.
LEMMA RespondStep ==
  ASSUME IInv, NEW m \in net, NEW s \in PeerState, s.out = {}, Respond(m, s),
         IsHandshake(m)
  PROVE  \E t : PairStep(m.dst, m.src, t)
  <1> DEFINE n == m.dst
             p == m.src
             e == FirstKey(m)
             a == IF s.attempts = Absent THEN 0 ELSE s.attempts
             b == [s EXCEPT !.sess = new_responder(next, e), !.last = TRUE,
                            !.attempts = IF @ = Absent THEN 0 ELSE @]
             k == Msg2(n, p, e, next, dhkey[n])
             t == send_directed(b, {k})
  <1>1. n \in Node /\ p \in Node /\ n # p /\ next \in Nat /\ next > 0 /\ dhkey[n] \in Nat
    BY PacketFacts DEF IInv, TypeOK
  <1>2. e \in Ephemeral /\ e < next
    BY <1>1, PacketFacts DEF IsHandshake, FirstKey, Ephemeral, Garbage
  <1>3. new_responder(next, e) \in Session
    BY <1>1, <1>2, SessionTypes
  <1>4. b \in PeerState /\ b.sess = new_responder(next, e) /\ b.out = {}
    <2>1. a \in {Absent} \cup Nat
      BY DEF PeerState
    <2>2. b = [s EXCEPT !.sess = new_responder(next, e), !.last = TRUE, !.attempts = a]
      BY DEF PeerState
    <2> HIDE DEF a, b, e
    <2> QED BY <1>3, <2>1, <2>2 DEF PeerState
  <1>5. {k} \in SUBSET Packet
    BY <1>1, <1>2 DEF Msg2, Packet, Handshake23, Key
  <1>6. Receive(m, t)
    BY DEF Respond
  <1>7. Answered(n, p, t)
    <2> HIDE DEF b, k, e
    <2>1. /\ t \in PeerState /\ t.sess = b.sess
          /\ \A j \in t.out : j \in b.out \/ j \in {k}
      BY <1>4, <1>5, SendDirectedType
    <2> HIDE DEF t
    <2>2. \A j \in t.out : j = Msg2(n, p, e, next, dhkey[n])
      BY <1>4, <2>1 DEF k
    <2> QED BY <1>2, <1>4, <2>1, <2>2 DEF Answered
  <1> HIDE DEF t
  <1>8. Shape(m.dst, m.src, t)
    BY <1>7 DEF Shape
  <1> QED BY <1>6, <1>8, ReceiveStep

\* The initiator's end of an exchange is a step.
LEMMA InitiatorStep ==
  ASSUME IInv, NEW m \in net, CompleteInitiator(m)
  PROVE  \E t : PairStep(m.dst, m.src, t)
  <1> DEFINE n == m.dst
             p == m.src
             row == At(m)
             e == [row.sess EXCEPT !.ready = TRUE, !.re = m.r, !.rs = m.s]
             s == [row EXCEPT !.sess.ready = TRUE, !.sess.re = m.r, !.sess.rs = m.s,
                              !.last = TRUE]
             k == Msg3(n, p, m.i, m.r, dhkey[n])
             b == send_directed(s, {k})
             t == finish_session(n, p, b)
  <1>1. /\ row.sess.role = "init" /\ ~row.sess.ready /\ m.type = "msg2"
        /\ m.i = row.sess.own /\ Receive(m, t)
    BY DEF CompleteInitiator, Handshaking, Ready, AnswersMe
  <1>2. n \in Node /\ p \in Node /\ m.i \in Ephemeral /\ m.r \in Nat /\ m.s \in Nat
    BY <1>1, PacketFacts
  <1>3. row \in PeerState /\ row.out = {} /\ row.sess \in Session /\ dhkey[n] \in Nat
    BY <1>2, RowFacts DEF At
  <1>4. /\ e \in Session
        /\ HalfOf(e) = ReadyHalfOf(row.sess, m.r)
    <2> HIDE DEF row
    <2>1. e \in Session
      BY <1>2, <1>3 DEF Session, Key, Ephemeral
    <2>2. e.role = row.sess.role /\ e.ready = TRUE /\ e.own = row.sess.own /\ e.re = m.r
      BY <1>3 DEF Session
    <2> HIDE DEF e
    <2> QED BY <2>1, <2>2 DEF HalfOf, ReadyHalfOf
  <1>5. s = [row EXCEPT !.sess = e, !.last = TRUE]
    BY <1>3 DEF PeerState, Session
  <1>6. s \in PeerState /\ s.sess = e /\ s.out = {}
    <2> HIDE DEF row, e, s
    <2> QED BY <1>3, <1>4, <1>5 DEF PeerState
  <1>7. {k} \in SUBSET Packet
    BY <1>2, <1>3 DEF Msg3, Packet, Handshake23, Key
  <1>8. b \in PeerState /\ b.sess = e /\ \A j \in b.out : j = k
    <2> HIDE DEF s, k, e
    <2>1. \A j \in b.out : j \in s.out \/ j \in {k}
      BY <1>6, <1>7, SendDirectedType
    <2> QED BY <1>6, <1>7, <2>1, SendDirectedType
  <1>9. \/ Plain(n, p, b, t)
        \/ t \in PeerState /\ t.sess = NoSession /\ t.out = b.out
    <2> HIDE DEF b
    <2> QED BY <1>2, <1>8, FinishCases
  <1>10. FinishedInitiator(n, p, t)
    <2> HIDE DEF t, b, e
    <2>1. t \in PeerState /\ \A j \in t.out : Cipher(n, p, j) \/ j = k
      BY <1>8, <1>9 DEF Plain, Cipher
    <2>2. HalfOf(t.sess) = HalfOf(e) \/ t.sess = NoSession
      BY <1>8, <1>9 DEF Plain
    <2> QED BY <1>1, <1>4, <2>1, <2>2 DEF FinishedInitiator, At
  <1> HIDE DEF t
  <1>11. Shape(m.dst, m.src, t)
    BY <1>10 DEF Shape
  <1> QED BY <1>1, <1>11, ReceiveStep

\* And so is the responder's.
LEMMA ResponderStep ==
  ASSUME IInv, NEW m \in net, CompleteResponder(m)
  PROVE  \E t : PairStep(m.dst, m.src, t)
  <1> DEFINE n == m.dst
             p == m.src
             row == At(m)
             e == [row.sess EXCEPT !.ready = TRUE, !.rs = m.s]
             b == [row EXCEPT !.sess.ready = TRUE, !.sess.rs = m.s, !.last = TRUE]
             t == finish_session(n, p, b)
  <1>1. /\ row.sess.role = "resp" /\ ~row.sess.ready /\ m.type = "msg3"
        /\ m.i = row.sess.re /\ m.r = row.sess.own /\ Receive(m, t)
    BY DEF CompleteResponder, Handshaking, Ready, ClosesMine
  <1>2. n \in Node /\ p \in Node /\ m.s \in Nat
    BY <1>1, PacketFacts
  <1>3. row \in PeerState /\ row.out = {} /\ row.sess \in Session
    BY <1>2, RowFacts DEF At
  <1>4. /\ e \in Session
        /\ HalfOf(e) = ReadyHalfOf(row.sess, row.sess.re)
    <2> HIDE DEF row
    <2>1. e \in Session
      BY <1>2, <1>3 DEF Session, Key
    <2>2. e.role = row.sess.role /\ e.ready = TRUE /\ e.own = row.sess.own /\ e.re = row.sess.re
      BY <1>3 DEF Session
    <2> HIDE DEF e
    <2> QED BY <2>1, <2>2 DEF HalfOf, ReadyHalfOf
  <1>5. b = [row EXCEPT !.sess = e, !.last = TRUE]
    BY <1>3 DEF PeerState, Session
  <1>6. b \in PeerState /\ b.sess = e /\ b.out = {}
    <2> HIDE DEF row, e, b
    <2> QED BY <1>3, <1>4, <1>5 DEF PeerState
  <1>7. \/ Plain(n, p, b, t)
        \/ t \in PeerState /\ t.sess = NoSession /\ t.out = b.out
    <2> HIDE DEF b
    <2> QED BY <1>2, <1>6, FinishCases
  <1>8. FinishedResponder(n, p, t) \/ Dropped(t)
    <2> HIDE DEF t, b, e
    <2>1. CASE Plain(n, p, b, t)
      <3>1. t \in PeerState /\ \A j \in t.out : Cipher(n, p, j)
        BY <1>6, <2>1 DEF Plain, Cipher
      <3>2. HalfOf(t.sess) = HalfOf(e)
        BY <1>6, <2>1 DEF Plain
      <3> QED BY <1>1, <1>4, <3>1, <3>2 DEF FinishedResponder, At
    <2>2. CASE t \in PeerState /\ t.sess = NoSession /\ t.out = b.out
      BY <1>6, <2>2 DEF Dropped
    <2> QED BY <1>7, <2>1, <2>2
  <1> HIDE DEF t
  <1>9. Shape(m.dst, m.src, t)
    BY <1>8 DEF Shape
  <1> QED BY <1>1, <1>9, ReceiveStep

\* Every delivery of a packet is a step of its recipient about its sender.
LEMMA PacketSteps ==
  ASSUME IInv, NEW m \in net, PacketStep(m)
  PROVE  \E t : PairStep(m.dst, m.src, t)
  <1> DEFINE n == m.dst
             p == m.src
             row == At(m)
  <1>1. n \in Node /\ p \in Node /\ next \in Nat
    BY PacketFacts DEF IInv, TypeOK
  <1>2. row \in PeerState /\ row.out = {} /\ row = st[n][p]
    BY <1>1, RowFacts DEF At
  <1> HIDE DEF row
  <1>3. \A q : Plain(n, p, row, q) \/ Begun(n, p, row, q, next) \/ Dropped(q)
                 => Shape(m.dst, m.src, q)
    BY <1>2 DEF Shape
  <1>4. \A q : Receive(m, q) /\ Shape(m.dst, m.src, q) => PairStep(m.dst, m.src, q)
    BY ReceiveStep
  <1>5. Plain(n, p, row, row)
    BY <1>2 DEF Plain
  <1>6. CASE ReceiveUnresolved(m) \/ KeepInitiating(m)
    <2>1. Receive(m, row)
      BY <1>6 DEF ReceiveUnresolved, KeepInitiating, row
    <2> QED BY <1>3, <1>4, <1>5, <2>1
  <1>7. CASE IgnoreRetransmit(m)
    <2> DEFINE q == [row EXCEPT !.resync = @ + 1]
    <2>1. q \in PeerState /\ q.sess = row.sess /\ q.out = row.out
      <3>1. row.resync + 1 \in Nat
        BY <1>2 DEF PeerState
      <3> QED BY <1>2, <3>1 DEF PeerState
    <2>2. Receive(m, q)
      BY <1>7 DEF IgnoreRetransmit, row
    <2> HIDE DEF q
    <2>3. Plain(n, p, row, q)
      BY <2>1 DEF Plain
    <2> QED BY <1>3, <1>4, <2>2, <2>3
  <1>8. CASE SupersedeZombie(m)
    <2> DEFINE q == [row EXCEPT !.resync = 0]
    <2>1. q \in PeerState /\ q.out = {}
      BY <1>2 DEF PeerState
    <2>2. Respond(m, q) /\ IsHandshake(m)
      BY <1>8 DEF SupersedeZombie, row
    <2> HIDE DEF q
    <2> QED BY <2>1, <2>2, RespondStep
  <1>9. CASE YieldAndRespond(m) \/ RespondFresh(m)
    <2>1. Respond(m, row) /\ IsHandshake(m)
      BY <1>9 DEF YieldAndRespond, RespondFresh, Glare, IsHandshake, row
    <2> QED BY <1>2, <2>1, RespondStep
  <1>10. CASE FailRead(m)
    <2> DEFINE q == [row EXCEPT !.sess = NoSession]
    <2>1. Dropped(q)
      <3>1. NoSession \in Session
        BY SessionTypes
      <3> QED BY <1>2, <3>1 DEF Dropped, PeerState
    <2>2. Receive(m, q)
      BY <1>10 DEF FailRead, row
    <2> HIDE DEF q
    <2> QED BY <1>3, <1>4, <2>1, <2>2
  <1>11. CASE BufferEarlyDm(m)
    <2> DEFINE kept == IF Len(row.inb) < InboundCap
                       THEN [row EXCEPT !.inb = Append(@, m)] ELSE row
               q == IF HasSession(row) THEN kept ELSE begin_handshake(n, p, kept, next)
    <2>1. m \in Ciphertext
      BY <1>11, PacketFacts DEF BufferEarlyDm
    <2>2. kept \in PeerState /\ kept.sess = row.sess /\ kept.out = row.out
      <3>1. Append(row.inb, m) \in Seq(Ciphertext)
        BY <1>2, <2>1 DEF PeerState
      <3>2. LET z == [row EXCEPT !.inb = Append(@, m)]
            IN  z \in PeerState /\ z.sess = row.sess /\ z.out = row.out
        BY <1>2, <3>1 DEF PeerState
      <3> QED BY <1>2, <3>2
    <2>3. Receive(m, q)
      BY <1>11 DEF BufferEarlyDm, row
    <2> HIDE DEF kept
    <2>4. Begun(n, p, kept, begin_handshake(n, p, kept, next), next)
      BY <1>1, <2>2, BeginBegun
    <2>5. Begun(n, p, row, begin_handshake(n, p, kept, next), next)
      BY <2>2, <2>4 DEF Begun
    <2>6. Plain(n, p, row, kept)
      BY <2>2 DEF Plain
    <2>7. Plain(n, p, row, q) \/ Begun(n, p, row, q, next)
      BY <2>5, <2>6
    <2> HIDE DEF q
    <2> QED BY <1>3, <1>4, <2>3, <2>7
  <1>12. CASE ReceiveDm(m)
    <2> DEFINE q == decrypt_and_emit(n, p, row, <<m>>)
    <2>1. m \in Ciphertext
      BY <1>12, PacketFacts DEF ReceiveDm
    <2>2. <<m>> \in Seq(Ciphertext)
      BY <2>1
    <2>3. Plain(n, p, row, q)
      BY <1>1, <1>2, <2>2, DecryptPlain
    <2>4. Receive(m, q)
      BY <1>12 DEF ReceiveDm, row
    <2> HIDE DEF q
    <2> QED BY <1>3, <1>4, <2>3, <2>4
  <1>13. CASE CompleteInitiator(m)
    BY <1>13, InitiatorStep
  <1>14. CASE CompleteResponder(m)
    BY <1>14, ResponderStep
  <1> QED BY <1>6, <1>7, <1>8, <1>9, <1>10, <1>11, <1>12, <1>13, <1>14
          DEF PacketStep, HandshakeStep

\* The whole-node events, the mesh and the clock change no half but to drop it.
Quiet ==
    /\ st' \in [Node -> [Node -> PeerState]]
    /\ \/ \A n, p \in Node : HalfOf(st'[n][p].sess) = HalfOf(st[n][p].sess)
       \/ \E n \in Node : \A a, p \in Node :
            st'[a][p].sess = IF a = n THEN NoSession ELSE st[a][p].sess
    /\ \A n, p \in Node : st'[n][p].sess \in {st[n][p].sess, NoSession}
                          /\ st'[n][p].out = {}
    /\ net' \subseteq net /\ next' = next /\ dhkey' \in [Node -> Nat]
    /\ sent' \subseteq Text /\ used' \in [Event -> Nat]

LEMMA QuietSteps ==
  ASSUME IInv,
         \/ \E n \in Node : NodeStep(n)
         \/ \E n, p \in Node : AgeEnvelopes(n, p)
         \/ \E m \in net : Lose(m)
  PROVE  Quiet
  <1>1. /\ st \in [Node -> [Node -> PeerState]] /\ sent \subseteq Text
        /\ dhkey \in [Node -> Nat]
    BY DEF IInv, TypeOK
  <1>2. \A a, b \in Node : st[a][b].out = {} /\ st[a][b] \in PeerState
    BY RowFacts
  <1>3. CASE \E n \in Node : NodeStep(n)
    <2>1. PICK n \in Node : NodeStep(n)
      BY <1>3
    <2>2. /\ Forgotten \in PeerState /\ Forgotten.sess = NoSession /\ Forgotten.out = {}
          /\ \A s \in PeerState : /\ Restarted(s) \in PeerState
                                  /\ Restarted(s).sess = NoSession
                                  /\ Restarted(s).out = {}
      <3>1. NoSession \in Session /\ <<>> \in Seq(Text) /\ <<>> \in Seq(Ciphertext)
        BY SessionTypes
      <3>2. [r \in Row |-> 0] \in [Row -> Nat]
        OBVIOUS
      <3>3. Forgotten \in PeerState /\ Forgotten.sess = NoSession /\ Forgotten.out = {}
        BY <3>1, <3>2 DEF Forgotten, PeerState, NoKey, Key
      <3> QED BY <3>3 DEF Restarted, PeerState
    <2>3. /\ used' \in [Event -> Nat] /\ net' = net /\ next' = next /\ sent' = sent
          /\ dhkey' \in [Node -> Nat]
      <3>1. {"wipe", "restart", "upgrade"} \subseteq Event
        BY DEF Event
      <3>2. Spend("wipe") \/ Spend("restart") \/ Spend("upgrade")
        BY <2>1 DEF NodeStep, PanicWipe, Restart, Upgrade, WholeNode
      <3>3. used' \in [Event -> Nat]
        BY <3>1, <3>2, SpendType
      <3>4. dhkey' \in [Node -> Nat]
        BY <1>1, <2>1 DEF NodeStep, PanicWipe, Restart, Upgrade
      <3> QED BY <2>1, <3>3, <3>4 DEF NodeStep, PanicWipe, Restart, Upgrade, WholeNode
    <2>4. \/ st' = [st EXCEPT ![n] = [p \in Node |-> Forgotten]]
          \/ st' = [st EXCEPT ![n] = [p \in Node |-> Restarted(st[n][p])]]
      BY <2>1 DEF NodeStep, PanicWipe, Restart, Upgrade, WholeNode
    <2>5. PICK f \in [Node -> PeerState] :
             /\ st' = [st EXCEPT ![n] = f]
             /\ \A p \in Node : f[p].sess = NoSession /\ f[p].out = {}
      <3>1. /\ [p \in Node |-> Forgotten] \in [Node -> PeerState]
            /\ [p \in Node |-> Restarted(st[n][p])] \in [Node -> PeerState]
        BY <1>2, <2>2
      <3> QED BY <1>2, <2>2, <2>4, <3>1
    <2>6. st' \in [Node -> [Node -> PeerState]]
      BY <1>1, <2>5
    <2>7. \A a, p \in Node : /\ a = n => st'[a][p] = f[p]
                             /\ a # n => st'[a][p] = st[a][p]
      BY <1>1, <2>5
    <2>8. \A a, p \in Node :
             st'[a][p].sess = IF a = n THEN NoSession ELSE st[a][p].sess
      BY <2>5, <2>7
    <2>9. \A a, p \in Node : st'[a][p].out = {}
      BY <1>2, <2>5, <2>7
    <2> QED BY <1>1, <2>3, <2>6, <2>8, <2>9 DEF Quiet
  <1>4. CASE \E n, p \in Node : AgeEnvelopes(n, p)
    <2>1. PICK n \in Node, p \in Node : AgeEnvelopes(n, p)
      BY <1>4
    <2> DEFINE q == [st[n][p] EXCEPT !.aged = Len(st[n][p].envs)]
    <2>2. st' = [st EXCEPT ![n][p] = q]
      BY <1>1, <2>1 DEF AgeEnvelopes
    <2>3. q \in PeerState /\ q.sess = st[n][p].sess /\ q.out = {}
      <3>1. Len(st[n][p].envs) \in Nat /\ st[n][p] \in PeerState /\ st[n][p].out = {}
        BY <1>2 DEF PeerState
      <3> QED BY <3>1 DEF PeerState
    <2> HIDE DEF q
    <2>4. st' \in [Node -> [Node -> PeerState]]
      BY <1>1, <2>2, <2>3
    <2>5. \A a, b \in Node : st'[a][b].sess = st[a][b].sess /\ st'[a][b].out = {}
      BY <1>1, <1>2, <2>2, <2>3
    <2>6. "age" \in Event /\ Spend("age") /\ UNCHANGED <<dhkey, net, next, sent>>
      BY <2>1 DEF AgeEnvelopes, Event
    <2>7. used' \in [Event -> Nat]
      BY <2>6, SpendType
    <2> QED BY <1>1, <2>4, <2>5, <2>6, <2>7 DEF Quiet
  <1>5. CASE \E m \in net : Lose(m)
    <2>1. PICK m \in net : Lose(m)
      BY <1>5
    <2>2. "lose" \in Event /\ Spend("lose") /\ UNCHANGED <<st, dhkey, next, sent>>
          /\ net' \subseteq net
      BY <2>1 DEF Lose, Event
    <2>3. used' \in [Event -> Nat]
      BY <2>2, SpendType
    <2> QED BY <1>1, <1>2, <2>2, <2>3 DEF Quiet
  <1> QED BY <1>3, <1>4, <1>5

-----------------------------------------------------------------------------
\* The invariant holds initially.
LEMMA InitIInv == Init => IInv
  <1> SUFFICES ASSUME Init PROVE IInv
    OBVIOUS
  <1>1. NoSession \in Session /\ <<>> \in Seq(Text) /\ <<>> \in Seq(Ciphertext)
    BY SessionTypes
  <1>2. [r \in Row |-> 0] \in [Row -> Nat]
    OBVIOUS
  <1>3. Forgotten \in PeerState /\ Forgotten.sess = NoSession /\ Forgotten.out = {}
    BY <1>1, <1>2 DEF Forgotten, PeerState, NoKey, Key
  <1>4. \A n, p \in Node : st[n][p] = Forgotten
    BY DEF Init
  <1>5. \A n, p \in Node : StateOK(st[n][p], next)
    BY <1>3, <1>4 DEF Init, StateOK, NoSession
  <1>6. TypeOK
    BY <1>3 DEF Init, TypeOK
  <1> QED BY <1>5, <1>6 DEF Init, IInv

\* Every step is of a node about a peer, or quiet.
LEMMA NextCases ==
  ASSUME IInv, Next
  PROVE  (\E n, p \in Node : \E s : PairStep(n, p, s)) \/ Quiet
  <1>1. ASSUME NEW n \in Node, NEW p \in Node,
               \/ UserStep(n, p)
               \/ ReceiveAnnounce(n, p)
               \/ \E k \in 1 .. dhkey[p] : ReceiveStaleAnnounce(n, p, k)
               \/ RetryStalledHandshake(n, p)
        PROVE  \E s : PairStep(n, p, s)
    BY <1>1, UserSteps, TimedSteps
  <1>2. ASSUME NEW m \in net, PacketStep(m)
        PROVE  \E n, p \in Node : \E s : PairStep(n, p, s)
    BY <1>2, PacketFacts, PacketSteps
  <1> QED BY <1>1, <1>2, QuietSteps DEF Next

\* Every step preserves the invariant.
LEMMA NextIInv == IInv /\ [Next]_vars => IInv'
  <1> SUFFICES ASSUME IInv, [Next]_vars PROVE IInv'
    OBVIOUS
  <1>1. CASE UNCHANGED vars
    BY <1>1 DEF vars, IInv, TypeOK, StateOK, PacketOK
  <1>2. CASE Next
    <2>1. CASE \E n, p \in Node : \E s : PairStep(n, p, s)
      BY <2>1, PairStepInv
    <2>2. CASE Quiet
      BY <2>2, QuietInv DEF Quiet
    <2> QED BY <1>2, <2>1, <2>2, NextCases
  <1> QED BY <1>1, <1>2

\* What the maps, the store and the mesh hold is always of its type.
THEOREM TypeCorrect == Spec => []TypeOK
  <1>1. IInv => TypeOK
    BY DEF IInv
  <1> QED BY <1>1, InitIInv, NextIInv, PTL DEF Spec

-----------------------------------------------------------------------------
(***************************************************************************)
(* The refinement.                                                         *)
(***************************************************************************)
SomeHalf == [role : {"none", "init", "resp"}, ready : BOOLEAN, own : Nat, re : Int]

\* Two halves with the same fields are the same.
LEMMA SameHalf ==
  ASSUME NEW f \in SomeHalf, NEW g \in SomeHalf,
         f.role = g.role, f.ready = g.ready, f.own = g.own, f.re = g.re
  PROVE  f = g
  BY DEF SomeHalf

\* ReadyHalfOf is the update that SessionPairing makes.
LEMMA ReadyUpdate ==
  ASSUME NEW e \in Session, NEW x \in Int
  PROVE  /\ ReadyHalfOf(e, x) = [HalfOf(e) EXCEPT !.ready = TRUE, !.re = x]
         /\ ReadyHalfOf(e, e.re) = [HalfOf(e) EXCEPT !.ready = TRUE]
  <1> DEFINE h == HalfOf(e)
  <1>1. h \in SomeHalf /\ h.role = e.role /\ h.own = e.own /\ h.re = e.re
    BY DEF HalfOf, SomeHalf, Session, Ephemeral, Garbage
  <1> HIDE DEF h
  <1>2. ReadyHalfOf(e, x) = [h EXCEPT !.ready = TRUE, !.re = x]
    <2> DEFINE f == [h EXCEPT !.ready = TRUE, !.re = x]
               g == [role |-> h.role, ready |-> TRUE, own |-> h.own, re |-> x]
    <2>1. f \in SomeHalf /\ g \in SomeHalf
      BY <1>1 DEF SomeHalf
    <2>2. f.role = g.role /\ f.own = g.own /\ f.re = g.re
      BY <1>1 DEF SomeHalf
    <2>3. f.ready = g.ready
      BY <1>1 DEF SomeHalf
    <2>4. g = ReadyHalfOf(e, x)
      BY <1>1 DEF ReadyHalfOf
    <2> HIDE DEF f, g
    <2>5. f = g
      BY <2>1, <2>2, <2>3, SameHalf
    <2> QED BY <2>4, <2>5 DEF f
  <1>3. ReadyHalfOf(e, e.re) = [h EXCEPT !.ready = TRUE]
    <2> DEFINE f == [h EXCEPT !.ready = TRUE]
               g == [role |-> h.role, ready |-> TRUE, own |-> h.own, re |-> h.re]
    <2>1. f \in SomeHalf /\ g \in SomeHalf
      BY <1>1 DEF SomeHalf
    <2>2. f.role = g.role /\ f.own = g.own /\ f.re = g.re
      BY <1>1 DEF SomeHalf
    <2>3. f.ready = g.ready
      BY <1>1 DEF SomeHalf
    <2>4. g = ReadyHalfOf(e, e.re)
      BY <1>1 DEF ReadyHalfOf
    <2> HIDE DEF f, g
    <2>5. f = g
      BY <2>1, <2>2, <2>3, SameHalf
    <2> QED BY <2>4, <2>5 DEF f
  <1> QED BY <1>2, <1>3 DEF h

\* A step of a node about a peer is a step of SessionPairing.
LEMMA PairStepRefines ==
  ASSUME IInv, NEW n \in Node, NEW p \in Node, NEW s, PairStep(n, p, s)
  PROVE  Pairing!Next
  <1> DEFINE h == HalfOf(s.sess)
             e == st[n][p].sess
  <1>1. /\ n # p /\ Shape(n, p, s) /\ Commit(n, p, s)
        /\ net' \subseteq net \cup s.out
    BY DEF PairStep
  <1>2. /\ st[n][p].out = {} /\ e.own < next /\ e.own \in Nat /\ next \in Nat /\ next > 0
        /\ st \in [Node -> [Node -> PeerState]]
    BY RowFacts DEF IInv, TypeOK
  <1>3. s \in PeerState
    BY <1>1, ShapeBounds
  <1>0. \A a, b \in Node : HalfOf(st'[a][b].sess) =
                               IF a = n /\ b = p THEN h ELSE HalfOf(st[a][b].sess)
    <2>1. st' = [st EXCEPT ![n][p] = [s EXCEPT !.out = {}]]
      BY <1>1 DEF Commit
    <2>2. [s EXCEPT !.out = {}].sess = s.sess
      BY <1>3 DEF PeerState
    <2> QED BY <1>2, <2>1, <2>2
  <1>4. Halves' = [Halves EXCEPT ![n][p] = h]
    <2> HIDE DEF h
    <2> QED BY <1>0 DEF Halves
  <1>5. \A m \in BoundPackets' :
           m \in BoundPackets \/ (m \in s.out /\ m.type \in {"msg2", "msg3"})
    BY <1>1 DEF BoundPackets
  <1>6. Halves[n][p] = HalfOf(e)
    BY DEF Halves
  <1>7. \A m : Cipher(n, p, m) => m.type \notin {"msg2", "msg3"}
    BY DEF Cipher, Ciphertext
  <1>8. next' = IF s.sess.own = next THEN next + 1 ELSE next
    BY <1>1 DEF Commit
  <1>9. CASE Plain(n, p, st[n][p], s)
    <2>1. h = HalfOf(e) /\ \A m \in s.out : Cipher(n, p, m)
      BY <1>2, <1>9 DEF Plain, Cipher
    <2>2. s.sess.own = e.own
      BY <2>1 DEF HalfOf
    <2>3. next' = next
      BY <1>2, <1>8, <2>2
    <2>4. Halves' = Halves
      <3>1. \A a, b \in Node : HalfOf(st'[a][b].sess) = HalfOf(st[a][b].sess)
        BY <1>0, <2>1
      <3> QED BY <3>1 DEF Halves
    <2>5. BoundPackets' \subseteq BoundPackets
      BY <1>5, <1>7, <2>1
    <2> QED BY <2>3, <2>4, <2>5 DEF Pairing!Next, Pairing!LosePackets
  <1>10. CASE Begun(n, p, st[n][p], s, next)
    <2>1. s.sess.own = next /\ h = [role |-> "init", ready |-> FALSE, own |-> next, re |-> 0]
      BY <1>10 DEF Begun, new_initiator, NoSession, HalfOf
    <2>2. \A m \in s.out : m.type = "msg1"
      BY <1>2, <1>10 DEF Begun, Msg1
    <2>3. \A m \in BoundPackets' : m \in BoundPackets
      BY <1>5, <2>2
    <2> HIDE DEF h
    <2>4. Pairing!Begin(n, p)
      BY <1>4, <1>8, <2>1, <2>3 DEF Pairing!Begin, Pairing!Become, Pairing!Nothing
    <2> QED BY <1>1, <2>4 DEF Pairing!Next
  <1>11. CASE Dropped(s)
    <2>1. h = Pairing!NoHalf /\ s.out = {} /\ s.sess.own = 0
      BY <1>11 DEF Dropped, NoSession, HalfOf, Pairing!NoHalf
    <2>2. next' = next
      BY <1>2, <1>8, <2>1
    <2>3. \A m \in BoundPackets' : m \in BoundPackets
      BY <1>5, <2>1
    <2> HIDE DEF h
    <2>4. Pairing!Drop(n, p)
      BY <1>4, <2>1, <2>2, <2>3 DEF Pairing!Drop, Pairing!Become, Pairing!Nothing
    <2> QED BY <1>1, <2>4 DEF Pairing!Next
  <1>12. CASE Answered(n, p, s)
    <2>1. PICK x \in Ephemeral :
             /\ x < next
             /\ s.sess = new_responder(next, x)
             /\ \A m \in s.out : m = Msg2(n, p, x, next, dhkey[n])
      BY <1>12 DEF Answered
    <2>2. s.sess.own = next /\ h = [role |-> "resp", ready |-> FALSE, own |-> next, re |-> x]
      BY <2>1 DEF new_responder, NoSession, HalfOf
    <2>3. \A m \in s.out : /\ m.type = "msg2" /\ m.src = n /\ m.dst = p
                           /\ m.i = x /\ m.r = next
      BY <2>1 DEF Msg2
    <2>4. x \in -1 .. next - 1
      BY <1>2, <2>1 DEF Ephemeral, Garbage
    <2> HIDE DEF h
    <2>5. Pairing!Answer(n, p, x)
      BY <1>4, <1>5, <1>8, <2>1, <2>2, <2>3 DEF Pairing!Answer, Pairing!Become
    <2> QED BY <1>1, <2>4, <2>5 DEF Pairing!Next
  <1>13. CASE FinishedInitiator(n, p, s)
    <2>1. PICK m \in net :
             /\ m.type = "msg2" /\ m.src = p /\ m.dst = n /\ m.i = e.own
             /\ h = ReadyHalfOf(e, m.r) \/ s.sess = NoSession
             /\ \A k \in s.out : Cipher(n, p, k) \/ k = Msg3(n, p, m.i, m.r, dhkey[n])
      BY <1>13 DEF FinishedInitiator
    <2>2. e.role = "init" /\ ~e.ready
      BY <1>13 DEF FinishedInitiator
    <2>3. /\ Halves[n][p].role = "init" /\ ~Halves[n][p].ready
          /\ m.i = Halves[n][p].own
      BY <1>6, <2>1, <2>2 DEF HalfOf
    <2>4. m \in BoundPackets
      BY <2>1 DEF BoundPackets
    <2>5. \A k \in BoundPackets' :
             \/ k \in BoundPackets
             \/ /\ k.type = "msg3" /\ k.src = n /\ k.dst = p /\ k.i = m.i /\ k.r = m.r
      BY <1>5, <1>7, <2>1 DEF Msg3
    <2>6. CASE h = ReadyHalfOf(e, m.r)
      <3>1. s.sess.own = e.own
        BY <2>6 DEF HalfOf, ReadyHalfOf
      <3>2. next' = next
        BY <1>2, <1>8, <3>1
      <3>3. h = [Halves[n][p] EXCEPT !.ready = TRUE, !.re = m.r]
        <4>1. m.r \in Int /\ e \in Session
          BY <2>1, PacketFacts, RowFacts
        <4> HIDE DEF h, e
        <4> QED BY <1>6, <2>6, <4>1, ReadyUpdate
      <3> HIDE DEF h
      <3>4. Pairing!FinishInitiator(n, p)
        BY <1>4, <2>1, <2>3, <2>4, <2>5, <3>2, <3>3
           DEF Pairing!FinishInitiator, Pairing!Become
      <3> QED BY <1>1, <3>4 DEF Pairing!Next
    <2>7. CASE s.sess = NoSession
      <3>1. h = Pairing!NoHalf /\ s.sess.own = 0
        BY <2>7 DEF NoSession, HalfOf, Pairing!NoHalf
      <3>2. next' = next
        BY <1>2, <1>8, <3>1
      <3> HIDE DEF h
      <3>3. Pairing!RejectInitiator(n, p)
        BY <1>4, <2>1, <2>3, <2>4, <2>5, <3>1, <3>2
           DEF Pairing!RejectInitiator, Pairing!Become
      <3> QED BY <1>1, <3>3 DEF Pairing!Next
    <2> QED BY <2>1, <2>6, <2>7
  <1>14. CASE FinishedResponder(n, p, s)
    <2>1. PICK m \in net : /\ m.type = "msg3" /\ m.src = p /\ m.dst = n
                           /\ m.i = e.re /\ m.r = e.own
      BY <1>14 DEF FinishedResponder
    <2>2. /\ e.role = "resp" /\ ~e.ready /\ h = ReadyHalfOf(e, e.re)
          /\ \A k \in s.out : Cipher(n, p, k)
      BY <1>14 DEF FinishedResponder
    <2>3. /\ Halves[n][p].role = "resp" /\ ~Halves[n][p].ready
          /\ m.i = Halves[n][p].re /\ m.r = Halves[n][p].own
      BY <1>6, <2>1, <2>2 DEF HalfOf
    <2>4. m \in BoundPackets
      BY <2>1 DEF BoundPackets
    <2>5. \A k \in BoundPackets' : k \in BoundPackets
      BY <1>5, <1>7, <2>2
    <2>6. s.sess.own = e.own
      BY <2>2 DEF HalfOf, ReadyHalfOf
    <2>7. next' = next
      BY <1>2, <1>8, <2>6
    <2>8. h = [Halves[n][p] EXCEPT !.ready = TRUE]
      <3>1. 0 \in Int /\ e \in Session
        BY RowFacts
      <3> HIDE DEF h, e
      <3> QED BY <1>6, <2>2, <3>1, ReadyUpdate
    <2> HIDE DEF h
    <2>9. Pairing!FinishResponder(n, p)
      BY <1>4, <2>1, <2>3, <2>4, <2>5, <2>7, <2>8
         DEF Pairing!FinishResponder, Pairing!Become, Pairing!Nothing
    <2> QED BY <1>1, <2>9 DEF Pairing!Next
  <1> QED BY <1>1, <1>9, <1>10, <1>11, <1>12, <1>13, <1>14 DEF Shape

\* A quiet step drops the halves of one node, or packets, or nothing.
LEMMA QuietRefines ==
  ASSUME IInv, Quiet
  PROVE  Pairing!Next
  <1>1. BoundPackets' \subseteq BoundPackets /\ next' = next
    BY DEF Quiet, BoundPackets
  <1>2. CASE \A n, p \in Node : HalfOf(st'[n][p].sess) = HalfOf(st[n][p].sess)
    <2>1. Halves' = Halves
      BY <1>2 DEF Halves
    <2> QED BY <1>1, <2>1 DEF Pairing!Next, Pairing!LosePackets
  <1>3. CASE \E n \in Node : \A a, p \in Node :
               st'[a][p].sess = IF a = n THEN NoSession ELSE st[a][p].sess
    <2>1. PICK n \in Node : \A a, p \in Node :
               st'[a][p].sess = IF a = n THEN NoSession ELSE st[a][p].sess
      BY <1>3
    <2>2. HalfOf(NoSession) = Pairing!NoHalf
      BY DEF HalfOf, NoSession, Pairing!NoHalf
    <2>3. \A a, p \in Node : HalfOf(st'[a][p].sess) =
                               IF a = n THEN Pairing!NoHalf ELSE HalfOf(st[a][p].sess)
      BY <2>1, <2>2
    <2>4. Halves' = [Halves EXCEPT ![n] = [p \in Node |-> Pairing!NoHalf]]
      BY <2>3 DEF Halves
    <2>5. Pairing!DropAll(n)
      BY <1>1, <2>4 DEF Pairing!DropAll
    <2> QED BY <2>5 DEF Pairing!Next
  <1> QED BY <1>2, <1>3 DEF Quiet

\* Every step of the direct-message code is a step of SessionPairing.
LEMMA NextRefines == IInv /\ [Next]_vars => [Pairing!Next]_(Pairing!vars)
  <1> SUFFICES ASSUME IInv, [Next]_vars PROVE [Pairing!Next]_(Pairing!vars)
    OBVIOUS
  <1>1. CASE UNCHANGED vars
    BY <1>1 DEF vars, Pairing!vars, Halves, BoundPackets
  <1>2. CASE Next
    BY <1>2, NextCases, PairStepRefines, QuietRefines
  <1> QED BY <1>1, <1>2

\* The initial states map to initial states.
LEMMA InitRefines == Init => Pairing!Init
  <1> SUFFICES ASSUME Init PROVE Pairing!Init
    OBVIOUS
  <1>1. HalfOf(NoSession) = Pairing!NoHalf
    BY DEF HalfOf, NoSession, Pairing!NoHalf
  <1>2. \A n, p \in Node : st[n][p].sess = NoSession
    BY DEF Init, Forgotten
  <1>3. Halves = [n \in Node |-> [p \in Node |-> Pairing!NoHalf]]
    BY <1>1, <1>2 DEF Halves
  <1>4. BoundPackets = {} /\ next = 1
    BY DEF Init, BoundPackets
  <1> QED BY <1>3, <1>4 DEF Pairing!Init

\* The direct-message code implements SessionPairing.
THEOREM ImplementsPairing == Spec => PairingSpec
  <1> QED BY InitIInv, NextIInv, InitRefines, NextRefines, PTL
          DEF Spec, PairingSpec, Pairing!Spec

(***************************************************************************)
(* The theorem about SessionPairing, read through the refinement mapping.  *)
(***************************************************************************)
Proved == INSTANCE SessionPairingProofs WITH half <- Halves, hs <- BoundPackets

\* The invariant that SessionPairingProofs establishes holds of the mapping.
LEMMA MappedPairInv == Spec => []Proved!PairInv
  <1>1. Pairing!Init => Proved!Init
    BY DEF Pairing!Init, Proved!Init, Pairing!NoHalf, Proved!NoHalf
  <1>2. [Pairing!Next]_(Pairing!vars) => [Proved!Next]_(Proved!vars)
    BY DEF Pairing!Next, Proved!Next, Pairing!vars, Proved!vars,
           Pairing!Begin, Proved!Begin, Pairing!Answer, Proved!Answer,
           Pairing!FinishInitiator, Proved!FinishInitiator,
           Pairing!RejectInitiator, Proved!RejectInitiator,
           Pairing!FinishResponder, Proved!FinishResponder,
           Pairing!Drop, Proved!Drop, Pairing!DropAll, Proved!DropAll,
           Pairing!LosePackets, Proved!LosePackets,
           Pairing!Become, Proved!Become, Pairing!Nothing, Proved!Nothing,
           Pairing!NoHalf, Proved!NoHalf
  <1>3. Proved!Init => Proved!PairInv
    BY Proved!InitPairInv
  <1>4. Proved!PairInv /\ [Proved!Next]_(Proved!vars) => Proved!PairInv'
    BY Proved!NextPairInv
  <1> QED BY <1>1, <1>2, <1>3, <1>4, ImplementsPairing, PTL
          DEF PairingSpec, Pairing!Spec

\* Two ready ends hold the two halves of one exchange.
THEOREM AgreementTheorem == Spec => []Agreement
  <1>1. IInv /\ Proved!PairInv => Agreement
    <2> SUFFICES ASSUME IInv, Proved!PairInv, NEW n \in Node, NEW p \in Node, n # p,
                        Ready(st[n][p]), Ready(st[p][n])
                 PROVE  /\ st[n][p].sess.role # st[p][n].sess.role
                        /\ st[n][p].sess.own = st[p][n].sess.re
                        /\ st[n][p].sess.re = st[p][n].sess.own
      BY DEF Agreement
    <2>1. /\ Halves[n][p] = HalfOf(st[n][p].sess)
          /\ Halves[p][n] = HalfOf(st[p][n].sess)
      BY DEF Halves
    <2>2. Halves[n][p].ready /\ Halves[p][n].ready
      BY <2>1 DEF HalfOf, Ready
    <2>3. Proved!Paired
      BY Proved!InvPaired
    <2>4. /\ Halves[n][p].role # Halves[p][n].role
          /\ Halves[n][p].own = Halves[p][n].re
          /\ Halves[n][p].re = Halves[p][n].own
      BY <2>2, <2>3 DEF Proved!Paired
    <2> QED BY <2>1, <2>4 DEF HalfOf
  <1> QED BY <1>1, InitIInv, NextIInv, MappedPairInv, PTL DEF Spec
=============================================================================

--------------------------- MODULE DirectMessages ---------------------------
(***************************************************************************)
(* End-to-end encrypted direct messages between the nodes of the mesh:     *)
(* the direct-message half of MeshNode (crates/meshcore/src/node.rs) over  *)
(* the Noise XX sessions of crates/meshcore/src/noise.rs.                  *)
(*                                                                         *)
(* Every entry point of MeshNode runs under the one mutex of the FFI       *)
(* layer, so a command, a received packet or a tick is one atomic action.  *)
(* MeshNode keys all of its direct-message maps by the peer's fingerprint; *)
(* st[n][p] is the row of all those maps that node n keeps for peer p.     *)
(*                                                                         *)
(* The mesh between two nodes is a set of packets that are delivered in    *)
(* any order, lost, or delivered again (the digest of a packet leaves the  *)
(* SeenCache by age, by capacity, or because the process restarted).       *)
(***************************************************************************)
EXTENDS Integers, Sequences, FiniteSets

CONSTANTS
    Node,             \* the nodes, ordered as their fingerprints are
    Text,             \* message bodies; a user sends each one once
    MaxAttempts,      \* DM_HANDSHAKE_MAX_ATTEMPTS
    ResyncThreshold,  \* RESYNC_HANDSHAKE_THRESHOLD
    InboundCap,       \* the 32 early ciphertexts kept per peer
    EnvelopeCap,      \* envelope_max_per_peer
    Scenarios         \* how often each user and environment event may happen:
                      \* a set of alternative bounds

Control == {"notice", "ack"}             \* DM_KIND_VERIFY_NOTICE, _VERIFY_ACK
KeyChanged == "keychanged"               \* DM_KIND_KEY_CHANGED, never sent
Body == Text \cup Control                \* what a ciphertext carries
Row == BOOLEAN \X (Body \cup {KeyChanged})   \* StoredDm: <<mine, body>>

Event == {"send", "verify", "unverify", "forget", "start", "petname", "wipe",
          "restart", "upgrade", "age", "lose", "dup", "late", "stale"}

ASSUME NodeAssumption == Node \subseteq Nat
ASSUME TextAssumption == Text \cap (Control \cup {KeyChanged}) = {}
ASSUME BoundAssumption == /\ MaxAttempts \in Nat \ {0}
                          /\ ResyncThreshold \in Nat \ {0}
                          /\ InboundCap \in Nat
                          /\ EnvelopeCap \in Nat
                          /\ Scenarios \subseteq [Event -> Nat]

VARIABLES
    st,      \* st[n][p]: what n's MeshNode and store hold about peer p
    dhkey,   \* dhkey[n]: the version of n's own X25519 key
    net,     \* the direct-message packets in flight
    next,    \* the next Noise ephemeral key: every session draws a fresh one
    sent,    \* the texts the users have sent
    used     \* how often each bounded event has happened

vars == <<st, dhkey, net, next, sent, used>>

NoKey == 0       \* no X25519 key announced yet
Absent == -1     \* no entry in handshake_attempts
Garbage == -1    \* bytes read as an ephemeral key that nobody generated

-----------------------------------------------------------------------------
(***************************************************************************)
(* Noise sessions.  Two XX handshake states derive the same transport keys *)
(* exactly when they are the two ends of one exchange, so a session is     *)
(* described by the ephemeral keys of both ends: own, and re once read.    *)
(* rs is the remote static key; sendN and recvN are the transport nonces.  *)
(***************************************************************************)
NoSession == [role |-> "none", ready |-> FALSE, own |-> 0, re |-> 0,
              rs |-> NoKey, sendN |-> 0, recvN |-> 0]

new_initiator(id) == [NoSession EXCEPT !.role = "init", !.own = id]

new_responder(id, e) ==
    [NoSession EXCEPT !.role = "resp", !.own = id, !.re = e]

\* The initiator's and the responder's ephemeral of a session: its key pair.
KeyI(e) == IF e.role = "init" THEN e.own ELSE e.re
KeyR(e) == IF e.role = "init" THEN e.re ELSE e.own

\* The packets.  msg1 is (e), msg2 is (e, ee, s, es) bound to the msg1 it
\* answers, msg3 is (s, se) bound to both ephemerals, and a ciphertext
\* carries its nonce in clear and opens under one pair of transport keys.
Msg1(n, p, i) == [type |-> "msg1", src |-> n, dst |-> p, i |-> i]
Msg2(n, p, i, r, s) ==
    [type |-> "msg2", src |-> n, dst |-> p, i |-> i, r |-> r, s |-> s]
Msg3(n, p, i, r, s) ==
    [type |-> "msg3", src |-> n, dst |-> p, i |-> i, r |-> r, s |-> s]
Dm(n, p, e, nonce, b) ==
    [type |-> "dm", src |-> n, dst |-> p, i |-> KeyI(e), r |-> KeyR(e),
     nonce |-> nonce, body |-> b]

\* A responder that has read nothing yet holds no key, so it takes the first
\* 32 bytes of whatever it is given as the initiator's ephemeral and the rest
\* as plaintext payload: the sender's ephemeral for msg1 and msg2, but the
\* encrypted static key, which is no ephemeral of anyone, for msg3.
FirstKey(m) == CASE m.type = "msg1" -> m.i
                 [] m.type = "msg2" -> m.r
                 [] OTHER -> Garbage

HasSession(s) == s.sess.role # "none"
Ready(s) == s.sess.ready
Handshaking(s) == HasSession(s) /\ ~Ready(s)

-----------------------------------------------------------------------------
(***************************************************************************)
(* The state of a node about a peer.  The volatile part is                 *)
(*   sess     noise_sessions                                               *)
(*   pend     pending_dms                inb      pending_inbound_dms      *)
(*   addr     the peer is in fp_to_eph   dh       peer_static_dh           *)
(*   attempts handshake_attempts         last     handshake_last_ms        *)
(*   resync   resync_pending             notice   notice_pending           *)
(* An entry of eph_keys comes and goes with the one of peer_static_dh, so  *)
(* dh # NoKey also says that the peer's wire id is resolvable.  last says   *)
(* that there is an entry in handshake_last_ms.  out holds what the        *)
(* current step sends and is empty between steps.  The stored part is      *)
(*   peer     the PeerRecord             thread   how often each StoredDm  *)
(*   envs     the held envelopes                  row is in the thread     *)
(*   aged     how many of them, the oldest, are past envelope_ttl_ms       *)
(***************************************************************************)
Forgotten == [sess |-> NoSession, pend |-> <<>>, inb |-> <<>>,
              attempts |-> Absent, last |-> FALSE, resync |-> 0,
              notice |-> FALSE, addr |-> FALSE, dh |-> NoKey, out |-> {},
              peer |-> [exists |-> FALSE, verified |-> FALSE, petname |-> FALSE],
              thread |-> [r \in Row |-> 0], envs |-> <<>>, aged |-> 0]

\* The process starts again: the store survives, everything else is lost.
Restarted(s) == [Forgotten EXCEPT !.peer = s.peer, !.thread = s.thread,
                                  !.envs = s.envs, !.aged = s.aged]

\* delete_dms(only_control): the thread without its control rows.
TextRows(th) == [r \in Row |-> IF r[2] \in Text THEN th[r] ELSE 0]

put_dm(s, r) == [s EXCEPT !.thread[r] = @ + 1]

\* A directed packet leaves only toward a peer whose wire id is known.
send_directed(s, pkts) ==
    [s EXCEPT !.out = IF s.addr THEN @ \cup pkts ELSE @]

\* MUTANT: the attempt is counted down instead of up.
begin_handshake_CountsDown(n, p, s, id) ==
    send_directed([s EXCEPT !.sess = new_initiator(id), !.last = TRUE,
                            !.attempts = @ - 1], {Msg1(n, p, id)})

begin_handshake(n, p, s, id) ==
    send_directed([s EXCEPT !.sess = new_initiator(id),
                            !.last = TRUE,
                            !.attempts = IF @ = Absent THEN 1 ELSE @ + 1],
                  {Msg1(n, p, id)})

\* MUTANT: the sending nonce does not advance.
encrypt_and_send_SameNonce(n, p, s, bs) ==
    send_directed(s, {Dm(n, p, s.sess, s.sess.sendN, bs[k]) : k \in DOMAIN bs})

\* Encrypt the bodies bs in order, each under the next sending nonce.
encrypt_and_send(n, p, s, bs) ==
    send_directed([s EXCEPT !.sess.sendN = @ + Len(bs)],
                  {Dm(n, p, s.sess, s.sess.sendN + k - 1, bs[k]) : k \in DOMAIN bs})

send_control_dm(n, p, s, b) ==
    encrypt_and_send(n, p, put_dm(s, <<TRUE, b>>), <<b>>)

try_send_verify_notice(n, p, s) ==
    IF Ready(s) /\ s.notice
    THEN send_control_dm(n, p, [s EXCEPT !.notice = FALSE], "notice")
    ELSE s

\* c was encrypted under the transport keys of session e.
Opens(e, c) == e.ready /\ c.i = KeyI(e) /\ c.r = KeyR(e)

\* MUTANT: a nonce below the expected one is not refused.
Accepted_Replays(e, cs) == {k \in DOMAIN cs : Opens(e, cs[k])}

\* Which of the ciphertexts cs, decrypted in order, are accepted: those of
\* this session whose nonce is not below the one expected, which is one past
\* the nonce of the last accepted ciphertext.
Accepted(e, cs) ==
    {k \in DOMAIN cs :
        /\ Opens(e, cs[k])
        /\ cs[k].nonce >= e.recvN
        /\ \A j \in 1 .. k - 1 : Opens(e, cs[j]) => cs[j].nonce < cs[k].nonce}

\* The receiving nonce after the ciphertexts with indices ks were accepted:
\* one past that of the last of them.
NextNonce(e, cs, ks) ==
    IF ks = {} THEN e.recvN
    ELSE cs[CHOOSE k \in ks : \A j \in ks : j <= k].nonce + 1

\* Decrypt cs in order.  Every accepted one is stored, clears the resync
\* tally, and is answered by a stored and encrypted ack if it is a notice.
decrypt_and_emit(n, p, s, cs) ==
    LET ok == Accepted(s.sess, cs)
        Carrying(b) == {k \in ok : cs[k].body = b}
        acks == Cardinality(Carrying("notice"))
        stored == [r \in Row |->
                     s.thread[r] + (IF r = <<TRUE, "ack">> THEN acks ELSE 0)
                                 + (IF r[1] THEN 0 ELSE Cardinality(Carrying(r[2])))]
    IN  encrypt_and_send(n, p,
            [s EXCEPT !.resync = IF ok = {} THEN @ ELSE 0,
                      !.sess.recvN = NextNonce(s.sess, cs, ok),
                      !.thread = stored],
            [k \in 1 .. acks |-> "ack"])

\* The Noise session is complete.  If it is not bound to the announced key it
\* is dropped with the texts that waited for it; else the notice owed, the
\* texts that waited and the ciphertexts that came early are worked off.
finish_session(n, p, s) ==
    LET reset == [s EXCEPT !.last = FALSE, !.attempts = Absent]
        told == try_send_verify_notice(n, p, [reset EXCEPT !.resync = 0])
        flushed == encrypt_and_send(n, p, [told EXCEPT !.pend = <<>>], s.pend)
    IN  IF s.sess.rs = s.dh
        THEN decrypt_and_emit(n, p, [flushed EXCEPT !.inb = <<>>], s.inb)
        ELSE [reset EXCEPT !.sess = NoSession, !.pend = <<>>]

\* Hold a text for a peer that is out of reach: the envelopes past their time
\* to live go first, then the oldest ones beyond the bound.
queue_envelope(s, t) ==
    LET q == Append(SubSeq(s.envs, s.aged + 1, Len(s.envs)), t)
        over == IF Len(q) > EnvelopeCap THEN Len(q) - EnvelopeCap ELSE 0
    IN  [s EXCEPT !.envs = SubSeq(q, over + 1, Len(q)), !.aged = 0]

\* send_dm for each text of ts in order: all of them are stored, and then
\* encrypted, held as an envelope (only ever one text, a user's), or queued
\* behind a handshake.  The first of them starts one if none is under way;
\* each of the others, and the first if one is, drops the retry bookkeeping.
send_dms(n, p, s, ts, id) ==
    LET own == [s EXCEPT !.thread =
                  [r \in Row |-> s.thread[r] + (IF r[1]
                     THEN Cardinality({k \in DOMAIN ts : ts[k] = r[2]}) ELSE 0)]]
        queued == [own EXCEPT !.pend = @ \o ts]
        started == begin_handshake(n, p, queued, id)
        NoRetry(q) == [q EXCEPT !.attempts = Absent, !.last = FALSE]
    IN  CASE ts = <<>> -> s
          [] ts # <<>> /\ Ready(s) -> encrypt_and_send(n, p, own, ts)
          [] ts # <<>> /\ ~Ready(s) /\ ~s.addr -> queue_envelope(own, ts[1])
          [] ts # <<>> /\ Handshaking(s) /\ s.addr -> NoRetry(queued)
          [] ts # <<>> /\ ~HasSession(s) /\ s.addr ->
                IF Len(ts) = 1 THEN started ELSE NoRetry(started)

\* MUTANT: the notice that is owed is not dropped with the rest.
drop_peer_session_state_KeepsNotice(s) ==
    [s EXCEPT !.sess = NoSession, !.pend = <<>>, !.inb = <<>>, !.last = FALSE,
              !.attempts = Absent, !.resync = 0]

drop_peer_session_state(s) ==
    [s EXCEPT !.sess = NoSession, !.pend = <<>>, !.inb = <<>>, !.last = FALSE,
              !.attempts = Absent, !.resync = 0, !.notice = FALSE]

-----------------------------------------------------------------------------
(***************************************************************************)
(* Actions.  Commit ends a step of node n about peer p in the state s.     *)
(***************************************************************************)
Commit(n, p, s) ==
    /\ st' = [st EXCEPT ![n][p] = [s EXCEPT !.out = {}]]
    /\ next' = IF s.sess.own = next THEN next + 1 ELSE next

\* A bounded user or environment event: what has happened then is within
\* the bounds of one of the scenarios.
Spend(ev) == /\ \E s \in Scenarios : /\ used[ev] < s[ev]
                                     /\ \A e \in Event : used[e] <= s[e]
             /\ used' = [used EXCEPT ![ev] = @ + 1]

\* A command of n's user about peer p that leaves n in state s.
Command(ev, n, p, s) == /\ n # p
                        /\ Spend(ev)
                        /\ Commit(n, p, s)
                        /\ net' = net \cup s.out
                        /\ UNCHANGED dhkey

SendDm(n, p, t) ==
    /\ t \notin sent
    /\ sent' = sent \cup {t}
    /\ Command("send", n, p, send_dms(n, p, st[n][p], <<t>>, next))

VerifyPeer(n, p) ==
    /\ Command("verify", n, p,
          try_send_verify_notice(n, p,
              [st[n][p] EXCEPT !.peer.exists = TRUE, !.peer.verified = TRUE,
                               !.thread = TextRows(@), !.notice = TRUE]))
    /\ UNCHANGED sent

\* A peer without a record stays without one.
UnverifyPeer(n, p) ==
    /\ Command("unverify", n, p,
          drop_peer_session_state([st[n][p] EXCEPT !.peer.verified = FALSE,
                                                   !.thread = TextRows(@)]))
    /\ UNCHANGED sent

\* The peer's announced keys and the envelopes held for it are kept.
ForgetPeer(n, p) ==
    /\ Command("forget", n, p,
          drop_peer_session_state([st[n][p] EXCEPT !.peer = Forgotten.peer,
                                                   !.thread = Forgotten.thread,
                                                   !.addr = FALSE]))
    /\ UNCHANGED sent

StartDmSession(n, p) ==
    /\ st[n][p].addr /\ ~HasSession(st[n][p])
    /\ Command("start", n, p, begin_handshake(n, p, st[n][p], next))
    /\ UNCHANGED sent

SetPetname(n, p, named) ==
    /\ Command("petname", n, p,
          [st[n][p] EXCEPT !.peer.exists = TRUE, !.peer.petname = named])
    /\ UNCHANGED sent

\* Something happens to the whole node n: each st[n][p] becomes F(st[n][p]).
WholeNode(ev, n, F(_)) ==
    /\ Spend(ev)
    /\ st' = [st EXCEPT ![n] = [p \in Node |-> F(st[n][p])]]
    /\ UNCHANGED <<net, next, sent>>

PanicWipe(n) == WholeNode("wipe", n, LAMBDA s : Forgotten) /\ UNCHANGED dhkey

Restart(n) == WholeNode("restart", n, Restarted) /\ UNCHANGED dhkey

\* n restarts with another X25519 key under the same signing identity.
Upgrade(n) == /\ WholeNode("upgrade", n, Restarted)
              /\ dhkey' = [dhkey EXCEPT ![n] = @ + 1]

-----------------------------------------------------------------------------
\* MUTANT: only a changed key of a verified peer is marked.
handle_announce_QuietChange(n, p, s, k, id) ==
    LET marked == IF s.dh \notin {NoKey, k} /\ s.peer.verified
                  THEN put_dm(s, <<FALSE, KeyChanged>>) ELSE s
    IN  send_dms(n, p, [marked EXCEPT !.dh = k, !.addr = TRUE, !.peer.exists = TRUE,
                                      !.envs = <<>>, !.aged = 0], s.envs, id)

\* MUTANT: the held envelopes are not sent.
handle_announce_KeepsEnvelopes(n, p, s, k, id) ==
    [s EXCEPT !.dh = k, !.addr = TRUE, !.peer.exists = TRUE]

\* MUTANT: the announce writes a fresh peer record.
handle_announce_FreshRecord(n, p, s, k, id) ==
    send_dms(n, p, [s EXCEPT !.dh = k, !.addr = TRUE,
                             !.peer = [Forgotten.peer EXCEPT !.exists = TRUE],
                             !.envs = <<>>, !.aged = 0], s.envs, id)

\* A signed announce of p, carrying the key k, reaches n.  It may be an old
\* one.  A changed key of a recorded peer leaves a marker row; what the user
\* set about the peer is kept; the held envelopes are sent.
handle_announce(n, p, s, k, id) ==
    LET marked == IF s.dh \notin {NoKey, k} /\ s.peer.exists
                  THEN put_dm(s, <<FALSE, KeyChanged>>) ELSE s
    IN  send_dms(n, p, [marked EXCEPT !.dh = k, !.addr = TRUE, !.peer.exists = TRUE,
                                      !.envs = <<>>, !.aged = 0], s.envs, id)

ReceiveAnnounce(n, p) ==
    LET s == handle_announce(n, p, st[n][p], dhkey[p], next)
    IN  /\ n # p
        /\ Commit(n, p, s)
        /\ net' = net \cup s.out
        /\ UNCHANGED <<dhkey, sent, used>>

ReceiveStaleAnnounce(n, p, k) ==
    /\ k < dhkey[p]
    /\ Command("stale", n, p, handle_announce(n, p, st[n][p], k, next))
    /\ UNCHANGED sent

\* DM_HANDSHAKE_RETRY_MS have passed since the last progress.  Usually every
\* packet between n and p has arrived by then; that one is late is a bounded
\* event.
RetryIsDue(n, p) == \/ /\ \A m \in net : {m.src, m.dst} # {n, p}
                       /\ UNCHANGED used
                    \/ /\ \E m \in net : {m.src, m.dst} = {n, p}
                       /\ Spend("late")

\* retry_stalled_handshakes, from tick: only peers with an entry in
\* handshake_attempts are looked at, and a missing last time is long ago.
RetryStalledHandshake(n, p) ==
    LET s == st[n][p]
        again == begin_handshake(n, p, s, next)
    IN  /\ n # p
        /\ s.attempts # Absent /\ s.attempts < MaxAttempts
        /\ ~Ready(s) /\ s.addr
        /\ IF s.last THEN RetryIsDue(n, p) ELSE UNCHANGED used
        /\ Commit(n, p, again)
        /\ net' = net \cup again.out
        /\ UNCHANGED <<dhkey, sent>>

-----------------------------------------------------------------------------
(***************************************************************************)
(* Packets.  Receive hands m to the node it is addressed to, which moves   *)
(* to state s; a copy of m may stay in the mesh and get past the SeenCache *)
(* again.                                                                  *)
(***************************************************************************)
Receive(m, s) ==
    /\ m \in net
    /\ Commit(m.dst, m.src, s)
    /\ \/ net' = (net \ {m}) \cup s.out /\ UNCHANGED used
       \/ net' = net \cup s.out /\ Spend("dup")
    /\ UNCHANGED <<dhkey, sent>>

At(m) == st[m.dst][m.src]

\* The sender's wire id resolves to an identity.
Resolved(m) == At(m).dh # NoKey

IsHandshake(m) == m.type \in {"msg1", "msg2", "msg3"}

ReceiveUnresolved(m) == ~Resolved(m) /\ Receive(m, At(m))

\* Create the responder's half on m and answer it with msg2.
Respond(m, s) ==
    LET n == m.dst
        p == m.src
    IN  Receive(m, send_directed(
            [s EXCEPT !.sess = new_responder(next, FirstKey(m)),
                      !.last = TRUE,
                      !.attempts = IF @ = Absent THEN 0 ELSE @],
            {Msg2(n, p, FirstKey(m), next, dhkey[n])}))

\* A handshake packet for a ready session only counts, below the threshold.
IgnoreRetransmit(m) ==
    /\ IsHandshake(m) /\ Resolved(m)
    /\ Ready(At(m)) /\ At(m).resync + 1 < ResyncThreshold
    /\ Receive(m, [At(m) EXCEPT !.resync = @ + 1])

\* MUTANT: the first stray handshake packet already resets the session.
SupersedeZombie_AtOnce(m) ==
    /\ IsHandshake(m) /\ Resolved(m) /\ Ready(At(m))
    /\ Respond(m, [At(m) EXCEPT !.resync = 0])

\* At the threshold the ready session gives way to the packet.
SupersedeZombie(m) ==
    /\ IsHandshake(m) /\ Resolved(m)
    /\ Ready(At(m)) /\ At(m).resync + 1 >= ResyncThreshold
    /\ Respond(m, [At(m) EXCEPT !.resync = 0])

\* Both ends initiated: the lower fingerprint ignores the other's msg1 ...
Glare(m) == /\ m.type = "msg1" /\ Resolved(m)
            /\ At(m).sess.role = "init" /\ ~Ready(At(m))

KeepInitiating(m) == Glare(m) /\ m.dst < m.src /\ Receive(m, At(m))

\* MUTANT: yielding drops everything that waited for the session.
YieldAndRespond_DropsQueue(m) ==
    Glare(m) /\ ~(m.dst < m.src) /\ Respond(m, drop_peer_session_state(At(m)))

\* ... and the higher one drops its own attempt and answers.
YieldAndRespond(m) == Glare(m) /\ ~(m.dst < m.src) /\ Respond(m, At(m))

RespondFresh(m) ==
    /\ IsHandshake(m) /\ Resolved(m)
    /\ ~HasSession(At(m))
    /\ Respond(m, At(m))

\* MUTANT: the error of reading a msg2 of another exchange is ignored.
AnswersMe_AnyExchange(m) == m.type = "msg2" /\ At(m).sess.role = "init"

\* The initiator reads the msg2 that answers its msg1, sends msg3, is ready.
AnswersMe(m) == /\ m.type = "msg2" /\ At(m).sess.role = "init"
                /\ m.i = At(m).sess.own

CompleteInitiator(m) ==
    LET n == m.dst
        p == m.src
        s == [At(m) EXCEPT !.sess.ready = TRUE, !.sess.re = m.r,
                           !.sess.rs = m.s, !.last = TRUE]
    IN  /\ Resolved(m) /\ Handshaking(At(m)) /\ AnswersMe(m)
        /\ Receive(m, finish_session(n, p,
              send_directed(s, {Msg3(n, p, m.i, m.r, dhkey[n])})))

\* MUTANT: the error of reading a msg3 of another exchange is ignored.
ClosesMine_AnyExchange(m) == m.type = "msg3" /\ At(m).sess.role = "resp"

\* The responder reads the msg3 of its own exchange and is ready.
ClosesMine(m) == /\ m.type = "msg3" /\ At(m).sess.role = "resp"
                 /\ m.i = At(m).sess.re /\ m.r = At(m).sess.own

CompleteResponder(m) ==
    /\ Resolved(m) /\ Handshaking(At(m)) /\ ClosesMine(m)
    /\ Receive(m, finish_session(m.dst, m.src,
          [At(m) EXCEPT !.sess.ready = TRUE, !.sess.rs = m.s, !.last = TRUE]))

\* MUTANT: the retry bookkeeping goes with the session.
FailRead_ForgetsRetry(m) ==
    /\ IsHandshake(m) /\ Resolved(m) /\ Handshaking(At(m))
    /\ ~Glare(m) /\ ~AnswersMe(m) /\ ~ClosesMine(m)
    /\ Receive(m, [At(m) EXCEPT !.sess = NoSession, !.attempts = Absent, !.last = FALSE])

\* Any other handshake packet cannot be read and destroys the half-open
\* session; the retry bookkeeping stays.
FailRead(m) ==
    /\ IsHandshake(m) /\ Resolved(m) /\ Handshaking(At(m))
    /\ ~Glare(m) /\ ~AnswersMe(m) /\ ~ClosesMine(m)
    /\ Receive(m, [At(m) EXCEPT !.sess = NoSession])

\* A ciphertext before the session is ready is kept, up to the cap; without
\* any session it also starts a handshake.
BufferEarlyDm(m) ==
    LET s == At(m)
        kept == IF Len(s.inb) < InboundCap
                THEN [s EXCEPT !.inb = Append(@, m)] ELSE s
    IN  /\ m.type = "dm" /\ Resolved(m) /\ ~Ready(s)
        /\ Receive(m, IF HasSession(s) THEN kept
                      ELSE begin_handshake(m.dst, m.src, kept, next))

ReceiveDm(m) ==
    /\ m.type = "dm" /\ Resolved(m) /\ Ready(At(m))
    /\ Receive(m, decrypt_and_emit(m.dst, m.src, At(m), <<m>>))

-----------------------------------------------------------------------------
(***************************************************************************)
(* The environment.                                                        *)
(***************************************************************************)
\* The mesh, or the rate limiter of the receiver, drops a packet.
Lose(m) == /\ m \in net
           /\ Spend("lose")
           /\ net' = net \ {m}
           /\ UNCHANGED <<st, dhkey, next, sent>>

\* envelope_ttl_ms have passed since the envelopes were queued.
AgeEnvelopes(n, p) ==
    /\ Len(st[n][p].envs) > st[n][p].aged
    /\ Spend("age")
    /\ st' = [st EXCEPT ![n][p].aged = Len(st[n][p].envs)]
    /\ UNCHANGED <<dhkey, net, next, sent>>

-----------------------------------------------------------------------------
Init == /\ st = [n \in Node |-> [p \in Node |-> Forgotten]]
        /\ dhkey = [n \in Node |-> 1]
        /\ net = {}
        /\ next = 1
        /\ sent = {}
        /\ used = [ev \in Event |-> 0]

UserStep(n, p) == \/ \E t \in Text : SendDm(n, p, t)
                  \/ VerifyPeer(n, p)
                  \/ UnverifyPeer(n, p)
                  \/ ForgetPeer(n, p)
                  \/ StartDmSession(n, p)
                  \/ \E named \in BOOLEAN : SetPetname(n, p, named)

NodeStep(n) == PanicWipe(n) \/ Restart(n) \/ Upgrade(n)

HandshakeStep(m) == \/ IgnoreRetransmit(m)
                    \/ SupersedeZombie(m)
                    \/ KeepInitiating(m)
                    \/ YieldAndRespond(m)
                    \/ RespondFresh(m)
                    \/ CompleteInitiator(m)
                    \/ CompleteResponder(m)
                    \/ FailRead(m)

PacketStep(m) == \/ ReceiveUnresolved(m)
                 \/ HandshakeStep(m)
                 \/ BufferEarlyDm(m)
                 \/ ReceiveDm(m)

Next == \/ \E n, p \in Node : \/ UserStep(n, p)
                              \/ ReceiveAnnounce(n, p)
                              \/ \E k \in 1 .. dhkey[p] : ReceiveStaleAnnounce(n, p, k)
                              \/ RetryStalledHandshake(n, p)
                              \/ AgeEnvelopes(n, p)
        \/ \E n \in Node : NodeStep(n)
        \/ \E m \in net : PacketStep(m) \/ Lose(m)

Spec == Init /\ [][Next]_vars

\* The platform ticks every node every 250 ms, packets that are not lost are
\* delivered, and announces are repeated.  Users and faults are not fair.
Fairness == /\ WF_vars(\E m \in net : PacketStep(m))
            /\ \A n, p \in Node : /\ WF_vars(RetryStalledHandshake(n, p))
                                  /\ WF_vars(ReceiveAnnounce(n, p))

FairSpec == Spec /\ Fairness
-----------------------------------------------------------------------------
(***************************************************************************)
(* Properties.                                                             *)
(***************************************************************************)
Key == Nat
Ephemeral == {Garbage} \cup Nat

Session == [role : {"none", "init", "resp"}, ready : BOOLEAN, own : Nat,
            re : Ephemeral, rs : Key, sendN : Nat, recvN : Nat]

Handshake1 == [type : {"msg1"}, src : Node, dst : Node, i : Nat]
Handshake23 == [type : {"msg2", "msg3"}, src : Node, dst : Node,
                i : Ephemeral, r : Nat, s : Key]
Ciphertext == [type : {"dm"}, src : Node, dst : Node, i : Ephemeral,
               r : Ephemeral, nonce : Nat, body : Body]
Packet == Handshake1 \cup Handshake23 \cup Ciphertext

PeerState ==
    [sess : Session, pend : Seq(Text), inb : Seq(Ciphertext),
     attempts : {Absent} \cup Nat, last : BOOLEAN,
     resync : Nat, notice : BOOLEAN, addr : BOOLEAN, dh : Key, out : SUBSET Packet,
     peer : [exists : BOOLEAN, verified : BOOLEAN, petname : BOOLEAN],
     thread : [Row -> Nat], envs : Seq(Text), aged : Nat]

\* The maps, the store and the packets hold what their types say.
TypeOK == /\ st \in [Node -> [Node -> PeerState]]
          /\ dhkey \in [Node -> Nat]
          /\ net \subseteq Packet
          /\ next \in Nat \ {0}
          /\ sent \subseteq Text
          /\ used \in [Event -> Nat]

\* When both ends hold a ready session, each end's session is the other
\* half of the same exchange, so what one encrypts the other can decrypt:
\* glare, resync, retries, losses, copies and restarts never leave the two
\* ends with transport keys of different handshakes.
Agreement ==
    \A n, p \in Node :
        n # p /\ Ready(st[n][p]) /\ Ready(st[p][n]) =>
            /\ st[n][p].sess.role # st[p][n].sess.role
            /\ st[n][p].sess.own = st[p][n].sess.re
            /\ st[n][p].sess.re = st[p][n].sess.own

\* Seen through the halves of the sessions and the msg2 and msg3 packets, every
\* behaviour of the direct-message code is one that SessionPairing allows.
HalfOf(e) == [role |-> e.role, ready |-> e.ready, own |-> e.own, re |-> e.re]
Halves == [n \in Node |-> [p \in Node |-> HalfOf(st[n][p].sess)]]
BoundPackets == {m \in net : m.type \in {"msg2", "msg3"}}
Pairing == INSTANCE SessionPairing WITH half <- Halves, hs <- BoundPackets
PairingSpec == Pairing!Spec

\* A text enters the recipient's thread at most once, though it may be held
\* as an envelope, queued, buffered before the session is ready, and its
\* ciphertext delivered twice.
AtMostOnce == \A n, p \in Node, t \in Text : st[n][p].thread[<<FALSE, t>>] <= 1

\* No two different plaintexts travel under the same key, direction and
\* nonce, which would break the cipher.
NonceUsedOnce ==
    \A a, b \in {m \in net : m.type = "dm"} :
        /\ a.src = b.src /\ a.dst = b.dst
        /\ a.i = b.i /\ a.r = b.r /\ a.nonce = b.nonce
        => a = b

\* The ack that makes a contact "confirmed both ends" is in the thread only
\* while the contact is verified: no ack of an exchange from before an
\* unverify, a forget or a wipe can turn up after it.
ConfirmedIsVerified ==
    \A n, p \in Node :
        st[n][p].thread[<<FALSE, "ack">>] > 0 => st[n][p].peer.verified

\* A session that is ready at both ends stays so until a user drops it, a
\* process restarts, or handshake packets are lost, copied or late: neither
\* glare nor reordering alone leaves enough stray packets to reset it.
BothReady(n, p) == Ready(st[n][p]) /\ Ready(st[p][n])
Calm == \A ev \in Event \ {"send", "start", "verify", "petname"} : used[ev] = 0
SessionSurvives ==
    [][\A n, p \in Node : n # p /\ Calm' /\ BothReady(n, p) => BothReady(n, p)']_vars

\* Where a text of n for p can be while it is not lost.
Holds(q, t) == \E k \in DOMAIN q : q[k] = t
Carries(cs, t) == \E k \in DOMAIN cs : cs[k].body = t
Somewhere(n, p, t) == \/ Holds(st[n][p].envs, t)
                      \/ Holds(st[n][p].pend, t)
                      \/ \E m \in net : m.type = "dm" /\ m.body = t
                      \/ Carries(st[p][n].inb, t)
                      \/ st[p][n].thread[<<FALSE, t>>] > 0

\* The only text of n to p, once sent, is held, queued, in flight, buffered
\* or delivered, as long as the mesh loses nothing: simultaneous handshakes
\* do not drop it.  (A text that a second one, or the notice of a scan,
\* overtakes may be dropped: the session reads nonces in increasing order.)
FirstTextKept ==
    \A n, p \in Node, t \in Text :
        /\ Calm /\ used["verify"] = 0
        /\ st[n][p].thread[<<TRUE, t>>] > 0
        /\ \A u \in Text \ {t} : st[n][p].thread[<<TRUE, u>>] = 0
        => Somewhere(n, p, t)

\* A key change is never silent: the step that leaves a ready session bound to
\* another key than the one its peer announces adds the key-changed marker to
\* the thread, and only a command of this node's own user takes one away.
Marker == <<FALSE, KeyChanged>>
Unbound(s) == Ready(s) /\ s.sess.rs # s.dh
LoudStep(was, is) ==
    /\ Unbound(is) /\ ~Unbound(was) => is.thread[Marker] > was.thread[Marker]
    /\ is.thread[Marker] < was.thread[Marker] =>
          \E ev \in {"verify", "unverify", "forget", "wipe"} : used'[ev] # used[ev]
LoudKeyChange == [][\A n, p \in Node : LoudStep(st[n][p], st'[n][p])]_vars

\* No text waits in the store for a peer that is reachable: the announce that
\* makes it reachable sends all of them.
HeldOnlyWhileAway == \A n, p \in Node : st[n][p].addr => st[n][p].envs = <<>>

\* Whether a peer is verified, and its petname, change only by a command of
\* this node's own user: no packet, announce, retry or restart touches them.
TrustStep(was, is) ==
    was.verified # is.verified \/ was.petname # is.petname =>
        \E ev \in {"verify", "unverify", "forget", "petname", "wipe"} : used'[ev] # used[ev]
UserOwnsTrust == [][\A n, p \in Node : TrustStep(st[n][p].peer, st'[n][p].peer)]_vars

\* A text queued behind a handshake goes out, or the retry budget is spent on
\* trying: the handshake is never left half-open with nobody to drive it.  A queue
\* that is dropped with its session (finish_session, drop_peer_session_state) counts
\* as gone out.
Queued(n, p) == st[n][p].addr /\ st[n][p].pend # <<>>
GoesOutOrGivesUp ==
    \A n, p \in Node :
        Queued(n, p) ~> (~Queued(n, p) \/ st[n][p].attempts >= MaxAttempts)

-----------------------------------------------------------------------------
(***************************************************************************)
(* What a comment says of this code and it does not do.                    *)
(***************************************************************************)
\* send_dm: "a fresh user send resets the retry budget so `tick` re-drives it
\* promptly".  After a send that finds a handshake under way, tick sends the
\* handshake again unless the text has gone out first.
TickRedrives ==
    \A n, p \in Node :
        Queued(n, p) /\ Handshaking(st[n][p]) /\ ~st[n][p].last
            ~> (~Queued(n, p) \/ st[n][p].last)
=============================================================================

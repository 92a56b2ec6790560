---------------------------- MODULE ChannelMesh ----------------------------
(***************************************************************************)
(* One public channel over the mesh: how a packet floods (SeenCache,       *)
(* RateLimiter and RelayScheduler of crates/meshcore/src/relay.rs, driven  *)
(* by MeshNode::on_frame, maybe_relay, tick and broadcast) and how history *)
(* is reconciled when a link comes up (send_sync_requests and              *)
(* handle_sync_request, crates/meshcore/src/channels.rs).                  *)
(*                                                                         *)
(* A packet is named by its digest, which does not cover the TTL, so all   *)
(* copies of it have one name.  Links carry frames in order; a packet is   *)
(* one frame (fragmentation is below this level).  Two nodes share at most *)
(* one link here, so dedup_links has nothing to close.                     *)
(***************************************************************************)
EXTENDS Integers, Sequences, FiniteSets, SequencesExt

CONSTANTS
    Node,
    Link,
    Ends,             \* Ends[l]: the two nodes that link l joins
    UpAtStart,        \* the links that are up when the model starts
    Subscribers,      \* the nodes that have joined the channel at the start
    Ttl, TtlDense,    \* ttl_channel and ttl_announce, and the dense variants
    DenseDegree,      \* dense_degree
    SparseMax,        \* relay_sparse_max: up to this degree every relay is made
    Threshold,        \* suppression_threshold
    SeenCapacity,     \* seen_cache_capacity
    Burst,            \* rate_burst
    Refills,          \* whether buckets refill in time: never, maybe or always
    Times,            \* Times[n]: what node n's clock may show when it sends
    HistoryMax,       \* channel_history_max_msgs
    HistoryMs,        \* channel_history_ms, 0 for no limit
    Scenarios         \* alternative bounds on how often each event happens

Event == {"send", "join", "wipe", "announce", "connect", "disconnect",
          "expire", "lose"}
Flooded == {"chan", "announce"}

ASSUME LinkAssumption ==
    /\ \A l \in Link : Ends[l] \subseteq Node /\ Cardinality(Ends[l]) = 2
    /\ \A l, k \in Link : Ends[l] = Ends[k] => l = k
    /\ UpAtStart \subseteq Link
ASSUME SubscriberAssumption == Subscribers \subseteq Node
ASSUME TunableAssumption ==
    /\ Ttl \in [Flooded -> Nat \ {0}] /\ TtlDense \in [Flooded -> Nat \ {0}]
    /\ {DenseDegree, SparseMax} \subseteq Nat
    /\ {Threshold, SeenCapacity, Burst, HistoryMax} \subseteq Nat \ {0}
    /\ HistoryMs \in Nat /\ Times \in [Node -> SUBSET Nat]
    /\ Refills \in {"never", "maybe", "always"}
    /\ Scenarios \subseteq [Event -> Nat]

VARIABLES
    conn,     \* the links whose radio connection stands
    links,    \* links[n]: the links node n's MeshNode knows
    chan,     \* chan[<<l, n>>]: the frames on their way to n over l
    seen,     \* seen[n]: the SeenCache, the oldest entry first
    pend,     \* pend[n]: the rebroadcasts that wait out their jitter
    bucket,   \* bucket[n][s]: n's token bucket for originator s
    store,    \* store[n]: the channel messages stored, with the TTL they had
    sub,      \* the nodes that have joined the channel
    shown,    \* shown[n]: the packets whose event n's user was given
    again,    \* again[n]: those of them given more than once
    made,     \* made[n]: how many packets n has made
    used      \* how often each bounded event has happened

vars == <<conn, links, chan, seen, pend, bucket, store, sub,
          shown, again, made, used>>

\* A bounded event: what has happened then is within one of the scenarios.
Spend(ev) == /\ \E s \in Scenarios : /\ used[ev] < s[ev]
                                     /\ \A e \in Event : used[e] <= s[e]
             /\ used' = [used EXCEPT ![ev] = @ + 1]
-----------------------------------------------------------------------------
(***************************************************************************)
(* Packets.  The k-th packet of node src; at is the timestamp of a channel *)
(* message, 0 for the other kinds, whose time nothing here looks at.  Sync *)
(* requests carry the digests the requester holds.  A frame is a packet    *)
(* with its current TTL.                                                   *)
(***************************************************************************)
Pkt(kind, src, k, at) == [kind |-> kind, src |-> src, k |-> k, at |-> at]
Frame(pkt, ttl, have) == [pkt |-> pkt, ttl |-> ttl, have |-> have]

origin_ttl(kind, degree) ==
    IF kind \in Flooded
    THEN IF degree >= DenseDegree THEN TtlDense[kind] ELSE Ttl[kind]
    ELSE 1

\* The SeenCache.
IsSeen(n, pkt) == \E k \in DOMAIN seen[n] : seen[n][k].pkt = pkt

hear_count(n, pkt) ==
    IF IsSeen(n, pkt)
    THEN seen[n][CHOOSE k \in DOMAIN seen[n] : seen[n][k].pkt = pkt].heard
    ELSE 0

evict_oldest(q) == Tail(q)

\* Count a copy of a known packet, or enter a new one.
observe(n, pkt) ==
    LET room == IF Len(seen[n]) >= SeenCapacity THEN evict_oldest(seen[n]) ELSE seen[n]
    IN  IF IsSeen(n, pkt)
        THEN [k \in DOMAIN seen[n] |->
                [seen[n][k] EXCEPT !.heard = IF seen[n][k].pkt = pkt THEN @ + 1 ELSE @]]
        ELSE Append(room, [pkt |-> pkt, heard |-> 1])

\* The RateLimiter.  Elapsed: what a bucket may be when it is next looked at,
\* for the time that has passed.  Nothing is refilled during a greylisting, but
\* all of it counts when it ends, and it is longer than a full refill takes.
FullBucket == [tokens |-> Burst, grey |-> FALSE]
Elapsed(b) ==
    CASE Refills = "never" -> {b}
      [] Refills = "always" -> {FullBucket}
      [] Refills = "maybe" -> {b} \cup (IF b.grey THEN {FullBucket}
             ELSE {[b EXCEPT !.tokens = t] : t \in b.tokens .. Burst})

Allowed(b) == ~b.grey /\ b.tokens > 0

\* MUTANT: a greylisted originator is still charged.
allow_ChargesGreylisted(b) ==
    [tokens |-> b.tokens - 1, grey |-> b.tokens <= 0]

\* The bucket after a packet: one token less, or greylisted if there is none.
allow(b) == IF Allowed(b) THEN [b EXCEPT !.tokens = @ - 1] ELSE [b EXCEPT !.grey = TRUE]

\* The packets of what is stored, and the digests that are stored: what a
\* sync request says the requester holds.
Digests(stored) == {m.pkt : m \in stored}
channel_digests(n) == Digests(store[n])

\* The newest of the packets D: what is left when the oldest go by count.
Newest(D) == {K \in SUBSET D : /\ K = D \/ Cardinality(K) = HistoryMax
                               /\ Cardinality(K) <= HistoryMax
                               /\ \A p \in K, q \in D \ K : q.at <= p.at}

\* put_channel_message and prune_channel: what may be stored once m is put.  The
\* time of m is taken for the current time, and of packets of one time any may go.
put_channel_message(stored, m) ==
    LET all == IF m.pkt \in Digests(stored) THEN stored ELSE stored \cup {m}
        young == {x \in all : HistoryMs > 0 => m.pkt.at - x.pkt.at < HistoryMs}
    IN  {{x \in young : x.pkt \in kept} : kept \in Newest(Digests(young))}

\* The frames fs leave node n, in order, over the links ls.
Transmit(c, n, ls, fs) ==
    [e \in DOMAIN c |->
        IF e[1] \in ls \cap conn /\ e[2] # n THEN c[e] \o fs ELSE c[e]]

-----------------------------------------------------------------------------
(***************************************************************************)
(* Commands of the user and of the platform.                               *)
(***************************************************************************)
\* MUTANT: the own packet is not marked seen.
send_channel_message_Unseen(n, at) ==
    LET pkt == Pkt("chan", n, made[n], at)
        ttl == origin_ttl("chan", Cardinality(links[n]))
    IN  /\ Spend("send")
        /\ sub' = sub \cup {n}
        /\ made' = [made EXCEPT ![n] = @ + 1]
        /\ \E kept \in put_channel_message(store[n], [pkt |-> pkt, ttl |-> ttl]) :
              store' = [store EXCEPT ![n] = kept]
        /\ chan' = Transmit(chan, n, links[n], <<Frame(pkt, ttl, {})>>)
        /\ UNCHANGED <<conn, links, pend, bucket, shown, again, seen>>

\* A node's own packet is marked seen, so that its echo is not relayed.
send_channel_message(n, at) ==
    LET pkt == Pkt("chan", n, made[n], at)
        ttl == origin_ttl("chan", Cardinality(links[n]))
    IN  /\ Spend("send")
        /\ sub' = sub \cup {n}
        /\ made' = [made EXCEPT ![n] = @ + 1]
        /\ \E kept \in put_channel_message(store[n], [pkt |-> pkt, ttl |-> ttl]) :
              store' = [store EXCEPT ![n] = kept]
        /\ seen' = [seen EXCEPT ![n] = observe(n, pkt)]
        /\ chan' = Transmit(chan, n, links[n], <<Frame(pkt, ttl, {})>>)
        /\ UNCHANGED <<conn, links, pend, bucket, shown, again>>

join_channel(n) ==
    /\ n \notin sub
    /\ Spend("join")
    /\ sub' = sub \cup {n}
    /\ UNCHANGED <<conn, links, chan, seen, pend, bucket, store, shown, again, made>>

\* panic_wipe: the store and what was shown go, the flood machinery stays.
panic_wipe(n) ==
    /\ Spend("wipe")
    /\ store' = [store EXCEPT ![n] = {}]
    /\ shown' = [shown EXCEPT ![n] = {}]
    /\ again' = [again EXCEPT ![n] = {}]
    /\ UNCHANGED <<conn, links, chan, seen, pend, bucket, sub, made>>

\* announce(), from the platform's timer.
announce(n) ==
    LET pkt == Pkt("announce", n, made[n], 0)
        ttl == origin_ttl("announce", Cardinality(links[n]))
    IN  /\ Spend("announce")
        /\ made' = [made EXCEPT ![n] = @ + 1]
        /\ seen' = [seen EXCEPT ![n] = observe(n, pkt)]
        /\ chan' = Transmit(chan, n, links[n], <<Frame(pkt, ttl, {})>>)
        /\ UNCHANGED <<conn, links, pend, bucket, store, sub, shown, again>>

\* LinkUp: the link is entered, an announce goes out on every link, and over
\* the new link a sync request if the channel has been joined.
LinkUp(n, l) ==
    LET up == links[n] \cup {l}
        hello == Pkt("announce", n, made[n], 0)
        greeted == Transmit(chan, n, up,
                     <<Frame(hello, origin_ttl("announce", Cardinality(up)), {})>>)
        request == Frame(Pkt("sync", n, made[n] + 1, 0), 1, channel_digests(n))
    IN  /\ l \in conn \ links[n] /\ n \in Ends[l]
        /\ links' = [links EXCEPT ![n] = up]
        /\ made' = [made EXCEPT ![n] = @ + (IF n \in sub THEN 2 ELSE 1)]
        /\ seen' = [seen EXCEPT ![n] = observe(n, hello)]
        /\ chan' = IF n \in sub THEN Transmit(greeted, n, {l}, <<request>>) ELSE greeted
        /\ UNCHANGED <<conn, pend, bucket, store, sub, shown, again, used>>

LinkDown(n, l) ==
    /\ l \in links[n] \ conn
    /\ links' = [links EXCEPT ![n] = @ \ {l}]
    /\ UNCHANGED <<conn, chan, seen, pend, bucket, store, sub, shown, again, made, used>>

-----------------------------------------------------------------------------
(***************************************************************************)
(* Frames.  Each link delivers its frames toward n in order.               *)
(***************************************************************************)
Arrived(l, n) == chan[<<l, n>>] # << >>
First(l, n) == Head(chan[<<l, n>>])
Rest(l, n) == [chan EXCEPT ![<<l, n>>] = Tail(@)]

\* The transport hands a frame to the core only over a link it has entered;
\* before that linkFor finds none and the frame is dropped.
Reported(l, n) == l \in links[n]

DropEarly(l, n) ==
    /\ Arrived(l, n) /\ ~Reported(l, n)
    /\ chan' = Rest(l, n)
    /\ UNCHANGED <<conn, links, seen, pend, bucket, store, sub, shown, again, made, used>>

\* MUTANT: the rate is charged before the packet is looked up.
HearDuplicate_Charged(l, n) ==
    LET f == First(l, n)
    IN  /\ Arrived(l, n) /\ Reported(l, n)
        /\ IsSeen(n, f.pkt)
        /\ chan' = Rest(l, n)
        /\ seen' = [seen EXCEPT ![n] = observe(n, f.pkt)]
        /\ \E b \in Elapsed(bucket[n][f.pkt.src]) :
              bucket' = [bucket EXCEPT ![n][f.pkt.src] = allow(b)]
        /\ UNCHANGED <<conn, links, pend, store, sub, shown, again, made, used>>

\* A copy of a known packet is only counted.
HearDuplicate(l, n) ==
    /\ Arrived(l, n) /\ Reported(l, n)
    /\ IsSeen(n, First(l, n).pkt)
    /\ chan' = Rest(l, n)
    /\ seen' = [seen EXCEPT ![n] = observe(n, First(l, n).pkt)]
    /\ UNCHANGED <<conn, links, pend, bucket, store, sub, shown, again, made, used>>

\* A new packet of an originator over its rate is dropped; it stays seen.
Throttle(l, n) ==
    LET f == First(l, n)
    IN  /\ Arrived(l, n) /\ Reported(l, n)
        /\ ~IsSeen(n, f.pkt)
        /\ \E b \in Elapsed(bucket[n][f.pkt.src]) :
              /\ ~Allowed(b)
              /\ bucket' = [bucket EXCEPT ![n][f.pkt.src] = allow(b)]
        /\ chan' = Rest(l, n)
        /\ seen' = [seen EXCEPT ![n] = observe(n, f.pkt)]
        /\ UNCHANGED <<conn, links, pend, store, sub, shown, again, made, used>>

\* MUTANT: only subscribers keep the history of the channel.
handle_channel_Subscribers(n, f) ==
    LET show == f.pkt.kind = "chan" /\ n \in sub
    IN  /\ IF show
           THEN \E kept \in put_channel_message(store[n], [pkt |-> f.pkt, ttl |-> f.ttl]) :
                   store' = [store EXCEPT ![n] = kept]
           ELSE UNCHANGED store
        /\ shown' = IF show THEN [shown EXCEPT ![n] = @ \cup {f.pkt}] ELSE shown
        /\ again' = IF show /\ f.pkt \in shown[n]
                    THEN [again EXCEPT ![n] = @ \cup {f.pkt}] ELSE again

\* handle_channel: stored once at most, but shown to a subscriber each time.
handle_channel(n, f) ==
    LET show == f.pkt.kind = "chan" /\ n \in sub
    IN  /\ IF f.pkt.kind = "chan"
           THEN \E kept \in put_channel_message(store[n], [pkt |-> f.pkt, ttl |-> f.ttl]) :
                   store' = [store EXCEPT ![n] = kept]
           ELSE UNCHANGED store
        /\ shown' = IF show THEN [shown EXCEPT ![n] = @ \cup {f.pkt}] ELSE shown
        /\ again' = IF show /\ f.pkt \in shown[n]
                    THEN [again EXCEPT ![n] = @ \cup {f.pkt}] ELSE again

\* MUTANT: the answer is computed the wrong way round.
Missing_Held(n, f) == {m \in store[n] : m.pkt \in f.have}

\* What the requester does not hold, as it was stored.
Missing(n, f) == {m \in store[n] : m.pkt \notin f.have}

\* handle_sync_request: answer over the link it came from.
handle_sync_request(n, l, f, c) ==
    IF f.pkt.kind = "sync"
    THEN LET ms == SetToSeq(Missing(n, f))
         IN  Transmit(c, n, {l}, [k \in DOMAIN ms |-> Frame(ms[k].pkt, ms[k].ttl, {})])
    ELSE c

\* What is scheduled: one hop less to go, and not back over the same link.
relayed(l, f) == [pkt |-> f.pkt, ttl |-> f.ttl - 1, link |-> l]

\* Above relay_sparse_max a coin decides; an entry already waiting is kept.
maybe_relay(n, l, f) ==
    \/ /\ f.ttl > 1
       /\ pend' = IF \E r \in pend[n] : r.pkt = f.pkt THEN pend
                  ELSE [pend EXCEPT ![n] = @ \cup {relayed(l, f)}]
    \/ /\ f.ttl <= 1 \/ Cardinality(links[n]) > SparseMax
       /\ UNCHANGED pend

\* A new packet of an originator within its rate.
Process(l, n) ==
    LET f == First(l, n)
    IN  /\ Arrived(l, n) /\ Reported(l, n)
        /\ ~IsSeen(n, f.pkt)
        /\ \E b \in Elapsed(bucket[n][f.pkt.src]) :
              /\ Allowed(b)
              /\ bucket' = [bucket EXCEPT ![n][f.pkt.src] = allow(b)]
        /\ seen' = [seen EXCEPT ![n] = observe(n, f.pkt)]
        /\ handle_channel(n, f)
        /\ chan' = handle_sync_request(n, l, f, Rest(l, n))
        /\ maybe_relay(n, l, f)
        /\ UNCHANGED <<conn, links, sub, made, used>>

-----------------------------------------------------------------------------
(***************************************************************************)
(* tick releases the rebroadcasts whose jitter has passed, except those    *)
(* overheard often enough, and then drops the cache entries past their     *)
(* time to live, which are the k oldest.  The five minutes of an entry     *)
(* are over only when the packets of its time have long arrived.           *)
(***************************************************************************)
Quiet == /\ \A e \in DOMAIN chan : chan[e] = << >>
         /\ \A n \in Node : pend[n] = {}

Suppressed(n, r) == hear_count(n, r.pkt) >= Threshold

Fire(n, due) ==
    LET Over(l) == SetToSeq({r \in due : ~Suppressed(n, r) /\ r.link # l})
    IN  [e \in DOMAIN chan |->
            IF e[1] \in links[n] \cap conn /\ e[2] # n
            THEN chan[e] \o [k \in DOMAIN Over(e[1]) |->
                               Frame(Over(e[1])[k].pkt, Over(e[1])[k].ttl, {})]
            ELSE chan[e]]

\* MUTANT: a rebroadcast that the SeenCache has forgotten is never due.
Tick_Forgets(n, due, k) ==
    /\ due # {} \/ k > 0
    /\ \A r \in due : IsSeen(n, r.pkt)
    /\ chan' = Fire(n, due)
    /\ pend' = [pend EXCEPT ![n] = @ \ due]
    /\ seen' = [seen EXCEPT ![n] = SubSeq(@, k + 1, Len(@))]
    /\ IF k > 0 THEN Quiet /\ Spend("expire") ELSE UNCHANGED used
    /\ UNCHANGED <<conn, links, bucket, store, sub, shown, again, made>>

Tick(n, due, k) ==
    /\ due # {} \/ k > 0
    /\ chan' = Fire(n, due)
    /\ pend' = [pend EXCEPT ![n] = @ \ due]
    /\ seen' = [seen EXCEPT ![n] = SubSeq(@, k + 1, Len(@))]
    /\ IF k > 0 THEN Quiet /\ Spend("expire") ELSE UNCHANGED used
    /\ UNCHANGED <<conn, links, bucket, store, sub, shown, again, made>>

-----------------------------------------------------------------------------
(***************************************************************************)
(* The environment.                                                        *)
(***************************************************************************)
Connect(l) ==
    /\ l \notin conn /\ \A n \in Ends[l] : l \notin links[n]
    /\ Spend("connect")
    /\ conn' = conn \cup {l}
    /\ UNCHANGED <<links, chan, seen, pend, bucket, store, sub, shown, again, made>>

\* The frames on their way are lost; both ends are told later.
Disconnect(l) ==
    /\ l \in conn
    /\ Spend("disconnect")
    /\ conn' = conn \ {l}
    /\ chan' = [e \in DOMAIN chan |-> IF e[1] = l THEN << >> ELSE chan[e]]
    /\ UNCHANGED <<links, seen, pend, bucket, store, sub, shown, again, made>>

Lose(l, n) ==
    /\ Arrived(l, n)
    /\ Spend("lose")
    /\ chan' = Rest(l, n)
    /\ UNCHANGED <<conn, links, seen, pend, bucket, store, sub, shown, again, made>>

-----------------------------------------------------------------------------
Incident(n) == {l \in Link : n \in Ends[l]}

Init == /\ conn = UpAtStart
        /\ links = [n \in Node |-> UpAtStart \cap Incident(n)]
        /\ chan = [e \in {e \in Link \X Node : e[2] \in Ends[e[1]]} |-> << >>]
        /\ seen = [n \in Node |-> << >>]
        /\ pend = [n \in Node |-> {}]
        /\ bucket = [n \in Node |-> [s \in Node |-> FullBucket]]
        /\ store = [n \in Node |-> {}]
        /\ sub = Subscribers
        /\ shown = [n \in Node |-> {}]
        /\ again = [n \in Node |-> {}]
        /\ made = [n \in Node |-> 0]
        /\ used = [ev \in Event |-> 0]

CommandStep(n) == \/ \E at \in Times[n] : send_channel_message(n, at)
                  \/ join_channel(n)
                  \/ panic_wipe(n)
                  \/ announce(n)

FrameStep(l, n) == \/ DropEarly(l, n)
                   \/ HearDuplicate(l, n)
                   \/ Throttle(l, n)
                   \/ Process(l, n)

Next == \/ \E n \in Node : \/ CommandStep(n)
                           \/ \E due \in SUBSET pend[n], k \in 0 .. Len(seen[n]) :
                                 Tick(n, due, k)
        \/ \E l \in Link : \/ Connect(l)
                           \/ Disconnect(l)
                           \/ \E n \in Ends[l] : \/ LinkUp(n, l)
                                                 \/ LinkDown(n, l)
                                                 \/ FrameStep(l, n)
                                                 \/ Lose(l, n)

Spec == Init /\ [][Next]_vars

\* The radio delivers, the platform reports links, and tick comes every
\* 250 ms, after which every jitter has passed.
Fairness ==
    /\ \A l \in Link : \A n \in Ends[l] :
          WF_vars(FrameStep(l, n)) /\ WF_vars(LinkUp(n, l)) /\ WF_vars(LinkDown(n, l))
    /\ \A n \in Node : WF_vars(Tick(n, pend[n], 0))

FairSpec == Spec /\ Fairness
-----------------------------------------------------------------------------
(***************************************************************************)
(* Properties.                                                             *)
(***************************************************************************)
Packet == [kind : Flooded \cup {"sync"}, src : Node, k : Nat, at : Nat]
Hop == [pkt : Packet, ttl : Nat, have : SUBSET Packet]

\* The queues, the caches, the buckets and the store hold what their types say.
TypeOK ==
    /\ conn \subseteq Link
    /\ \A n \in Node : /\ links[n] \subseteq Incident(n)
                       /\ seen[n] \in Seq([pkt : Packet, heard : Nat \ {0}])
                       /\ pend[n] \subseteq [pkt : Packet, ttl : Nat, link : Link]
                       /\ bucket[n] \in [Node -> [tokens : 0 .. Burst, grey : BOOLEAN]]
                       /\ store[n] \subseteq [pkt : Packet, ttl : Nat]
                       /\ again[n] \subseteq shown[n] /\ shown[n] \subseteq Packet
                       /\ made[n] \in Nat
    /\ \A e \in DOMAIN chan : chan[e] \in Seq(Hop)
    /\ sub \subseteq Node
    /\ used \in [Event -> Nat]

\* No user is shown a channel message twice, or its own: relayed copies, cycles
\* of the mesh and history sync do not get past the SeenCache.
ShownOnce == \A n \in Node : /\ again[n] = {}
                             /\ \A pkt \in shown[n] : pkt.src # n

\* A node is greylisted only after it has itself made more packets than a burst:
\* copies of a packet, over however many paths, cost its originator nothing.
OnlyFloodersGreylisted ==
    \A n, s \in Node : bucket[n][s].grey => made[s] > Burst

\* Room was needed for the messages S, or p was too old for one of them.
Outlived(p, S) ==
    LET later == {q \in S : q.kind = "chan" /\ q # p /\ q.at >= p.at}
    IN  \/ Cardinality(later) >= HistoryMax
        \/ HistoryMs > 0 /\ \E q \in later : q.at - p.at >= HistoryMs

PktsOf(q) == {q[k].pkt : k \in DOMAIN q}

\* What the SeenCache keeps a node from looking at again, the node holds, as
\* long as no entry expires and nobody wipes.  A message is missing only if its
\* originator made more packets than a burst (on_frame marks a packet seen
\* before it asks for the rate), or if messages the node has also seen, none of
\* them older, took its place by count or by age (put_channel_message): an older
\* message that arrives later, or a clock that is behind, drives no newer one out.
SeenMeansStored ==
    \A n \in Node : used["wipe"] = 0 /\ used["expire"] = 0 =>
        \A p \in PktsOf(seen[n]) : p.kind = "chan" =>
            \/ p \in channel_digests(n)
            \/ made[p.src] > Burst
            \/ Outlived(p, PktsOf(seen[n]))

\* However small the SeenCache, a flood comes to an end: each hop costs TTL.
FloodDies == <>[]Quiet

AllUp == \A n \in Node : links[n] = Incident(n)

Alike == \A m, n \in Node : channel_digests(m) = channel_digests(n)

\* The radio has taken nothing and broken no connection.
Intact == used["lose"] = 0 /\ used["disconnect"] = 0

\* Node n has yet to report link l, which another end m has reported.
Awaited(l, n, m) == l \in links[m] /\ l \in conn \ links[n]

\* While the radio is intact and no history is at its limit: once every link is
\* up at both ends and all nodes hold the same messages, what is sent from then
\* on comes to all of them; jitter, split-horizon and a SeenCache that takes
\* copies for new stop none.  That is so where the node on an only path does not
\* hear Threshold copies while its relay waits: suppression does not ask whose
\* copies they are, and in a denser mesh it cuts a node off.
\* And what was sent before is reconciled, one way: the end that is the later one
\* to report a link comes to hold what the other holds.  The earlier end may not,
\* as the later one drops the frames that come too soon, a sync request too.
Spreads ==
    /\ [](AllUp /\ Alike => []<>(Alike \/ ~Intact))
    /\ \A l \in Link \ UpAtStart : \A n \in Ends[l] : \A m \in Ends[l] \ {n} :
          Awaited(l, n, m) /\ n \in sub
              ~> channel_digests(m) \subseteq channel_digests(n) \/ ~Intact
=============================================================================

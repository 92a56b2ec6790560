------------------------------- MODULE Intake -------------------------------
(***************************************************************************)
(* What stands between a link and the handlers of a MeshNode, on the one   *)
(* clock they share: on_frame (crates/meshcore/src/node.rs) gives a frame  *)
(* to the Reassembler, looks the packet up in the SeenCache and asks the   *)
(* RateLimiter about its originator (crates/meshcore/src/relay.rs); tick   *)
(* drops what is too old.  The SeenCache at its capacity and the copies    *)
(* that it counts are the matter of ChannelMesh.                           *)
(*                                                                         *)
(* A bucket counts in parts of a token, RefillTime to the token, so that   *)
(* one part is refilled per unit of time.                                  *)
(***************************************************************************)
EXTENDS Reassembly

CONSTANTS
    Sender,       \* Sender[p]: the originator of packet p
    SeenTtl,      \* seen_cache_ttl_ms
    Burst,        \* rate_burst
    RefillTime,   \* the time to refill one token, 60000 / rate_sustained_per_min
    Greylist      \* greylist_ms

ASSUME RateAssumption == {SeenTtl, Burst, RefillTime, Greylist} \subseteq Nat \ {0}

VARIABLES
    seen,         \* the SeenCache: when each digest in it was first seen
    buckets,      \* the Bucket of each originator that has one
    taken         \* observer: the new packets, when they came and whether they were let in

vars == <<reassembly, seen, buckets, taken>>

-----------------------------------------------------------------------------
(***************************************************************************)
(* The RateLimiter.                                                        *)
(***************************************************************************)
FullBucket == [tokens |-> Burst * RefillTime, last |-> now, until |-> 0]
BucketOf(s) == IF s \in DOMAIN buckets THEN buckets[s] ELSE FullBucket

\* What has been refilled since the bucket was last looked at.
refill(b) == [b EXCEPT !.tokens = Min({@ + now - b.last, Burst * RefillTime}), !.last = now]

\* MUTANT: the end of the greylisting belongs to it.
Greylisted_AtEnd(b) == now <= b.until

Greylisted(b) == now < b.until

\* MUTANT: a packet that is let in leaves the time of the last refill as it was.
charge_KeepsLast(b) == [refill(b) EXCEPT !.tokens = @ - RefillTime, !.last = b.last]

\* A packet that is let in costs a token.
charge(b) == [refill(b) EXCEPT !.tokens = @ - RefillTime]

Affords(b) == ~Greylisted(b) /\ refill(b).tokens >= RefillTime

\* The bucket after a packet: one that is greylisted is not looked at further.
allow(b) == IF Greylisted(b) THEN b
            ELSE IF Affords(b) THEN charge(b)
            ELSE [refill(b) EXCEPT !.until = now + Greylist]

-----------------------------------------------------------------------------
(***************************************************************************)
(* The steps.                                                              *)
(***************************************************************************)
\* on_frame: a copy of a packet in the cache goes no further, and a packet that
\* the rate limiter refuses stays in the cache.
on_frame(p, f) ==
    LET b == BucketOf(Sender[p])
        new == HandsOn(p, f) /\ p \notin DOMAIN seen
    IN  /\ ingest(p, f)
        /\ IF new
           THEN /\ seen' = With(seen, p, now)
                /\ buckets' = With(buckets, Sender[p], allow(b))
                /\ taken' = Append(taken, [packet |-> p, at |-> now, in |-> Affords(b)])
           ELSE UNCHANGED <<seen, buckets, taken>>

\* MUTANT: the cache is emptied after the time of the Reassembler.
Forgotten_TooSoon == {p \in DOMAIN seen : now - seen[p] >= Timeout}

Forgotten == {p \in DOMAIN seen : now - seen[p] >= SeenTtl}

tick == /\ Forgotten \cup Expired # {}
        /\ seen' = Without(seen, Forgotten)
        /\ evict_expired
        /\ UNCHANGED <<buckets, taken>>

TimePasses == Advance /\ UNCHANGED <<seen, buckets, taken>>

Init == Empty /\ seen = << >> /\ buckets = << >> /\ taken = << >>

Next == \/ \E p \in Packet, mtu \in Mtu : \E f \in split(p, mtu) : on_frame(p, f)
        \/ tick
        \/ TimePasses

Spec == Init /\ [][Next]_vars

-----------------------------------------------------------------------------
(***************************************************************************)
(* Properties.                                                             *)
(***************************************************************************)
\* The slots are Partials within their limit, and no bucket holds more than a burst
\* or less than nothing.
TypeOK ==
    /\ SlotsOK
    /\ DOMAIN seen \subseteq Packet
    /\ \A s \in DOMAIN buckets :
          buckets[s] \in [tokens : 0 .. Burst * RefillTime, last : 0 .. now, until : Nat]

\* Which of the packets that came from the i-th to the j-th were of s and let in.
LetIn(s, i, j) == {k \in i .. j : taken[k].in /\ Sender[taken[k].packet] = s}

\* n packets since time t are more than a burst and the refill up to time u.
TooMany(n, t, u) == (n - Burst) * RefillTime > u - t

\* An originator is held to its rate: whatever it sends, over any time no more of
\* its packets are let in than a burst and what is refilled in that time, also
\* when a greylisting ends (RateLimiter::allow).
RateBound ==
    \A s \in {Sender[p] : p \in Packet} : \A i, j \in LetIn(s, 1, Len(taken)) :
        i <= j => ~TooMany(Cardinality(LetIn(s, i, j)), taken[i].at, taken[j].at)

\* An originator within its rate is never refused: a packet is refused only if it
\* would be one too many, or while a greylisting lasts that began with one too
\* many (RateLimiter::allow).
OneTooMany(k) ==
    \E i \in LetIn(Sender[taken[k].packet], 1, k - 1) :
        TooMany(Cardinality(LetIn(Sender[taken[k].packet], i, k - 1)) + 1,
                taken[i].at, taken[k].at)
OnlyOverRateRefused ==
    \A k \in DOMAIN taken : ~taken[k].in =>
        \E j \in 1 .. k : /\ Sender[taken[j].packet] = Sender[taken[k].packet]
                          /\ ~taken[j].in /\ OneTooMany(j)
                          /\ j = k \/ taken[k].at < taken[j].at + Greylist

\* A packet is looked at once in the lifetime of a cache entry, whole or in
\* fragments, let in or refused, and whatever copies of it come: a slot that a late
\* copy has opened never makes it new (SeenCache::observe, Reassembler::ingest).
LookedAtOnce ==
    \A j, k \in DOMAIN taken :
        j < k /\ taken[j].packet = taken[k].packet => taken[k].at - taken[j].at >= SeenTtl
=============================================================================

----------------------------- MODULE Reassembly -----------------------------
(***************************************************************************)
(* Link framing: split cuts the bytes of a packet into frames that fit the *)
(* MTU of a link, and one Reassembler per node puts the fragments of all   *)
(* its links together again (crates/meshcore/src/frag.rs).                 *)
(*                                                                         *)
(* A packet is a number, its digest, and the order of the numbers is the   *)
(* order of the digests in the BTreeMap.  A chunk is the range of bytes it *)
(* holds, <<from, to>>, from included and to not.  The neighbours that     *)
(* hold a packet send copies of it, each cut for the MTU of its link;      *)
(* fragments come in any order, more than once, or never.  The module      *)
(* Intake drives the Reassembler.                                          *)
(***************************************************************************)
EXTENDS Integers, FiniteSets, Sequences, SequencesExt, FiniteSetsExt

CONSTANTS
    Packet,       \* the digests, numbers
    Size,         \* Size[p]: the length of the encoded packet
    Mtu,          \* the MTUs of the links
    FragHeader,   \* FRAG_HEADER
    MaxTotal,     \* the largest number of fragments, u16::MAX
    Slots,        \* reassembly_slots
    Timeout,      \* reassembly_timeout_ms
    MaxBytes,     \* reassembly_max_bytes
    Scenarios     \* alternative bounds: how many frames come, of which packets, and the clock

ASSUME PacketAssumption == Packet \subseteq Nat /\ Size \in [Packet -> Nat \ {0}]
ASSUME LimitAssumption ==
    /\ Mtu \subseteq Nat
    /\ {FragHeader, MaxTotal, Slots, Timeout, MaxBytes} \subseteq Nat \ {0}
    /\ Scenarios \subseteq [frames : Nat, packets : SUBSET Packet, time : Nat]

VARIABLES
    slots,      \* the Partial of each digest that has one
    now,        \* the clock
    handed,     \* what was handed on: packets with the bytes put together
    frames,     \* how many frames have arrived
    arrived,    \* arrived[p]: the frames of p that have come
    dropped     \* the packets that lost a slot before it was complete

reassembly == <<slots, now, handed, frames, arrived, dropped>>

\* What has come by time t, with n frames and then one of packet p, is within one
\* of the scenarios.
Within(n, p, t) == \E s \in Scenarios :
                      /\ n <= s.frames /\ t <= s.time /\ p \in s.packets
                      /\ {q \in Packet : arrived[q] # {}} \subseteq s.packets

-----------------------------------------------------------------------------
(***************************************************************************)
(* split.                                                                  *)
(***************************************************************************)
chunk_size(mtu) == mtu - FragHeader

\* div_ceil
total_of(p, mtu) == (Size[p] + chunk_size(mtu) - 1) \div chunk_size(mtu)

chunk(p, mtu, i) ==
    <<i * chunk_size(mtu), Min({(i + 1) * chunk_size(mtu), Size[p]})>>

\* The frames split makes: none for an MTU below the header, one if the packet
\* and the kind byte fit, and else the fragments.
split(p, mtu) ==
    IF mtu <= FragHeader THEN {}
    ELSE IF Size[p] < mtu
    THEN {[kind |-> "complete", index |-> 0, total |-> 1, chunk |-> <<0, Size[p]>>]}
    ELSE IF total_of(p, mtu) > MaxTotal THEN {}
    ELSE {[kind |-> "fragment", index |-> i, total |-> total_of(p, mtu),
           chunk |-> chunk(p, mtu, i)] : i \in 0 .. total_of(p, mtu) - 1}

Length(c) == c[2] - c[1]

-----------------------------------------------------------------------------
(***************************************************************************)
(* The Reassembler.                                                        *)
(***************************************************************************)
Missing == <<0, 0>>      \* None

Fresh(total) == [total |-> total, received |-> 0, bytes |-> 0, first |-> now,
                 chunks |-> [i \in 0 .. total - 1 |-> Missing]]

Without(ss, P) == [p \in DOMAIN ss \ P |-> ss[p]]
With(ss, p, s) == [q \in DOMAIN ss \cup {p} |-> IF q = p THEN s ELSE ss[q]]

\* evict_oldest takes the first of the least first_seen_ms, in digest order.
Oldest(ss) ==
    {p \in DOMAIN ss : \A q \in DOMAIN ss :
        ss[p].first < ss[q].first \/ (ss[p].first = ss[q].first /\ p <= q)}

\* MUTANT: the room is made only when the slots are already too many.
Evicted_OneOver(p) ==
    IF p \notin DOMAIN slots /\ Cardinality(DOMAIN slots) > Slots THEN Oldest(slots) ELSE {}

\* Who loses its slot so that p can have one.
Evicted(p) ==
    IF p \notin DOMAIN slots /\ Cardinality(DOMAIN slots) >= Slots THEN Oldest(slots) ELSE {}

\* MUTANT: a fragment that is already held is counted again.
Filled_CountsCopies(s, f) ==
    [s EXCEPT !.chunks[f.index] = f.chunk, !.received = @ + 1,
              !.bytes = @ + Length(f.chunk)]

\* The slot with the fragment in it; one that is already held is ignored.
Filled(s, f) ==
    IF s.chunks[f.index] # Missing THEN s
    ELSE [s EXCEPT !.chunks[f.index] = f.chunk, !.received = @ + 1,
                   !.bytes = @ + Length(f.chunk)]

\* MUTANT: one fragment too many is waited for.
Complete_OneMore(s) == s.received > s.total

Complete(s) == s.received = s.total

\* The bytes of a complete slot, fragment after fragment.
Joined(s) == [k \in 1 .. s.total |-> s.chunks[k - 1]]

\* MUTANT: only the fragment is compared with the cap.
TooLarge_Alone(s, f) == s.chunks[f.index] = Missing /\ Length(f.chunk) > MaxBytes

TooLarge(s, f) == s.chunks[f.index] = Missing /\ s.bytes + Length(f.chunk) > MaxBytes

\* The slot of p, once there is room for it.
Entry(p, f) == IF p \in DOMAIN slots THEN slots[p] ELSE Fresh(f.total)

\* The fragment that makes its packet malformed: the slot goes.
Malformed(p, f) == Entry(p, f).total # f.total \/ TooLarge(Entry(p, f), f)

\* ingest returns the bytes of the packet.
HandsOn(p, f) == \/ f.kind = "complete"
                 \/ ~Malformed(p, f) /\ Complete(Filled(Entry(p, f), f))

ingest_fragment(p, f) ==
    LET room == Without(slots, Evicted(p))
        s == Filled(Entry(p, f), f)
    IN  /\ slots' = IF Malformed(p, f) \/ HandsOn(p, f) THEN Without(room, {p})
                    ELSE With(room, p, s)
        /\ handed' = IF HandsOn(p, f) THEN handed \cup {<<p, Joined(s)>>} ELSE handed
        /\ dropped' = dropped \cup Evicted(p) \cup (IF Malformed(p, f) THEN {p} ELSE {})

\* ingest: a complete frame is handed on as it is.
ingest(p, f) ==
    /\ Within(frames + 1, p, now)
    /\ frames' = frames + 1
    /\ arrived' = [arrived EXCEPT ![p] = @ \cup {f}]
    /\ IF f.kind = "complete"
       THEN /\ handed' = handed \cup {<<p, <<f.chunk>>>>}
            /\ UNCHANGED <<slots, dropped>>
       ELSE ingest_fragment(p, f)
    /\ UNCHANGED now

\* evict_expired, from tick: by the time of the first fragment.
Expired == {p \in DOMAIN slots : now - slots[p].first >= Timeout}

evict_expired ==
    /\ slots' = Without(slots, Expired)
    /\ dropped' = dropped \cup Expired
    /\ UNCHANGED <<now, handed, frames, arrived>>

Advance == /\ \E p \in Packet : Within(frames, p, now + 1)
           /\ now' = now + 1
           /\ UNCHANGED <<slots, handed, frames, arrived, dropped>>

Empty == /\ slots = << >>
         /\ now = 1
         /\ handed = {}
         /\ frames = 0
         /\ arrived = [p \in Packet |-> {}]
         /\ dropped = {}

-----------------------------------------------------------------------------
(***************************************************************************)
(* Properties.                                                             *)
(***************************************************************************)
Chunk == Nat \X Nat
Partial(total) == [total : {total}, received : Nat, bytes : Nat, first : Nat,
                   chunks : [0 .. total - 1 -> Chunk]]

\* The slots are Partials, no more than reassembly_slots of them.
SlotsOK ==
    /\ DOMAIN slots \subseteq Packet
    /\ \A p \in DOMAIN slots : slots[p].total \in Nat \ {0} /\ slots[p] \in Partial(slots[p].total)
    /\ Cardinality(DOMAIN slots) <= Slots
    /\ {now, frames} \subseteq Nat
    /\ dropped \subseteq Packet

\* The bytes of the chunks of a slot; a missing one has none.
HeldBytes(s) == LET sum[k \in 0 .. s.total] ==
                        IF k = 0 THEN 0 ELSE sum[k - 1] + Length(s.chunks[k - 1])
                IN  sum[s.total]

\* What a slot counts is what it holds: a complete slot never lingers, and none
\* holds more than reassembly_max_bytes, whatever copies and packets arrive.
CountsMatch ==
    \A p \in DOMAIN slots :
        LET s == slots[p]
            held == {i \in DOMAIN s.chunks : s.chunks[i] # Missing}
        IN  /\ s.received = Cardinality(held) /\ 0 < s.received /\ s.received < s.total
            /\ s.bytes = HeldBytes(s) /\ s.bytes <= MaxBytes

\* The chunks follow one another without a gap from the first byte to the last.
Whole(p, chunks) ==
    /\ chunks[1][1] = 0 /\ chunks[Len(chunks)][2] = Size[p]
    /\ \A k \in 1 .. Len(chunks) - 1 : chunks[k][2] = chunks[k + 1][1]

\* What the Reassembler hands on is the packet, however its fragments are
\* reordered, repeated and mixed with those of others.
HandedWhole == \A h \in handed : Whole(h[1], h[2])

\* A packet whose frames have all come over one link is handed on, unless its
\* slot was taken for another packet, timed out or refused as too large.
HandedWhenAllCame ==
    \A p \in Packet, mtu \in Mtu :
        /\ split(p, mtu) # {} /\ split(p, mtu) \subseteq arrived[p]
        /\ p \notin dropped
        => \E h \in handed : h[1] = p
=============================================================================

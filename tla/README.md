# A TLA+ development of Cockroach Chat

Cockroach Chat is a messenger over a Bluetooth mesh without infrastructure: every
phone is a node, packets are flooded, direct messages are encrypted end to end. The
program is a Rust core (`crates/meshcore`, with `crates/meshcore-store` for SQLite and
`crates/meshcore-ffi` for the bindings) under a Kotlin application (`android/app`).
This directory holds TLA+ models of that program, the TLC runs that check them on small
instances, and TLAPS proofs of the results that matter most.

## 1. Inventory of the system

The core is event driven and holds no thread of its own. The platform calls
`MeshNode` (`node.rs`) with a command of the user, a transport event (`LinkUp`,
`LinkDown`, `Frame`) or a `tick` every 250 ms; each call runs to its end under the one
mutex of the FFI layer and returns the frames to send and the events to show. So every
call into the core is one atomic action. Concurrency is between nodes, through packets,
and inside a phone between the callbacks of Android's Bluetooth stack (the GATT server,
each GATT client, the main thread): each first changes the transport's map of links and
then calls the core, in two separate steps.

| component | state | operations | what is hard | what makes it correct |
|---|---|---|---|---|
| direct messages (`node.rs`, `noise.rs`) | `noise_sessions`, `pending_dms`, `pending_inbound_dms`, `fp_to_eph`, `eph_keys`, `peer_static_dh`, `handshake_attempts`, `handshake_last_ms`, `resync_pending`, `notice_pending` | `send_dm`, `verify_peer`, `unverify_peer`, `forget_peer`, `start_dm_session`, `panic_wipe`, the handlers of announces, handshakes and ciphertexts, `retry_stalled_handshakes` | two ends start at once; one end restarts; packets lost, repeated, late; key changes; acks of exchanges that are over | ready ends share keys; a text arrives at most once; nonces are fresh; trust is the user's; nothing queued is left without a retry |
| flood relay (`relay.rs`, `node.rs`) | `SeenCache`, `RelayScheduler` | `observe`, `hear_count`, `evict_expired`, `schedule`, `due`, `maybe_relay`, `broadcast` | suppression and TTL against reach; eviction of digests while copies are in flight | everybody within the TTL gets a packet, once, and the flood dies out |
| rate limiter (`relay.rs`) | token bucket and greylist per originator | `allow` | order of charging and deduplicating; clock going backwards | an originator gets no more than the burst and the refill; nobody is greylisted for what others repeat |
| channels and history sync (`node.rs`, `channels.rs`) | joined channels, explicit sets of digests (`SyncFilter`) | `send_channel_message`, `join_channel`, `handle_channel`, `send_sync_requests`, `handle_sync_request` | history older than the flood; the two ends of a link report it at different moments | what a peer misses it is sent, and nobody is shown it twice |
| fragmentation (`frag.rs`) | one `Reassembler` for all links, slots by digest | `split`, `ingest`, `evict_expired` | fragments out of order, repeated, of several copies; slots and bytes at their limits; timeout | what comes out is what went in; memory stays within the limits |
| message store (`store.rs`, `meshcore-store`) | channel messages and digests, peers, threads, envelopes | `put_channel_message`, `has_message`, `channel_history`, `channel_digests`, `message_by_digest`, `upsert_peer`, `get_peer`, `list_peers`, `delete_peer`, `put_dm`, `dm_history`, `delete_dms`, `queue_envelope`, `take_envelopes`, `panic_wipe` | retention by count and by age, clocks that disagree, two implementations | both stores answer alike; limits hold; the newest is kept |
| links (`node.rs`, `BleMeshTransport.kt`) | the core's `links` with the tags `peer_eph` and `peer_fp`; the transport's map, `recentlyDeduped`, `retryCount` | `LinkUp`, `LinkDown`, `note_link_identity`, `dedup_links`; scan results, connection callbacks, `dropLinksForDevice`, `dropAllLinks`, `close` | each phone numbers its links itself; both ends close redundant links at once; callbacks interleave | one link per peer is kept; core and transport agree |
| application (`BleController.kt`, `KeyVault.kt`, `MeshForegroundService.kt`, `meshcore-ffi`) | the running node and its queue of events, the lists of the screen, badges, cooldowns, the ticker; on disk the vault, the keystore entry, the database, the preferences; the service | `startBle`, `stop`, `panicWipe`, `tickOnce`, `sendAnnounce`, `sendChannel`, `sendDm`, `verify`, `unverify`, `forget`, `setPetname`, `loadOrCreate`, `wipe`, `onStartCommand`, `new_persistent`, `poll_events` | the lists outlive the node; events are polled after the state behind them has changed, or lost with the node; a kill inside a start or a wipe; restarts by the system | the screen shows what the store holds; the secrets survive; after a wipe nothing comes back; the mesh runs when the user wants it |

Wire codec, compression, the configuration record, the user interface, APK sharing, the
loopback demo and the simulator keep no protocol state; `PROJECT.json` gives the reason
for each, and lists the hazards of the code line by line.

## 2. The modules

Two conventions are common to all of them. A definition that carries the name of a Rust
or Kotlin function is that function; capitalised actions are entry points and cases of
handlers. Events that users and the environment decide on are counted in `used`, and
`Scenarios` is a set of alternative bounds: an event may happen if the counts then stay
within at least one of them. One run so explores several combinations of events without
exploring all of them together, and a property can say which events it excludes.

### SessionPairing and DirectMessages

`SessionPairing` is the abstract specification: what Noise XX exchanges promise to a pair
of nodes whatever the nodes do. A session is a half of an exchange, described by the
ephemeral keys of both ends. Halves can be begun, answered, finished and dropped at any
time, packets can vanish.

`DirectMessages` is the direct-message half of `MeshNode`. `st[n][p]` is the row for peer
`p` of all the maps node `n` keeps by fingerprint, with what its store holds about `p`.

* State transformers (`begin_handshake`, `finish_session`, `decrypt_and_emit`,
  `queue_envelope`...) act on `st[n][p]`; what they send is collected in the field `out`,
  which `Commit` empties.
* Cryptography is abstracted to what binds packets to exchanges: every session draws a
  fresh ephemeral key from the counter `next`; msg2 is readable only by the initiator
  whose msg1 it answers, msg3 only by the responder whose msg2 it answers, a ciphertext
  only under the pair of keys it was made with, and a nonce below the expected one is
  refused. A responder that has read nothing yet takes any handshake packet for a msg1,
  as `snow` does; `FirstKey` says which 32 bytes it then reads as an ephemeral key.
* The mesh is a set of packets delivered in any order. A copy that gets past the
  `SeenCache` again is the bounded event `dup`; loss, in the air or by the rate limiter,
  is the bounded event `lose`.
* A thread counts how often each row is in it; eviction beyond `dm_history_max` is left
  to `MessageStores`.
* `Restart` keeps the store and loses the maps. `Upgrade` gives a node another X25519
  key, and `ReceiveStaleAnnounce` delivers announces made before it.
* `RetryStalledHandshake` needs an entry in `handshake_attempts` below `MaxAttempts`, a
  session that is not ready and a known address. If `handshake_last_ms` has an entry the
  retry normally waits until no packet between the two nodes is in flight (`RetryIsDue`:
  the backoff is longer than a round trip); a retry before that is the bounded event
  `late`. Without an entry the retry is due at once, as in the code.

### ChannelMesh

One public channel over a graph of links: `send_channel_message`, `join_channel`,
`panic_wipe`, `announce`, `LinkUp`, `LinkDown`, the cases of `on_frame` (a copy, a packet
over the rate, a packet to process, including `handle_channel`, `handle_sync_request` and
`maybe_relay`), and `Tick`. Abstractions:

* A packet is named by its digest, which does not cover the TTL, and is one frame; two
  nodes share at most one link; links deliver in order and may lose frames.
* The jitter of a rebroadcast is the choice of which pending ones a tick releases; above
  `relay_sparse_max` neighbours whether a packet is relayed is a choice too, since the
  code throws a coin.
* Time in the rate limiter is abstracted to how much of a bucket may have been refilled
  when it is next looked at (`Elapsed`); `Refills` says whether that may be anything,
  nothing or everything.
* Entries leave the `SeenCache` by capacity at any time, and by age (five minutes) only
  when nothing is in flight, because packets live for seconds.
* A channel message carries the time its sender's clock showed, one of `Times[n]`; clocks
  of different phones need not agree. `put_channel_message` keeps what the store on the phone,
  `SqliteStore`, keeps: it goes by age, counted from the message that arrives (`HistoryMs`), then
  by number, the oldest first (`HistoryMax`); of equal times any may go. How `MemoryStore`
  differs is the matter of `MessageStores`.
* Frames that come before the receiver has reported its link are dropped, as `linkFor` finds
  no link for them (`DropEarly`; section 5).

### MessageStores

`MemoryStore` and `SqliteStore` get the same operations in lockstep, and the properties
compare them. One channel; messages have distinct timestamps; a table that is always read
in the order of time and row id is a sequence in that order; the clock of the phone may be
set forward and back. SQL errors, which the code ignores, are left out.

### Reassembly and Intake

`Reassembly` is `split` and the `Reassembler`. A chunk is the range of bytes it holds, so
that joining chunks wrongly is visible. Fragments of several packets arrive in any order,
repeatedly or never; slots, bytes and the timeout are small constants.

`Intake` is what stands between a link and the handlers: `on_frame` gives a frame to the
Reassembler, looks the packet up in the `SeenCache` and asks the `RateLimiter` about its
originator, all on the one clock of the node; `tick` drops what is too old. A bucket counts
in parts of a token, `RefillTime` to the token, so that one part is refilled per unit of
time and the arithmetic is exact; the code uses `f64` (2000 ms to a token at the default
rate). The clock goes forward, as `clock.rs` promises. The observer `taken` records the
packets that were new, when they came and whether they were let in; the properties of the
rate are stated on it, by counting packets over every interval, and mention no bucket.

### AppController

The Android shell of one phone. The user, the service and the ticker act on the main
thread, one handler after the other; the Bluetooth threads bring announces, sessions, texts
and channel messages into the core at any time, and the screen learns of them when the
ticker polls the events. The four parts of the state and their counterparts:

* On disk: `kek`, the keystore entry; `vault`, whole or torn, with the key it is wrapped
  with; `db`, the key of the database and its rows; `onboarded`, the preference.
* `service`, which a kill leaves `"due"` for a restart if it was up.
* `node`: which store it works on, its queue of events, the peers it has heard, the
  sessions that are ready and the notices it owes.
* `ui`: the peers with their badges, the threads, the channel feeds. It outlives the node.

A start is one step, except that a kill may tear the vault while it is written
(`KillInCreate`). A wipe is one step for each persistent effect (`panicWipe`, `DropNode`,
`DeleteVault`, `DeleteDb`, `DeleteKek`, `ClearScreen`), with the Bluetooth threads and kills
between them. Random keys are one of two: a new key is only ever compared with the one it
replaces. Of the core the module has what the shell sees: the rows and the events of each
handler; how packets come to it is the matter of `ChannelMesh` and `DirectMessages`. So
`handle_channel` brings either a new message or one that is stored already (the event `again`):
`join` shows how that comes about, and a node that was stopped starts with an empty
`SeenCache`. Names,
the log, the language and relay counters are left out; there are two channels, the
announcements and one other. Retention is left to `MessageStores`, so no row goes by age or
number; the limit of 200 restored rows is the constant `Limit`. The wall clock of the cooldowns goes forward.

### RedundantLinks

How phones connect and how redundant links are closed, on both sides of the FFI. A
connection is `<<central, peripheral>>`. Because of BLE privacy a phone shows different
addresses in its two roles, so neither end can tell by address that two connections join
the same phones.

An *end* is the server of a peripheral, or a client (`BluetoothGatt`) of a central.
`onScanResult` looks only at the links that are entered (`BleMeshTransport.kt:347`), so every
scan result during an attempt makes another client to the same address; the first one counts
as the event `connect`, a further one as `again`. The connection stands while one of its clients is
connected. Each client enters a link of its own, the peripheral has one, and what looks up an
address (`linkFor`, `dropLinksForDevice`) means any or all of these links.

`owed` and `notice` hold what the platform has yet to tell servers and clients, `drop[n]` the
links that a callback has listed and not yet dropped, `call[n]` the calls of callbacks that have
changed the transport's map and wait for the mutex of the core. Callbacks of one thread do not
overlap, those of different threads do. The platform (`Establish`, `Loss`, `ToldServers`,
`ToldClients`...) is modelled from how the callbacks use it; what of it is not code of the
repository is marked external in the map.

## 3. The runs

| run | module | checks | with |
|---|---|---|---|
| `messages` | `DirectMessages` | `TypeOK`, `Agreement`, `AtMostOnce`, `NonceUsedOnce`, `FirstTextKept`, `SessionSurvives`, `ConfirmedIsVerified`, `LoudKeyChange`, `HeldOnlyWhileAway`, `UserOwnsTrust` | scenarios: two texts with a loss and a late retry, with a loss and a copy, with a loss and a restart; two texts and two manual starts; a text, a manual start and two scans; two scans, an unverify, a forget; a key change with a stale announce and an unverify; a key change followed by a second scan; two texts for an absent peer with a forget, a wipe and aged envelopes; petnames, scans, a forget and a restart |
| `retry` | `DirectMessages` | `GoesOutOrGivesUp` (liveness), `PairingSpec` (refinement) | one text with two losses and a restart, or with a loss and a key change; a manual start with a late retry and a copy |
| `redrive` | `DirectMessages` | `TickRedrives`, violated | two texts, a loss |
| `flood` | `ChannelMesh` | `TypeOK`, `ShownOnce`, `OnlyFloodersGreylisted`, `SeenMeansStored` | a triangle, buckets of one token, coins, a history of one message or one unit of time, a clock that is behind; two messages and a loss; or a message, a join, a wipe, an announce and expiry of cache entries; or a message while a link goes and comes |
| `spread` | `ChannelMesh` | `Spreads`, `FloodDies` (liveness) | a triangle and a fourth node; a message before, while or after its link comes up, or two messages without it; a `SeenCache` of one entry, buckets always full, a history that is never at its limit |
| `join` | `ChannelMesh` | `ShownOnce`, violated | a line of three nodes; the third misses a message, the second forgets its packet, and a link joins the third to the first |
| `stores` | `MessageStores` | `TypeOK`, `NewestRowsKept`, `EnvelopesHeld`, `StoresAgree` | four puts of three messages, two peers, threads and queues of two rows, the clock set twice, a wipe |
| `intake` | `Intake` | `TypeOK`, `HandedWhole`, `HandedWhenAllCame`, `CountsMatch`, `LookedAtOnce`, `RateBound`, `OnlyOverRateRefused` | six frames of four packets of one to five fragments, two slots, the timeout; or five frames of three packets of one originator over a longer time, with a burst of one, refill, greylisting and expiry of cache entries |
| `links` | `RedundantLinks` | `MapsAgree`, `OneLinkPerPeer`, `ClosesOnlyRedundant` | two phones; two connections with a loss, or with one closed as redundant and its cool-down; one with two failures, an announce, or Bluetooth switched off and on; two clients to one address with a failure, a loss or a Bluetooth switch |
| `both` | `RedundantLinks` | `KeepsALink`, violated | two phones that connect to each other |
| `app` | `AppController` | `BadgeTrue`, `WarningKept`, `NothingUnread`, `FeedTrue`, `ErasedForGood`, `Persists`, `MeshAsAsked`, `PostsSpaced` | scenarios: a contact that changes its key and is verified and unverified, across a stop; threads across a stop and a kill; a contact that is verified, forgotten and heard again; feeds across two stops, with a message that comes once more; secrets with two kills, a failing keystore and a wipe; posts with a stop, a wipe and the clock |
| `off` | `AppController` | `OffMeansOff`, violated | a start and a wipe |

Why the bounds are enough. `DirectMessages` has two nodes, because every map is kept per
peer and no handler of one peer touches the row of another; `MaxAttempts` is 2 and the caps
are 1 or 2, so that budgets and caps are reached; two texts are needed for order and for
nonces. `ChannelMesh` uses the smallest graph with a cycle, and for reach one with a cycle
and a node behind it; the TTL of 3 is one more than the diameter, so that reach depends on
relaying and not on the TTL. In `flood` the history holds one message and lasts one unit of
time, so that each of two messages can drive the other out, by number and by age, in either
order of arrival. `spread` has the threshold of the code, 3, with at most three neighbours: a
node there hears three copies of a packet only late, through copies that the `SeenCache` of one
entry took for new, so the run shows what jitter, split-horizon, eviction and sync do to reach,
and not that suppression is harmless; it is not (section 5). `MessageStores` puts more than
every limit takes. `Intake` has packets that just fit one frame, make two and three fragments, and
exceed the byte cap, and a clock that outlasts the timeout, a greylisting and the lifetime
of a cache entry, in this order. `AppController` has one peer, because every map of the shell
is kept per peer; a `Limit` of 2, which three rows exceed; and a clock that crosses a whole
second, the cooldown and the window. `RedundantLinks` has the two connections that can exist
between two phones, one reconnection, and two clients of one connection.

Symmetry is used in `messages` for the texts and in the `RedundantLinks` runs for the
phones (link ids belong to each phone, nothing orders the phones), never with liveness.
The `DirectMessages` runs check deadlock: a node always repeats its announce. The others
do not, because a mesh at rest, a store nobody uses, a finished transfer and a phone that
nobody touches may stop.

Fairness. In `DirectMessages` (`retry`, `redrive`): the platform ticks every node every
250 ms, packets that are not lost are delivered, and every node repeats its announce. In
`ChannelMesh` (`spread`): the radio delivers frames that are not lost, the
platform reports links, and `tick` comes every 250 ms, after which every jitter (at most
220 ms) has passed. Users and faults are never fair.

Every property of a passing run is also checked against a mutant of the code, listed in
`PROJECT.json` and marked `MUTANT` in the module: a dropped check, a missing reset, a
counter that does not advance. TLC finds each property violated by its mutant.

## 4. The proofs

TLAPS checks the following for every value of the constants: any number of nodes, texts,
packets, links and phones, any graph, and any bounds on how often users and faults act.
Every invariant that a proof needs was first checked by TLC on the run of its module.

### Direct messages

* `SessionPairingProofs!PairedTheorem` - in `SessionPairing` two ready ends hold the two
  halves of one exchange. "Both ready implies paired" is not inductive: a ready initiator
  may meet a peer that has already answered somebody else's packet. The invariant says of
  every msg2, every msg3 and every ready half where the *other* end can be: it still holds
  exactly the matching half, or holds a half with a younger ephemeral key, or none. Fresh
  keys are younger than all packets, so no old packet can ever complete a new half.
* `DirectMessagesProofs!TypeCorrect` - `Spec => []TypeOK`.
* `DirectMessagesProofs!ImplementsPairing` - every behaviour of the direct-message code,
  seen through the halves of its sessions and its msg2 and msg3 packets, is a behaviour of
  `SessionPairing`. The steps are classified once: a *pair step* changes one row, a *quiet
  step* changes no half and sends no bound packet, and restarts and wipes reset one node.
  The invariant `IInv` is `TypeOK` together with: nothing is left in `out`, own keys and
  the keys carried by packets are below `next`.
* `DirectMessagesProofs!AgreementTheorem` - `Spec => []Agreement`, from the refinement and
  `PairedTheorem`.
* `DeliveryProofs!NonceUsedOnceTheorem`, `AtMostOnceTheorem`, `ConfirmedTheorem`,
  `HeldTheorem` - the invariants `NonceUsedOnce`, `AtMostOnce`, `ConfirmedIsVerified` and
  `HeldOnlyWhileAway`.
* `DeliveryProofs!TrustTheorem`, `LoudTheorem` - the action properties `UserOwnsTrust` and
  `LoudKeyChange`.
* `DeliveryProofs!SessionStays`, `FirstTextTheorem` - the action property `SessionSurvives`
  and the invariant `FirstTextKept`.

The six theorems before these two rest on one invariant, `DInv` with `DeliveryInv`. Every step is either a
`MoveStep`, in which one row goes from `s` to `t` and adds some packets, or leaves rows and
packets alone (`Idle`), so each conjunct is proved once for moves and not once per handler.
`NonceInv` says that every ciphertext in the air or buffered under the keys of a session has
a nonce below the sending nonce of the end that made it, and that two of them with one nonce
are one. `TextInv` follows a text: what its sender still holds is in no ciphertext, it has at
most one ciphertext, and once it is in the thread of its recipient it is held no more and the
session of the recipient cannot read that ciphertext again. `TrustInv` does the same for the
ack and for the notice it answers: as long as one of the present session can still come, the
contact is verified. `KeyInv` says of whom a node has a session: a ready session has a
recorded peer, and the key of a session with a peer that was forgotten has never left the
node. None of the four invariants is inductive without these, because what reaches a thread
has left its sender many steps earlier.

The proof of `LoudKeyChange` corrected the property. Its first form, an invariant (a ready
session that is not bound to the announced key implies a marker in the thread), is false:
`verify_peer` deletes the markers (`node.rs:336`) while the session stays. What holds, and is
now checked and proved, is that the *step* that leaves the session bound to another key adds
a marker, and that nobody but the user takes a marker away.

The attempt to prove `FirstTextKept` corrected it too. It used to hold while the user scans
the peer; but the notice of a scan is a ciphertext as well, and when it overtakes a text the
nonce of the text is no longer accepted. No scenario of `messages` combined a send with a
scan; one does now, and the property says that nothing has been scanned.

`SessionStays` and `FirstTextTheorem` need an account of every handshake packet in a calm
mesh, one in which packets come in any order but none is lost, copied or late and nobody
drops a session. `CalmInv` gives it: two ends are always in one of four phases (`Phase`).
Neither has answered, and what is in flight offers the keys of the present halves
(`Opening`); one has answered, and the only other packet is an offer of its own that the
lower fingerprint will ignore (`Replied`); the initiator is ready and its msg3 is in flight
(`Closing`); both are ready (`Settled`). In the last two at most one packet is left over, a
msg1 that the ready initiator counts once, and the ciphertexts in flight are of this session.
So no ready session counts twice (`IgnorePhase`), no handshake packet is unreadable
(`NoStranger`), and no announce carries another key. Every step of a calm mesh is then a
`CalmStep` of one node about one peer (`CalmSteps`), and the phases need to be followed for
`PhaseMove` only. `MailInv` adds the texts, as long as nobody scans: whatever is held, in
flight or shown is in the thread of its sender; a session that has accepted a ciphertext has
shown a text; the only text of a thread is somewhere. The middle conjunct is what makes the
last one inductive: the only ciphertext is never refused for its nonce.

Both theorems assume `ResyncThreshold > 1`, which in the code is 2 (`node.rs:144`): at 1 the
packet that is left over would reset the session, and drop what waits. `FirstTextTheorem` also
assumes room for one envelope and one early ciphertext (100 and 32 in the code:
`config.rs:107`, `node.rs:668`).

### The intake

`IntakeProofs`, for any packets, MTUs and constants: `TypeCorrect`, which includes the
bounds on slots, bytes and tokens; `RateBoundTheorem` and `RefusedTheorem`, the two
directions of the rate (an originator gets no more than a burst and the refill over any
interval; it is refused only for one too many, or in the greylisting that this began);
`LookedAtOnceTheorem`; `HandedWhenAllCameTheorem`; `CountsTheorem`, the property
`CountsMatch`; and `HandedWholeTheorem`, what is handed on is the packet from its first byte
to its last.

The rate properties are about intervals that begin at any packet, the bucket knows only now.
`RateInv` therefore says, for each packet that was let in, that what was spent since and what
the bucket still has is at most a burst and the refill since then (`Fits`), that for one of
them it is exactly that (`Held`), and that a greylisting was begun by a packet too many
(`Refused`). `SeenInv` ties the cache to the times of the packets, `SlotsInv` the counters of
a slot to its chunks, `CameInv` the frames that came to the chunks of the slot.

`HandedWholeTheorem` has the hypothesis `CutAlike`: no two MTUs cut a packet into equally many
fragments. It holds whenever all links have one MTU, as on Android, where the shell reports
182 for every link. Without it the property is false: the slot knows only the number of
fragments, and copies cut at different places are mixed in it (section 5, `frag.rs:131`).

### The mesh

`MeshProofs`, over any graph of links and for any tunables: `TypeCorrect`, and
`ShownOnceTheorem`, `GreylistTheorem` and `SeenStoredTheorem`, of the form
`Spec => [](NothingForgotten => P)`. `NothingForgotten` says that no entry has left a
`SeenCache`, by age or because it was full. The condition cannot be dropped: `join` shows how
`ShownOnce` fails after five minutes, and a packet that is taken for new again is charged and
refused again. `flood` checks the three properties without the condition, on instances in
which no link comes up after an expiry.

The invariant is by node and by originator. `NumInv`: the packets of an originator in any
queue, cache or store are numbered below what it has made, and a number names one packet; so
there are no more of them than it made. `RowRate`: a bucket that is not greylisted has lost
no more tokens than there are packets of that originator in the cache, which is what makes
copies free. `RowShown`, `OwnSeen` and `RowStored`: what was shown, sent or stored is in the
cache, and what is in the cache is stored, was refused, or was driven out of the store.

`SeenMeansStored` says by what it may be driven out: by messages the node has seen too, none
of them older, as many as the history takes or one that is younger by the whole history
(`Outlived`). `PutFacts` shows this of one `put_channel_message`; `OutlivedMore`, that it
stays so when more is seen; `Left` and `StoredKept` carry it over a step. It does not depend on
how a tie is broken, nor on clocks that agree.

### The links

`LinksProofs`, for any number of phones and events: `OneLinkTheorem`, `MapsAgreeTheorem` and
`ClosesTheorem`, the properties `OneLinkPerPeer`, `MapsAgree` and `ClosesOnlyRedundant`.

`NetInv` is about the platform: clients, frames and links have the right shape, and without
the event `again` there is one client of a connection. `CoreInv` relates the transport to the
core through the calls that wait for the mutex. Some of it holds whatever happens (`Row`): link
ids are below the next one, a link that the transport has and the core has not is about to be
reported, the call that reports a link is the only one that does, a call that takes a link down
comes after the transport has forgotten it, and a tag is that of the phone at the other end
(`TrueTags`), resolved as soon as its key is known (`Tagged`). That is enough for
`OneLinkPerPeer`, for the first half of `MapsAgree` and for closing a link only for another one
to the same phone.

The rest is conditional. While there is one client of a connection no frame overtakes the call
that brings its link up, and a link that the core keeps without the transport (`Stale`) never gets
a tag (`Single`), so that it is never the link for which another one is closed. While Bluetooth
has not been switched either, there is no such link (`Calm`), which is the second half of
`MapsAgree`. Both conditions are in the properties, because the code does not keep them: section
5 has the traces.

### The stores

`StoresProofs`, for any messages, peers, clocks and limits: `TypeCorrect`, `NewestTheorem`,
`HeldTheorem` and `AgreeTheorem`, the four invariants of `MessageStores`, and `RestTheorem`,
that peers, threads and envelopes of the two stores are equal whatever the messages are.

`Only`, `Inserted` and `Newest` are what both stores do with a table; the lemmas about them
(`OnlyFacts`, `InsertedFacts`, `NewestFacts`: which elements, in which order, how many) carry
the proofs. `ThreadInv` says of a thread, beside all rows that were put, that it is sorted,
that nothing was dropped while all fit, and that what was dropped is not newer than what is
there; without the second conjunct the third is not inductive, because a row with an early
time may come late. `QueueInv` says that the envelopes are held in the order in which they
were queued, and that one that is gone from behind the first one held was found expired by a
later one. `Within` of `MemoryStore` saturates and `Younger` of `SqliteStore` does not; that
they decide alike (`SameAge`) needs that the window is not empty.

`AgreeTheorem` has the hypothesis `NoneTooOld`: no two messages are further apart than the
history reaches, or there is no limit by age. Without it the property is false: `MemoryStore`
keeps the digest of a message that goes by age (section 5, `store.rs:53`).

### The application

`ControllerProofs`, for any number of peers and any constants: `WellFormed`, the typing that
the other proofs need, and a theorem for each property of `app`: `BadgeIsTrue`,
`MeshIsAsAsked`, `StorePersists`, `ErasedIsGone`, `PostsAreSpaced`, `WarningStays` (the
property `WarningKept`), `AllIsRead` (`NothingUnread`) and `FeedIsTrue` (`FeedTrue`).

`TypeInv` includes what the handlers take for granted: a node on the database has one, and
none runs while a wipe deletes the files. Most steps are a `Move`: a running node goes from
one queue, store and screen to another, and `Effect` says what such a step keeps, once for all
handlers. What the screen does with *all* events of a poll, and what is left of a thread from
which rows are removed, are recursive functions; facts about them are proved with `UpTo`, the
induction along `0 .. N` for a set of numbers, which the provers can use because it has no
operator parameter.

* `MeshInv`: before any wipe, node and service go together, and the service is up or due
  exactly while the mesh is wanted.
* `StoreInv`: until a wipe is cut short or the keystore fails, the vault is whole, sealed under
  the key of the keystore, and opens the database that is there.
* `EarlierInv` and `ErasedInv`: every text that there is was made earlier, so no step can
  bring an erased one back as new; erased texts are not on the screen, in the store in use or
  in its queue of events, and not in a database that the vault opens. The last conjunct
  is the one that takes care of a wipe that was cut short: a node that works on a
  `MemoryStore` has a vault for *another* database than the one that is there, so no later
  start can open the old one.
* `PostInv`: the times that the controller keeps are the newest of all posts and those it has
  dropped are older than the window; the countdown of announcements is at zero only when the
  cooldown is over.
* `WarnInv`, `UnreadInv` and `ChanInv` follow the queue of events between the store and the
  screen, and have one shape: what a start would restore is on the screen, or an event that
  brings it waits. The order matters for the warning only. The event of a changed key does
  nothing for a contact that is not in the list, so `WarnInv` asks that the event that adds
  the contact is in front of it, and says of every recorded peer that it is in the list or
  comes to it. A start restores the threads of recorded peers only, so `UnreadInv` also says
  that texts are only received of these: a text comes over a session, a session needs a key,
  and whoever has a key is recorded. `ChanInv` says that the store has no message twice, and
  that of the messages that did not come to this node once more (`node.again`) none waits twice,
  or waits and is already shown, or is shown twice; a new one is younger than all there is
  (`EarlierInv`). The start of a node clears the list and empties `node.again`, which is why a
  repetition lasts until the next start and no longer.

For these three `Effect` says too little: it knows which texts a step may touch, not which
event comes with which row. `Tells` is the second description of a step, with the same use:
the step deals with contacts, hears a message of a channel, posts one, or is the poll. A step
about contacts either adds rows, every received text and every marker with its event
(`Adds`), or removes the control rows and builds the thread anew (`Purges`, for `verify` and
`unverify`), or forgets the peer. `Starts` and `Restored` describe a start, and `OtherSteps`
collects the steps that leave store, queue and screen alone or end the node.

### Assumptions

They are those of the modules, and TLC evaluates them in every run: fingerprints are totally
ordered (nodes of `DirectMessages` are naturals), texts are not control bodies, a link has
two different ends, limits and times are positive naturals, no phone is the blank tag of a
link.

### Only model-checked

* The liveness properties `GoesOutOrGivesUp`, `FloodDies` and `Spreads`: fairness and
  `ENABLED` are beyond the prover.

Every other property of a passing run is stated by a theorem.

## 5. Where the code and its documents disagree

Shown by a violated run:

* `redrive` - `send_dm`, when it finds a handshake under way, removes the peer's entry of
  `handshake_attempts`, and `retry_stalled_handshakes` iterates the keys of that map.
  The comment (`node.rs:320`) promises that `tick` re-drives the handshake promptly; in
  fact `tick` never does, and when the handshake packets are lost the texts wait for
  another event.
* `join` - the `SeenCache` forgets a packet after five minutes, the history keeps it for
  six hours, the answer to a sync request is relayed like a new packet, and
  `handle_channel` shows a message whether or not it was stored. A node that missed an old
  message and gets it over a new link makes the others see it again; the simulator's scenario
  (`scenarios.rs:158`) expects no digest to be delivered twice. On the phone `tickOnce` appends
  it to the list (`BleController.kt:381`), also after a restart, whose node has an empty
  `SeenCache`; `FeedTrue` excepts such a message until the next start.
* `both` - `dedup_links` keeps the link with the lowest id, and each end numbers its links
  itself: when two phones connect to each other, each gives the lower id to the incoming
  connection and closes the one the other keeps (`node.rs:909`, `node.rs:936`).
* `off` - the screen calls `panicWipe` on the controller (`App.kt:746`); nobody calls
  `MeshForegroundService.panic`, with which `docs/PROGRESS.md:158` has the service torn
  down. The service stays up with its notification, and because it is sticky the system
  starts the mesh again after a kill.

Seen while modelling, with no run of their own; the passing runs are set up beside them:

* A text held as an envelope is written to its own thread when it is sent and once more
  when the announce of the peer drains it (`node.rs:287`, `node.rs:997`).
* `verify_peer` deletes the markers of changed keys together with the notices and acks
  (`node.rs:336`), while the session stays ready and bound to the old key; the warning is gone
  and texts still go to that key until the next handshake. `LoudKeyChange` is a property of
  steps for that reason.
* An ack of the exchange before a second scan, still in flight, confirms the second one;
  `verify_peer` clears rows so that confirmation comes from the new exchange
  (`node.rs:333`). `ConfirmedIsVerified` does not depend on which exchange it was.
* The end of a connection that reports it first, in practice the peripheral
  (`BleMeshTransport.kt:260`), sends its announce and its sync request when the other end has
  no link yet; `linkFor` finds none there, both frames are dropped (`:276`, `:404`), and the
  request is not repeated. A new link so reconciles one way only, where `channels.rs:3` has
  it both ways: the end that reports it later comes to hold what the
  other holds. `Spreads` says just that.
* Suppression counts every copy, whoever sent it (`relay.rs:226`). A node on the only path to
  others that hears three copies while its relay waits drops it, and cuts them off; a clique of
  four with a node behind it is enough, and so is the graph of `spread` with a threshold of 2.
  `docs/protocol.md:95` leans on suppression because thinning "may drop the only path". After
  that only a sync request over a new link brings the message. `Spreads` is checked on a mesh
  that is too sparse for it, and says so.
* Both stores prune history by the timestamp of the message that arrives, so a sender whose
  clock is ahead empties the history of the others (`store.rs:141`, `docs/protocol.md:113`).
  What goes stays in the `SeenCache` for five minutes, in which no copy brings it back;
  `SeenMeansStored` names these messages (`Outlived`).
* `MemoryStore` keeps the digest of a message that it drops by age, says it has it, and
  refuses it from then on; `SqliteStore` looks for the row (`store.rs:53`, `store.rs:126`).
  `stores` has no message that is too old.
* Copies of a packet cut for two MTUs into equally many fragments are mixed in one slot
  (`frag.rs:131`). The Android shell reports 182 for every link, and `intake` has one MTU.
* The reassembly timeout runs from the first fragment, not from the last progress
  (`frag.rs:158`, `config.rs:15`).
* `dropAllLinks` may remove a link between the moment a callback enters it and the moment it
  tells the core, which then keeps it (`BleMeshTransport.kt:156`). `MapsAgree` says that the core
  has no such link up to the first Bluetooth switch.
* Every scan result during a connection attempt calls `connectGatt` again
  (`BleMeshTransport.kt:348`), and when one of the clients fails or is closed,
  `dropLinksForDevice` drops the links of all of them (`:417`), also one that another
  `onServicesDiscovered` has entered and not yet reported (`:392`, `:395`). The core then
  keeps a dead link with no Bluetooth switch involved, and `dedup_links` may close a good one
  for it. The second half of `MapsAgree` and the last condition of `ClosesOnlyRedundant` are
  stated up to the first such client. Without that `links` finds the first violated; the
  second takes two further clients and a failure, more than its scenarios allow.
* Of the links of several clients to one address only the one that `linkFor` finds is ever
  tagged (`:414`), so `dedup_links` never closes the others, where its comment has "exactly one
  link per peer identity" (`node.rs:909`). `OneLinkPerPeer` is about tagged links.
* The limit of five links is compared with registered links when a scan result arrives, so
  connections under way and incoming ones exceed it (`BleMeshTransport.kt:43`, `:347`).
* The clock that the shell gives to the core is the wall clock (`lib.rs:50`), where
  `clock.rs:3` says monotonic: when it is set back, `allow` moves `last_ms` back with it and
  refills the time until then twice (`relay.rs:141`).
* A wipe cut short between the vault and the database, or a keystore that fails once, leaves
  a database that the new secrets cannot open; from then on, until the next wipe, every start
  works on a `MemoryStore` without saying so (`KeyVault.kt:31`, `lib.rs:249`). `Persists`
  excepts just these two.
* The rows of a peer that was forgotten and wrote again before its next announce are stored,
  but `restoreContacts` goes by the list of peers and does not show them (`BleController.kt:165`,
  `node.rs:360`). `forget` also leaves the envelopes held for the peer and its queued events.
* A notice or an ack that is still queued when the user verifies or unverifies a contact sets
  `confirmed` afterwards, and a row that was stored and queued before `verify` rebuilds the
  thread is shown twice until the next start (`BleController.kt:319`, `:394`).
* `unverify` removes the marker of a changed key from the store and leaves the badge, which
  the comment on `keyChanged` ties to the marker, until the next start
  (`BleController.kt:27`, `:339`); and a restart after a key change shows `confirmed` again,
  which the event had taken back (`:173`, `:405`).
* `normalizeChannel` is to "mirror the core's normalization exactly" (`BleController.kt:434`);
  it removes one leading `#`, the core removes all of them (`channels.rs`).
* The documents' limit of 16 fragments per link (`docs/protocol.md:31`) is not implemented,
  their relay probabilities are not those of the code, the proof of work of identities is
  not enforced, and `rotate_eph` is never called.

## 6. What is not modelled, and the plan

Not modelled: pure encoding and compression, key derivation, the user interface, APK
sharing, the demo and the simulator (no state or no protocol); duty-cycling, advertising
and the connection attempts that outlive `stop()` of the transport; the buffer of the
platform that refuses a frame while another is being sent (external; its effect, loss, is a
step of the models); malformed frames; clocks that are set back, outside `MessageStores`.

Next, in this order:

1. The links under the mesh: `ChannelMesh` over several links per pair, with the closing of
   `RedundantLinks`.
2. Abstract specifications: a store that is a map with limits, implemented by both stores; a
   channel that broadcasts at most once, implemented by `ChannelMesh` without expiry.

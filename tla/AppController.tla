--------------------------- MODULE AppController ---------------------------
(***************************************************************************)
(* The Android shell of one phone: BleController, MeshForegroundService    *)
(* and KeyVault (android/app/src/main/java/chat/cockroach), the FFI that   *)
(* they call (crates/meshcore-ffi/src/lib.rs), and of the core what they   *)
(* see: its store and its queue of events.                                 *)
(*                                                                         *)
(* The user, the service and the ticker act on the main thread, one        *)
(* handler after the other; the Bluetooth threads bring packets into the   *)
(* core at any time, and the screen learns of them when the ticker polls   *)
(* the events.  The process may be killed between two handlers, while the  *)
(* vault is written and between the steps of a wipe; vault, keystore,      *)
(* database and preferences then remain.                                   *)
(*                                                                         *)
(* A text is a number, a key one of two: a random key is only ever         *)
(* compared with the one that it replaces.  Names and wording are left     *)
(* out.                                                                    *)
(***************************************************************************)
EXTENDS Integers, Sequences, SequencesExt, FiniteSets

CONSTANTS
    Peer,        \* fingerprints of other phones
    Limit,       \* rows that are restored of a thread or channel (200)
    Second,      \* clock units in a second (1000)
    Cooldown,    \* ANNOUNCE_COOLDOWN_S, in seconds
    Window,      \* CHANNEL_WINDOW_MS, in clock units
    Burst,       \* CHANNEL_BURST
    Scenarios    \* alternative bounds on how often each event happens

Event == {"start", "stop", "wipe", "kill", "keystore", "announce", "session",
          "receive", "channel", "again", "dm", "verify", "unverify", "forget", "petname",
          "post", "time"}

ASSUME ParameterAssumption == /\ {Limit, Second, Cooldown, Window, Burst} \subseteq Nat \ {0}
                              /\ Scenarios \subseteq [Event -> Nat]

VARIABLES
    kek,        \* the wrapping key in the Android keystore, or 0
    vault,      \* vault.bin: the wrapped database key
    db,         \* mesh.db: the key it is encrypted with and its rows
    onboarded,  \* the preference of that name
    service,    \* the foreground service: "down", "up" or "due" for a restart
    node,       \* the FfiMeshNode, or NoNode
    ui,         \* what the screen shows: peers, threads and feed
    wiping,     \* the next step of a panicWipe under way, or "no"
    ticking,    \* the ticker runs
    clock, last, cooldown, times,   \* now(), lastAnnounceMs, announceCooldown, channelSendTimes
    wanted,     \* observer: the user's last command was to start the mesh
    wiped,      \* observer: the texts that wipes have erased
    cut,        \* observer: a wipe was cut short between the vault and the database
    posted,     \* observer: when this process posted to each channel
    used        \* how often each bounded event has happened

disk == <<kek, vault, db, onboarded>>
timing == <<clock, last, cooldown, times, posted>>
seen == <<wanted, wiped, cut>>
vars == <<disk, service, node, ui, wiping, ticking, timing, seen, used>>

\* A bounded event: what has happened then is within one of the scenarios.
Spend(ev) == /\ \E s \in Scenarios : /\ used[ev] < s[ev]
                                     /\ \A e \in Event : used[e] <= s[e]
             /\ used' = [used EXCEPT ![ev] = @ + 1]

\* The next text: every event that makes one counts.
Text == 1 + used["receive"] + used["channel"] + used["dm"] + used["post"]

-----------------------------------------------------------------------------
(***************************************************************************)
(* The rows of a store, and the operations of the core on them.            *)
(***************************************************************************)
Channel == {"announce", "general"}
\* The kinds are "text", "notice", "ack" and "changed", the key-changed marker.
Row(mine, kind, text) == [mine |-> mine, kind |-> kind, text |-> text]
Control(r) == r.kind # "text"

EmptyRows == [verified |-> << >>, dms |-> [p \in Peer |-> << >>],
              held |-> [p \in Peer |-> << >>], chan |-> [c \in Channel |-> << >>]]
NoVault == [is |-> "none", kek |-> 0, key |-> 0]
NoDb == [key |-> 0, rows |-> EmptyRows]
NoNode == [where |-> "none"]
NoUi == [peers |-> << >>, threads |-> [p \in Peer |-> << >>],
         feed |-> [c \in Channel |-> << >>]]

With(f, k, v) == [x \in DOMAIN f \cup {k} |-> IF x = k THEN v ELSE f[x]]
Without(f, k) == [x \in DOMAIN f \ {k} |-> f[x]]

\* The elements of s that are in K, in their order.
Only(s, K) == LET kept[k \in 0 .. Len(s)] ==
                      IF k = 0 THEN << >>
                      ELSE IF s[k] \in K THEN Append(kept[k - 1], s[k]) ELSE kept[k - 1]
              IN  kept[Len(s)]

Newest(s) == IF Len(s) > Limit THEN SubSeq(s, Len(s) - Limit + 1, Len(s)) ELSE s

\* What the FFI reads of a store.
list_peers(r) == DOMAIN r.verified
dm_history(r, p) == Newest(r.dms[p])
channel_history(r, c) == Newest(r.chan[c])

\* The store that the node works on: the database, or a MemoryStore.
Store == IF node.where = "db" THEN db.rows ELSE node.mem
Up == node # NoNode

\* The node becomes n and its store r.
Commit(n, r) ==
    IF n.where = "db" THEN node' = n /\ db' = [db EXCEPT !.rows = r]
    ELSE node' = [n EXCEPT !.mem = r] /\ UNCHANGED db

put_dm(r, p, row) == [r EXCEPT !.dms[p] = Append(@, row)]
purge(r, p) == [r EXCEPT !.dms[p] = Only(@, {x \in ToSet(@) : ~Control(x)})]
peer_verified(r, p) == p \in DOMAIN r.verified /\ r.verified[p]
peer_or_new(r, p) == IF p \in DOMAIN r.verified THEN r
                     ELSE [r EXCEPT !.verified = With(@, p, FALSE)]

FfiEvent(type, p, kind, text) == [type |-> type, peer |-> p, kind |-> kind, text |-> text]
emit(n, evs) == [n EXCEPT !.events = @ \o evs]

-----------------------------------------------------------------------------
(***************************************************************************)
(* What the Bluetooth threads bring into the core, until the controller    *)
(* has let go of the node.  How packets get there, and the handshake, is   *)
(* the matter of ChannelMesh and DirectMessages.                           *)
(***************************************************************************)
Core == /\ Up
        /\ UNCHANGED <<kek, vault, onboarded, service, ui, wiping, ticking, timing, seen>>

\* handle_announce: a different key of a recorded peer leaves a marker; the peer
\* is recorded, and what was held for it is sent, which stores it once more.
handle_announce(p, key) ==
    LET r == Store
        changed == node.dh[p] \notin {0, key} /\ p \in DOMAIN r.verified
        marked == IF changed THEN put_dm(r, p, Row(FALSE, "changed", 0)) ELSE r
        sent == [peer_or_new(marked, p) EXCEPT
                    !.dms[p] = @ \o [k \in DOMAIN r.held[p] |-> Row(TRUE, "text", r.held[p][k])],
                    !.held[p] = << >>]
        told == IF changed THEN <<FfiEvent("changed", p, "changed", 0)>> ELSE << >>
    IN  /\ Core /\ Spend("announce")
        /\ Commit(emit([node EXCEPT !.dh[p] = key, !.known = @ \cup {p}],
                       Append(told, FfiEvent("appeared", p, "text", 0))),
                  sent)

\* finish_session: a session that is bound to the announced key pays the notice
\* owed; another is dropped.
finish_session(p, bound) ==
    LET pays == bound /\ p \in node.owed
    IN  /\ Core /\ node.dh[p] # 0 /\ Spend("session")
        /\ Commit(emit([node EXCEPT !.ready = IF bound THEN @ \cup {p} ELSE @ \ {p},
                                    !.owed = IF pays THEN @ \ {p} ELSE @],
                       <<FfiEvent("session", p, "text", 0)>>),
                  IF pays THEN put_dm(Store, p, Row(TRUE, "notice", 0)) ELSE Store)

\* decrypt_and_emit: the row is stored, the screen told, and a notice answered.
decrypt_and_emit(p, kind) ==
    LET text == IF kind = "text" THEN Text ELSE 0
        got == put_dm(Store, p, Row(FALSE, kind, text))
    IN  /\ Core /\ p \in node.ready /\ Spend("receive")
        /\ Commit(emit(node, <<FfiEvent("dm", p, kind, text)>>),
                  IF kind = "notice" THEN put_dm(got, p, Row(TRUE, "ack", 0)) ELSE got)

\* handle_channel: a message of a joined channel.  It is told whether or not it is
\* stored already: the SeenCache forgets, and that of a new node is empty.  The
\* age and the number of the rows kept is the matter of MessageStores.
handle_channel(c) ==
    /\ Core
    /\ \/ /\ Spend("channel")
          /\ Commit(emit(node, <<FfiEvent("message", c, "text", Text)>>),
                    [Store EXCEPT !.chan[c] = Append(@, Text)])
       \/ \E x \in ToSet(Store.chan[c]) :
             /\ Spend("again")
             /\ Commit(emit([node EXCEPT !.again = @ \cup {x}],
                            <<FfiEvent("message", c, "text", x)>>),
                       Store)

-----------------------------------------------------------------------------
(***************************************************************************)
(* What the screen shows.                                                  *)
(***************************************************************************)
Badge(verified, confirmed, keyChanged) ==
    [verified |-> verified, confirmed |-> confirmed, keyChanged |-> keyChanged]
NoBadge == Badge(FALSE, FALSE, FALSE)

\* upsertPeer never takes a badge back.
upsertPeer(u, p, b) ==
    LET old == IF p \in DOMAIN u.peers THEN u.peers[p] ELSE NoBadge
    IN  [u EXCEPT !.peers = With(@, p, [k \in DOMAIN b |-> old[k] \/ b[k]])]

showRow(u, p, row) == [u EXCEPT !.threads[p] = Append(@, row)]

\* One event that pollEvents returns; r is the store at that time.
Shown(u, ev, r) ==
    LET p == ev.peer
    IN  CASE ev.type = "message"  -> [u EXCEPT !.feed[p] = Append(@, ev.text)]
          [] ev.type \in {"appeared", "session"} ->
                upsertPeer(u, p, Badge(peer_verified(r, p), FALSE, FALSE))
          [] ev.type = "dm" ->
                showRow(upsertPeer(u, p, Badge(peer_verified(r, p),
                                               ev.kind \in {"notice", "ack"}, FALSE)),
                        p, Row(FALSE, ev.kind, ev.text))
          [] ev.type = "changed" ->
                LET v == showRow(u, p, Row(FALSE, "changed", 0))
                IN  IF p \in DOMAIN v.peers
                    THEN [v EXCEPT !.peers[p] = Badge(@.verified, FALSE, TRUE)]
                    ELSE v

\* All that pollEvents returns, one after the other.
ShownAll(u, evs, r) == LET after[k \in 0 .. Len(evs)] ==
                               IF k = 0 THEN u ELSE Shown(after[k - 1], evs[k], r)
                       IN  after[Len(evs)]

\* MUTANT: a thread that is still in memory is not reloaded.
restoreContacts_KeepsThread(u, r) ==
    LET P == list_peers(r)
        rows(p) == dm_history(r, p)
        Has(p, kinds) == \E k \in DOMAIN rows(p) : ~rows(p)[k].mine /\ rows(p)[k].kind \in kinds
    IN  [u EXCEPT !.peers = [p \in P |-> Badge(r.verified[p], Has(p, {"notice", "ack"}),
                                               Has(p, {"changed"}))],
                  !.threads = [p \in Peer |-> IF p \in P /\ @[p] = << >> THEN rows(p) ELSE @[p]]]

\* MUTANT: the warning is left to the event.
restoreContacts_NoMarker(u, r) ==
    LET P == list_peers(r)
        rows(p) == dm_history(r, p)
        Has(p, kinds) == \E k \in DOMAIN rows(p) : ~rows(p)[k].mine /\ rows(p)[k].kind \in kinds
    IN  [u EXCEPT !.peers = [p \in P |-> Badge(r.verified[p], Has(p, {"notice", "ack"}), FALSE)],
                  !.threads = [p \in Peer |-> IF p \in P THEN rows(p) ELSE @[p]]]

\* restoreContacts: the list is the store's; badges come from the rows restored.
restoreContacts(u, r) ==
    LET P == list_peers(r)
        rows(p) == dm_history(r, p)
        Has(p, kinds) == \E k \in DOMAIN rows(p) : ~rows(p)[k].mine /\ rows(p)[k].kind \in kinds
    IN  [u EXCEPT !.peers = [p \in P |-> Badge(r.verified[p], Has(p, {"notice", "ack"}),
                                               Has(p, {"changed"}))],
                  !.threads = [p \in Peer |-> IF p \in P THEN rows(p) ELSE @[p]]]

\* MUTANT: the retained list is not cleared before the history is added.
restoreHistory_Adds(u, r) ==
    [u EXCEPT !.feed = [c \in Channel |-> @[c] \o channel_history(r, c)]]

restoreHistory(u, r) == [u EXCEPT !.feed = [c \in Channel |-> channel_history(r, c)]]

-----------------------------------------------------------------------------
(***************************************************************************)
(* KeyVault and the start.                                                 *)
(***************************************************************************)
Fresh(old) == CHOOSE k \in {1, 2} : k # old

\* MUTANT: the keystore entry is made anew without a look for the old one.
kekOrNew_Always == Fresh(kek)

\* The keystore entry, made when there is none.
kekOrNew == IF kek = 0 THEN Fresh(vault.kek) ELSE kek

\* load, where works says whether the keystore does.
Loads(works) == works /\ vault.is = "whole" /\ vault.kek = kekOrNew

create == [is |-> "whole", kek |-> kekOrNew, key |-> Fresh(db.key)]

\* Any failure to load makes new secrets, over the old ones.
loadOrCreate(works) == IF Loads(works) THEN vault ELSE create

\* SqliteStore::open makes a database that is not there, and refuses another key.
open_sqlite(key) == db.key \in {0, key}

\* new_persistent: a database that cannot be opened is left as it is, and the
\* node works on a MemoryStore.  An observer: the texts that came to this node
\* though they were stored.
new_persistent(key) ==
    [where |-> IF open_sqlite(key) THEN "db" ELSE "memory", mem |-> EmptyRows,
     events |-> << >>, known |-> {}, dh |-> [p \in Peer |-> 0], ready |-> {}, owed |-> {},
     again |-> {}]

\* startBle when no node runs.
startBle(works) ==
    LET v == loadOrCreate(works)
        n == new_persistent(v.key)
        r == IF n.where = "db" THEN db.rows ELSE EmptyRows
    IN  /\ kek' = kekOrNew
        /\ vault' = v
        /\ db' = IF db.key = 0 THEN [key |-> v.key, rows |-> EmptyRows] ELSE db
        /\ node' = n
        /\ ui' = restoreContacts(restoreHistory(ui, r), r)
        /\ ticking' = TRUE

-----------------------------------------------------------------------------
(***************************************************************************)
(* The service and the process.                                            *)
(***************************************************************************)
Main == wiping = "no"
NoPosts == [c \in Channel |-> << >>]

setDisplayName ==
    /\ Main /\ ~onboarded
    /\ onboarded' = TRUE
    /\ UNCHANGED <<kek, vault, db, service, node, ui, wiping, ticking, timing, seen, used>>

\* onStartCommand without an action: the mesh is brought up, unless it is.
onStart(works) ==
    /\ Main
    /\ service' = "up"
    /\ IF Up THEN UNCHANGED <<kek, vault, db, node, ui, ticking>> ELSE startBle(works)
    /\ UNCHANGED <<onboarded, wiping, timing, wiped, cut>>

\* The user starts the mesh, from the screen that shows that it is off.
UserStart(works) ==
    /\ onboarded /\ ~Up /\ Spend(IF works THEN "start" ELSE "keystore")
    /\ onStart(works)
    /\ wanted' = TRUE

\* The system restarts a sticky service, without an intent.
SystemRestart ==
    /\ service = "due"
    /\ onStart(TRUE)
    /\ UNCHANGED <<wanted, used>>

\* MUTANT: the service is not sticky.
Die_NotSticky(s) ==
    /\ Spend("kill")
    /\ node' = NoNode /\ ui' = NoUi /\ wiping' = "no" /\ ticking' = FALSE
    /\ last' = 0 /\ cooldown' = 0 /\ times' = << >> /\ posted' = NoPosts
    /\ service' = "down"
    /\ UNCHANGED <<onboarded, clock, wiped>>

\* The process is killed: what it had in memory is lost, and a service that was
\* up, which returned START_STICKY, is due for a restart.
Die(s) ==
    /\ Spend("kill")
    /\ node' = NoNode /\ ui' = NoUi /\ wiping' = "no" /\ ticking' = FALSE
    /\ last' = 0 /\ cooldown' = 0 /\ times' = << >> /\ posted' = NoPosts
    /\ service' = s
    /\ UNCHANGED <<onboarded, clock, wiped>>

Kill ==
    /\ ticking
    /\ Die(IF service = "down" THEN "down" ELSE "due")
    /\ cut' = (cut \/ wiping = "db")
    /\ UNCHANGED <<kek, vault, db, wanted>>

\* It is killed while a start writes new secrets: half a vault is left.
KillInCreate ==
    /\ Main /\ onboarded /\ ~Up /\ loadOrCreate(TRUE) # vault
    /\ Die("due")
    /\ kek' = kekOrNew
    /\ vault' = [vault EXCEPT !.is = "torn"]
    /\ wanted' = TRUE
    /\ UNCHANGED <<db, cut>>

\* ACTION_STOP, from the notification.
stop ==
    /\ Main /\ service = "up" /\ Spend("stop")
    /\ node' = NoNode
    /\ service' = "down"
    /\ wanted' = FALSE
    /\ UNCHANGED <<disk, ui, wiping, ticking, timing, wiped, cut>>

-----------------------------------------------------------------------------
(***************************************************************************)
(* panicWipe, one persistent effect at a time.  The screen calls it on the *)
(* controller itself: ACTION_PANIC, which would also stop the service, is  *)
(* sent by nobody.                                                         *)
(***************************************************************************)
\* The texts; the 0 of a row stands for none.
RowTexts(f) == UNION {{row.text : row \in ToSet(f[p])} : p \in Peer}
Lists(f) == UNION {ToSet(f[x]) : x \in DOMAIN f}
StoreTexts(r) == (RowTexts(r.dms) \cup Lists(r.held) \cup Lists(r.chan)) \ {0}
UiTexts == (RowTexts(ui.threads) \cup Lists(ui.feed)) \ {0}

WipeStep(step, next) == wiping = step /\ wiping' = next

\* MUTANT: the threads stay in the store until the database is deleted.
panic_wipe_ButDms(r) == [EmptyRows EXCEPT !.dms = r.dms]

panic_wipe(r) == EmptyRows

\* node?.panicWipe(): the rows and the session state go, and the queued events.
panicWipe ==
    /\ onboarded /\ Up /\ Spend("wipe")
    /\ WipeStep("no", "node")
    /\ Commit([new_persistent(0) EXCEPT !.where = node.where], panic_wipe(Store))
    /\ wanted' = FALSE
    /\ wiped' = wiped \cup UiTexts \cup StoreTexts(Store)
    /\ UNCHANGED <<kek, vault, onboarded, service, ui, ticking, timing, cut>>

DropNode ==
    /\ WipeStep("node", "vault")
    /\ node' = NoNode
    /\ UNCHANGED <<disk, service, ui, ticking, timing, seen, used>>

\* KeyVault.wipe deletes the vault, the database and the keystore entry.
DeleteVault ==
    /\ WipeStep("vault", "db")
    /\ vault' = NoVault
    /\ UNCHANGED <<kek, db, onboarded, service, node, ui, ticking, timing, seen, used>>

DeleteDb ==
    /\ WipeStep("db", "kek")
    /\ db' = NoDb
    /\ UNCHANGED <<kek, vault, onboarded, service, node, ui, ticking, timing, seen, used>>

DeleteKek ==
    /\ WipeStep("kek", "screen")
    /\ kek' = 0
    /\ UNCHANGED <<vault, db, onboarded, service, node, ui, ticking, timing, seen, used>>

\* The preferences and the screen.  lastAnnounceMs and channelSendTimes stay.
ClearScreen ==
    /\ WipeStep("screen", "no")
    /\ onboarded' = FALSE
    /\ ui' = NoUi
    /\ cooldown' = 0
    /\ posted' = [posted EXCEPT !["announce"] = << >>]
    /\ UNCHANGED <<kek, vault, db, service, node, ticking, clock, last, times, seen, used>>

-----------------------------------------------------------------------------
(***************************************************************************)
(* The ticker, and what the user does in the mesh shell.                   *)
(***************************************************************************)
\* MUTANT: the seconds that have passed are rounded up.
remaining_RoundsUp == LET left == Cooldown - (clock - last + Second - 1) \div Second
                      IN  IF left > 0 THEN left ELSE 0

\* updateCooldown: whole seconds left, rounded up.
remaining == LET left == Cooldown - (clock - last) \div Second
             IN  IF left > 0 THEN left ELSE 0

Recent == Only(times, {t \in ToSet(times) : clock - t < Window})

Tick ==
    /\ Main /\ ticking
    /\ ui' = IF Up THEN ShownAll(ui, node.events, Store) ELSE ui
    /\ node' = IF Up THEN [node EXCEPT !.events = << >>] ELSE node
    /\ cooldown' = IF last = 0 THEN cooldown ELSE remaining
    /\ times' = Recent
    /\ UNCHANGED <<disk, service, wiping, ticking, clock, last, posted, seen, used>>

TimePasses ==
    /\ Spend("time")
    /\ clock' = clock + 1
    /\ UNCHANGED <<disk, service, node, ui, wiping, ticking, last, cooldown, times, posted, seen>>

Shell == /\ Main /\ onboarded /\ Up
         /\ UNCHANGED <<kek, vault, onboarded, service, wiping, ticking, clock, seen>>

\* What a send does to the core and to the screen.
Post(c) ==
    /\ Shell /\ Spend("post")
    /\ Commit(node, [Store EXCEPT !.chan[c] = Append(@, Text)])
    /\ ui' = [ui EXCEPT !.feed[c] = Append(@, Text)]
    /\ posted' = [posted EXCEPT ![c] = Append(@, clock)]

sendAnnounce ==
    /\ cooldown = 0
    /\ Post("announce")
    /\ last' = clock /\ cooldown' = Cooldown
    /\ UNCHANGED times

sendChannel ==
    /\ Len(Recent) < Burst
    /\ Post("general")
    /\ times' = Append(Recent, clock)
    /\ UNCHANGED <<last, cooldown>>

\* A contact is changed by one call of the core and then on the screen.
Contact(ev, n, r, u) == /\ Shell /\ Spend(ev)
                        /\ Commit(n, r) /\ ui' = u
                        /\ UNCHANGED <<last, cooldown, times, posted>>

\* send_dm stores the text first; it is held when the peer is out of reach.
sendDm(p) ==
    /\ p \in DOMAIN ui.peers
    /\ Contact("dm", node,
               [put_dm(Store, p, Row(TRUE, "text", Text)) EXCEPT
                   !.held[p] = IF p \in node.ready \cup node.known THEN @ ELSE Append(@, Text)],
               showRow(ui, p, Row(TRUE, "text", Text)))

\* verify: verify_peer, start_dm_session, and a thread rebuilt from the store
\* with a notice of our own at its end.
verify(p) ==
    LET ready == p \in node.ready
        trusted == purge([peer_or_new(Store, p) EXCEPT !.verified[p] = TRUE], p)
        r == IF ready THEN put_dm(trusted, p, Row(TRUE, "notice", 0)) ELSE trusted
        n == [node EXCEPT !.owed = IF ready THEN @ \ {p} ELSE @ \cup {p}]
        u == upsertPeer(ui, p, Badge(TRUE, FALSE, FALSE))
    IN  Contact("verify",
                IF ready THEN emit(n, <<FfiEvent("session", p, "text", 0)>>) ELSE n, r,
                [u EXCEPT !.peers[p] = Badge(@.verified, FALSE, FALSE),
                          !.threads[p] = Append(dm_history(r, p), Row(TRUE, "notice", 0))])

\* MUTANT: the badge is left to upsertPeer, which takes none back.
Unverified_Upsert(u, p) == upsertPeer(u, p, NoBadge)

Unverified(u, p) == [u EXCEPT !.peers[p] = Badge(FALSE, FALSE, @.keyChanged)]

unverify(p) ==
    LET r == purge([Store EXCEPT !.verified = [q \in DOMAIN @ |-> @[q] /\ q # p]], p)
        u == [ui EXCEPT !.threads[p] = dm_history(r, p)]
    IN  /\ p \in DOMAIN ui.peers
        /\ Contact("unverify", [node EXCEPT !.ready = @ \ {p}, !.owed = @ \ {p}], r,
                   Unverified(u, p))

\* forget leaves the envelopes that are held for the peer, and its announced key.
forget(p) ==
    /\ p \in DOMAIN ui.peers
    /\ Contact("forget",
               [node EXCEPT !.ready = @ \ {p}, !.owed = @ \ {p}, !.known = @ \ {p}],
               [Store EXCEPT !.verified = Without(@, p), !.dms[p] = << >>],
               [ui EXCEPT !.peers = Without(@, p), !.threads[p] = << >>])

setPetname(p) ==
    /\ p \in DOMAIN ui.peers
    /\ Contact("petname", node, peer_or_new(Store, p),
               upsertPeer(ui, p, Badge(peer_verified(Store, p), FALSE, FALSE)))

-----------------------------------------------------------------------------
Init ==
    /\ kek = 0 /\ vault = NoVault /\ db = NoDb /\ onboarded = FALSE
    /\ service = "down" /\ node = NoNode /\ ui = NoUi
    /\ wiping = "no" /\ ticking = FALSE
    /\ clock = 1 /\ last = 0 /\ cooldown = 0 /\ times = << >> /\ posted = NoPosts
    /\ wanted = FALSE /\ wiped = {} /\ cut = FALSE
    /\ used = [e \in Event |-> 0]

Next ==
    \/ setDisplayName \/ SystemRestart \/ stop \/ Kill \/ KillInCreate
    \/ \E works \in BOOLEAN : UserStart(works)
    \/ panicWipe \/ DropNode \/ DeleteVault \/ DeleteDb \/ DeleteKek \/ ClearScreen
    \/ Tick \/ TimePasses \/ sendAnnounce \/ sendChannel
    \/ \E c \in Channel : handle_channel(c)
    \/ \E p \in Peer : \/ \E key \in {1, 2} : handle_announce(p, key)
                       \/ \E bound \in BOOLEAN : finish_session(p, bound)
                       \/ \E kind \in {"text", "notice", "ack"} : decrypt_and_emit(p, kind)
                       \/ sendDm(p) \/ verify(p) \/ unverify(p) \/ forget(p) \/ setPetname(p)

Spec == Init /\ [][Next]_vars

-----------------------------------------------------------------------------
(***************************************************************************)
(* Properties.                                                             *)
(***************************************************************************)
\* The events of a type that wait for the ticker, by their place in the queue.
Queued(type) == {k \in DOMAIN node.events : node.events[k].type = type}
ShownOrQueued(p, row) ==
    \/ row \in ToSet(ui.threads[p])
    \/ \E k \in Queued("dm") : node.events[k].peer = p /\ node.events[k].text = row.text

\* The peers shown as verified are the ones that the store has as verified: the
\* badge is neither lost on the way through events, restarts and forgotten
\* contacts nor kept after the trust was taken back (upsertPeer, unverify,
\* restoreContacts).
BadgeTrue ==
    Up /\ Main => \A p \in Peer :
        (p \in DOMAIN ui.peers /\ ui.peers[p].verified) <=> peer_verified(Store, p)

\* Downgrades are loud: a marker of a changed key that is among the rows restored
\* is shown at its contact, or on its way there, also after a restart that lost
\* the event (handle_announce, tickOnce, restoreContacts).
WarningKept ==
    Up /\ Main => \A p \in DOMAIN Store.verified :
        Row(FALSE, "changed", 0) \in ToSet(dm_history(Store, p)) =>
            \/ p \in DOMAIN ui.peers /\ ui.peers[p].keyChanged
            \/ \E k \in Queued("changed") : node.events[k].peer = p

\* No text is stored and never shown: the texts received that are among the rows
\* restored are in the thread or in the queue, though a stop or a kill drops the
\* queue (stop, restoreContacts).  A forgotten contact is excepted.
NothingUnread ==
    Up /\ Main /\ used["forget"] = 0 => \A p \in Peer :
        \A row \in ToSet(dm_history(Store, p)) :
            row.kind = "text" /\ ~row.mine => ShownOrQueued(p, row)

\* The channel list is the store's: the newest messages are shown, or queued to be,
\* and none is there twice, though the list outlives the node and its history is
\* reloaded into it ("clear first so a restart doesn't duplicate",
\* BleController.kt:151).  The exception is a message that came to the running
\* node though it was stored, which handle_channel tells and tickOnce appends once
\* more: it stays twice on the screen until the next start, and no longer.  (Here
\* no row leaves the store by its age or their number.)
FeedTrue ==
    Up /\ Main => \A c \in Channel :
        LET feed(x) == {k \in DOMAIN ui.feed[c] : ui.feed[c][k] = x}
            coming(x) == {k \in Queued("message") : node.events[k].text = x}
            shown(x) == Cardinality(feed(x)) + Cardinality(coming(x))
        IN  /\ \A x \in ToSet(Store.chan[c]) \ node.again : shown(x) <= 1
            /\ \A x \in ToSet(channel_history(Store, c)) : shown(x) >= 1

\* What a wipe has erased does not come back: from the start of panicWipe no text
\* that there was is in a store that can be opened, and none is shown once it is
\* done, wherever the wipe is cut short and whatever is started after it.  This is
\* about what the phone itself keeps: a text of a channel that a neighbour still
\* has may come back with its history sync, as a new message.
ErasedForGood ==
    /\ Main => wiped \cap UiTexts = {}
    /\ Up => wiped \cap StoreTexts(Store) = {}
    /\ vault.is = "whole" /\ vault.kek = kek /\ vault.key = db.key
            => wiped \cap StoreTexts(db.rows) = {}

\* The node keeps its state: it falls back to a MemoryStore only when a wipe was
\* cut short between the vault and the database, or when the keystore failed
\* (loadOrCreate, new_persistent).
Persists == Up /\ ~cut /\ used["keystore"] = 0 => node.where = "db"

\* The mesh does what the user last asked for: while it is wanted the node runs or
\* the system is about to restart the service, and after a stop neither is the
\* case.  A wipe is excepted, see OffMeansOff.
MeshAsAsked ==
    Main /\ used["wipe"] = 0 =>
        /\ wanted <=> Up \/ service = "due"
        /\ wanted <=> service # "down"

\* The limits on posts hold between any two posts of a process, across stops and
\* starts: announcements a cooldown apart, and at most a burst to a channel within
\* a window (sendAnnounce, sendChannel, updateCooldown).  A wipe sets the cooldown to
\* zero, so announcements are compared up to a wipe and after it, never across it.
PostsSpaced ==
    LET a == posted["announce"]
        g == posted["general"]
    IN  /\ \A k \in 2 .. Len(a) : a[k] - a[k - 1] >= Cooldown * Second
        /\ \A k \in Burst + 1 .. Len(g) : g[k] - g[k - Burst] >= Window

\* The documentation says that a wipe ends with "service tears down": when the
\* mesh is not wanted, no service is up or due and no node runs.
OffMeansOff == Main /\ ~wanted => service = "down" /\ ~Up
=============================================================================

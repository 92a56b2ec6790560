--------------------------- MODULE RedundantLinks ---------------------------
(***************************************************************************)
(* How phones connect and how redundant links are closed: the transport of *)
(* the Android shell (android/.../ble/BleMeshTransport.kt), its callbacks  *)
(* into MeshNode, and note_link_identity and dedup_links of                *)
(* crates/meshcore/src/node.rs.                                            *)
(*                                                                         *)
(* Every phone scans and advertises, so two phones may hold two            *)
(* connections, one in each direction; a connection is <<c, p>>, central   *)
(* and peripheral.  A phone shows one address when it advertises and       *)
(* another when it connects (BLE privacy), so neither end can tell by      *)
(* addresses that the connections join the same phones.                    *)
(*                                                                         *)
(* connectGatt makes a client, and a scan result looks only at the links   *)
(* that are entered, so a central may have several clients of one          *)
(* connection.  It stands while one of them is connected, and each enters  *)
(* a link of its own for the same address; the peripheral has one.         *)
(*                                                                         *)
(* The platform runs the callbacks of the GATT server, of each GATT client *)
(* and of the system broadcasts on threads of their own; a callback first  *)
(* changes the transport's map and then calls the core, whose mutex makes  *)
(* each of its handlers one step.  call[n] holds the calls on their way.   *)
(***************************************************************************)
EXTENDS Integers, Sequences, FiniteSets

CONSTANTS
    Node,
    MaxLinks,     \* BleConstants.MAX_LINKS
    MaxRetry,     \* retries after a status 133
    Scenarios     \* alternative bounds on how often each event happens

Event == {"connect", "again", "fail", "loss", "toggle", "cooled", "announce"}

ASSUME LimitAssumption == /\ {MaxLinks, MaxRetry} \subseteq Nat \ {0}
                          /\ Scenarios \subseteq [Event -> Nat]

VARIABLES
    trying,    \* the clients that are connecting
    live,      \* the clients that are connected
    retry,     \* retryCount
    owed,      \* owed[c]: what the platform has yet to tell the server of c
    notice,    \* what it has yet to tell the clients
    tmap,      \* tmap[n]: the transport's links: link id -> end of a connection
    next,      \* next[n]: nextLink
    core,      \* core[n]: the core's links: link id -> [eph, fp] it is tagged with
    known,     \* known[n]: the phones whose announce n has (eph_keys)
    cool,      \* cool[n]: recentlyDeduped
    call,      \* call[n]: calls into the core under way
    drop,      \* drop[n]: the links that a callback has yet to drop
    on,        \* the phones whose Bluetooth is on
    air,       \* the frames in the air
    met,       \* pairs of phones that both had a link to the other
    used       \* how often each bounded event has happened

vars == <<trying, live, retry, owed, notice, tmap, next, core, known, cool, call, drop,
          on, air, met, used>>

Conn == {c \in Node \X Node : c[1] # c[2]}
Other(c, n) == IF c[1] = n THEN c[2] ELSE c[1]
Nobody == "nobody"

ASSUME NodeAssumption == Nobody \notin Node

\* An end of a connection: the server of its peripheral, which is number 0, or a
\* client of its central.
End(c, i) == [conn |-> c, no |-> i]
Server(c) == End(c, 0)
At(e) == IF e.no = 0 THEN e.conn[2] ELSE e.conn[1]

\* The connections of the clients up, and whether an end is connected.
Est(up) == {k.conn : k \in up}
Stands(e, up) == IF e.no = 0 THEN e.conn \in Est(up) ELSE e \in up

\* A bounded event: what has happened then is within one of the scenarios.
Spend(ev) == /\ \E s \in Scenarios : /\ used[ev] < s[ev]
                                     /\ \A e \in Event : used[e] <= s[e]
             /\ used' = [used EXCEPT ![ev] = @ + 1]

Without(f, S) == [k \in DOMAIN f \ S |-> f[k]]
With(f, k, v) == [x \in DOMAIN f \cup {k} |-> IF x = k THEN v ELSE f[x]]

-----------------------------------------------------------------------------
(***************************************************************************)
(* The platform.  It tells a server, and a client, one thing after the     *)
(* other; a thread takes the next when its earlier callback has returned.  *)
(***************************************************************************)
Thread(e) == IF e.no = 0 THEN <<"server">> ELSE <<"client", e>>
Calling(n, thread) == \E x \in call[n] : x.thread = thread
Idle(n, thread) == ~Calling(n, thread) /\ \A d \in drop[n] : d.thread # thread

\* isConnected, linkFor and dropLinksForDevice look for the address only.
LinksTo(n, c) == {l \in DOMAIN tmap[n] : tmap[n][l].conn = c}

\* Only the clients up stay connected.  Discoveries of others end; those that
\* did not close themselves are told, and so are the servers.
ToldClients(up, closed) ==
    {x \in notice : x.what = "down" \/ x.client \in up}
        \cup [client : live \ (up \cup closed), what : {"down"}]
ToldServers(up) ==
    [c \in Conn |-> IF c \in Est(live) \ Est(up) THEN Append(owed[c], "down") ELSE owed[c]]

\* What is in the air to an end is lost with it.
Carried(up) == {f \in air : Stands(f.end, up)}

\* The ends that hear what is sent from e: a notification reaches every client.
Far(e, up) == IF e.no = 0 THEN {k \in up : k.conn = e.conn} ELSE {Server(e.conn)}

\* The frames that n sends over those of the links ls that the transport has.
Sent(n, ls, kind) ==
    LET out == {l \in ls \cap DOMAIN tmap[n] : Stands(tmap[n][l], live)}
    IN  UNION {[end : Far(tmap[n][l], live), kind : {kind}] : l \in out}

\* onScanResult: not over the limit, no link to that address as a central, and
\* not just deduped.
MayConnect(n, c) ==
    /\ Cardinality(DOMAIN tmap[n]) < MaxLinks
    /\ LinksTo(n, c) = {}
    /\ c[2] \notin cool[n]

Clients(c) == {k \in trying \cup live \cup {x.client : x \in notice} : k.conn = c}

\* A client that is connecting, or connected without a link, does not matter.
onScanResult(c) ==
    /\ c[1] \in on /\ c[2] \in on
    /\ MayConnect(c[1], c)
    /\ Spend(IF Clients(c) = {} THEN "connect" ELSE "again")
    /\ trying' = trying \cup {End(c, used["connect"] + used["again"] + 1)}
    /\ UNCHANGED <<live, retry, owed, notice, tmap, next, core, known, cool, call, drop,
                   on, air, met>>

\* The client is connected, asks for an MTU and discovers the services.  The
\* server is told when the connection did not stand before.
Establish(k) ==
    /\ k \in trying /\ k.conn[1] \in on /\ k.conn[2] \in on
    /\ Idle(k.conn[1], Thread(k))
    /\ trying' = trying \ {k}
    /\ live' = live \cup {k}
    /\ retry' = [retry EXCEPT ![k.conn] = 0]
    /\ owed' = [owed EXCEPT ![k.conn] =
                   IF k.conn \in Est(live) THEN @ ELSE Append(@, "connected")]
    /\ notice' = notice \cup {[client |-> k, what |-> "discovered"]}
    /\ UNCHANGED <<tmap, next, core, known, cool, call, drop, on, air, met, used>>

\* dropLinksForDevice, called on a thread: the links to the address are noted,
\* and then dropped one after the other.
ToDrop(n, thread, c) == [thread : {thread}, link : LinksTo(n, c)]

\* A client fails: it is closed, and what links there are to the address are
\* dropped.  After a status 133 a client is made anew, so often; it takes the
\* old one's number, for the callback makes it at its end.
Fail(k) ==
    LET n == k.conn[1]
    IN  /\ k \in trying /\ Idle(n, Thread(k))
        /\ Spend("fail")
        /\ drop' = [drop EXCEPT ![n] = @ \cup ToDrop(n, Thread(k), k.conn)]
        /\ \/ /\ retry' = [retry EXCEPT ![k.conn] = @ + 1]
              /\ trying' = IF retry[k.conn] + 1 <= MaxRetry THEN trying ELSE trying \ {k}
           \/ trying' = trying \ {k} /\ UNCHANGED retry
        /\ UNCHANGED <<live, owed, notice, tmap, next, core, known, cool, call, on, air, met>>

\* The radio loses a connection.
Loss(c) ==
    /\ c \in Est(live)
    /\ Spend("loss")
    /\ live' = {k \in live : k.conn # c}
    /\ notice' = ToldClients(live', {})
    /\ owed' = ToldServers(live')
    /\ air' = Carried(live')
    /\ UNCHANGED <<trying, retry, tmap, next, core, known, cool, call, drop, on, met>>

\* Bluetooth goes off or on: the connections are dead, dropAllLinks runs, and
\* the callbacks that have not begun no longer come.
Toggle(n) ==
    LET Away(K) == {k \in K : n \notin {k.conn[1], k.conn[2]}}
    IN  /\ Idle(n, <<"main">>)
        /\ Spend("toggle")
        /\ on' = IF n \in on THEN on \ {n} ELSE on \cup {n}
        /\ live' = Away(live) /\ trying' = Away(trying)
        /\ notice' = {x \in ToldClients(live', {}) : x.client.conn[1] # n}
        /\ owed' = [c \in Conn |-> IF c[2] = n THEN << >> ELSE ToldServers(live')[c]]
        /\ air' = Carried(live')
        /\ drop' = [drop EXCEPT ![n] = @ \cup [thread : {<<"main">>}, link : DOMAIN tmap[n]]]
        /\ UNCHANGED <<retry, tmap, next, core, known, cool, call, met>>

\* 30 s after a link to the address was closed as redundant.
CoolDown(n, p) ==
    /\ p \in cool[n]
    /\ Spend("cooled")
    /\ cool' = [cool EXCEPT ![n] = @ \ {p}]
    /\ UNCHANGED <<trying, live, retry, owed, notice, tmap, next, core, known, call, drop,
                   on, air, met>>

-----------------------------------------------------------------------------
(***************************************************************************)
(* Callbacks of the transport: the part before the call into the core.     *)
(***************************************************************************)
Call(n, thread, op, l, kind, from) ==
    call' = [call EXCEPT ![n] = @ \cup {[thread |-> thread, op |-> op, link |-> l,
                                        kind |-> kind, from |-> from]}]

\* What the end e is told next is taken, when its thread is free.
Taken(e, what) ==
    /\ Idle(At(e), Thread(e))
    /\ IF e.no = 0
       THEN /\ owed[e.conn] # << >> /\ what \in {Head(owed[e.conn])}
            /\ owed' = [owed EXCEPT ![e.conn] = Tail(@)]
            /\ UNCHANGED notice
       ELSE /\ [client |-> e, what |-> what] \in notice
            /\ notice' = notice \ {[client |-> e, what |-> what]}
            /\ UNCHANGED owed

\* serverCallback.onConnectionStateChange(CONNECTED) and, for a client,
\* gattCallback.onServicesDiscovered: a link id is taken and entered.
CallbackUp(e) ==
    LET n == At(e)
    IN  /\ Taken(e, IF e.no = 0 THEN "connected" ELSE "discovered")
        /\ tmap' = [tmap EXCEPT ![n] = With(@, next[n], e)]
        /\ next' = [next EXCEPT ![n] = @ + 1]
        /\ Call(n, Thread(e), "up", next[n], "none", n)
        /\ UNCHANGED <<trying, live, retry, core, known, cool, drop, on, air, met, used>>

\* STATE_DISCONNECTED in either role: dropLinksForDevice.
CallbackDown(e) ==
    LET n == At(e)
    IN  /\ Taken(e, "down")
        /\ drop' = [drop EXCEPT ![n] = @ \cup ToDrop(n, Thread(e), e.conn)]
        /\ UNCHANGED <<trying, live, retry, tmap, next, core, known, cool, call, on, air,
                       met, used>>

\* MUTANT: the link is forgotten, but the core is not told.
DropNext_Silent(n) ==
    /\ \E d \in drop[n] :
          /\ ~Calling(n, d.thread)
          /\ drop' = [drop EXCEPT ![n] = @ \ {d}]
          /\ tmap' = [tmap EXCEPT ![n] = Without(@, {d.link})]
    /\ UNCHANGED <<trying, live, retry, owed, notice, next, core, known, cool, call, on,
                   air, met, used>>

\* dropLinksForDevice and dropAllLinks, one link after the other.
DropNext(n) ==
    /\ \E d \in drop[n] :
          /\ ~Calling(n, d.thread)
          /\ drop' = [drop EXCEPT ![n] = @ \ {d}]
          /\ tmap' = [tmap EXCEPT ![n] = Without(@, {d.link})]
          /\ Call(n, d.thread, "down", d.link, "none", n)
    /\ UNCHANGED <<trying, live, retry, owed, notice, next, core, known, cool, on, air,
                   met, used>>

\* A write request or a notification.  linkFor takes the first link to the
\* address, in the order of the map, which is by hash; without one, or before
\* the client has discovered the service, the frame is dropped.
CallbackFrame(f) ==
    LET n == At(f.end)
        links == IF [client |-> f.end, what |-> "discovered"] \in notice THEN {}
                 ELSE LinksTo(n, f.end.conn)
    IN  /\ f \in air /\ Idle(n, Thread(f.end))
        /\ air' = air \ {f}
        /\ IF links = {} THEN UNCHANGED call
           ELSE \E l \in links :
                   Call(n, Thread(f.end), "frame", l, f.kind, Other(f.end.conn, n))
        /\ UNCHANGED <<trying, live, retry, owed, notice, tmap, next, core, known, cool,
                       drop, on, met, used>>

-----------------------------------------------------------------------------
(***************************************************************************)
(* The core.                                                               *)
(***************************************************************************)
Untagged == [eph |-> Nobody, fp |-> Nobody]

\* dedup_links: resolve the tags that can be, then for each identity keep the
\* link with the lowest id.
Resolved(links, keys) ==
    [l \in DOMAIN links |->
        IF links[l].fp = Nobody /\ links[l].eph \in keys
        THEN [links[l] EXCEPT !.fp = links[l].eph] ELSE links[l]]

\* MUTANT: the lowest id is closed too.
Redundant_All(links) ==
    {l \in DOMAIN links : /\ links[l].fp # Nobody
                          /\ \E k \in DOMAIN links : k # l /\ links[k].fp = links[l].fp}

Redundant(links) ==
    {l \in DOMAIN links : /\ links[l].fp # Nobody
                          /\ \E k \in DOMAIN links : k < l /\ links[k].fp = links[l].fp}

\* The links are closed in the transport, in the same step: a central closes
\* its client and hears no more, a server cancels the connection and does.
dedup_links(n, links, keys) ==
    LET res == Resolved(links, keys)
        gone == Redundant(res) \cap DOMAIN tmap[n]
        ends == {tmap[n][l] : l \in gone}
        closed == {e \in ends : e.no # 0}
    IN  /\ core' = [core EXCEPT ![n] = Without(res, Redundant(res))]
        /\ tmap' = [tmap EXCEPT ![n] = Without(@, gone)]
        /\ cool' = [cool EXCEPT ![n] = @ \cup {e.conn[2] : e \in closed}]
        /\ live' = {k \in live \ closed : Server(k.conn) \notin ends}
        /\ air' = Carried(live')
        /\ notice' = ToldClients(live', closed)
        /\ owed' = ToldServers(live')

\* A pair has met when each has a link to the other and they are connected.
Meet(links) ==
    met' = met \cup {{c[1], c[2]} : c \in {d \in Est(live) :
              \A n \in {d[1], d[2]} : \E l \in DOMAIN links[n] \cap DOMAIN tmap[n] :
                  Other(tmap[n][l].conn, n) = Other(d, n)}}

\* The call takes the mutex.
Enter(n, x) == /\ x \in call[n]
               /\ call' = [call EXCEPT ![n] = @ \ {x}]

\* LinkUp: enter it, announce on every link, ask over the new one.
LinkUp(n, x) ==
    LET links == With(core[n], x.link, Untagged)
    IN  /\ x.op = "up" /\ Enter(n, x)
        /\ core' = [core EXCEPT ![n] = links]
        /\ air' = air \cup Sent(n, DOMAIN links, "announce") \cup Sent(n, {x.link}, "sync")
        /\ Meet(core')
        /\ UNCHANGED <<trying, live, retry, owed, notice, tmap, next, known, cool, drop, on, used>>

LinkDown(n, x) ==
    /\ x.op = "down" /\ Enter(n, x)
    /\ core' = [core EXCEPT ![n] = Without(@, {x.link})]
    /\ UNCHANGED <<trying, live, retry, owed, notice, tmap, next, known, cool, drop, on, air,
                   met, used>>

\* A sync request comes from the neighbour itself: note_link_identity.
SyncFrame(n, x) ==
    /\ x.op = "frame" /\ x.kind = "sync" /\ Enter(n, x)
    /\ LET links == IF x.link \in DOMAIN core[n] /\ core[n][x.link].eph # x.from
                    THEN [core[n] EXCEPT ![x.link] = [eph |-> x.from, fp |-> Nobody]]
                    ELSE core[n]
       IN  dedup_links(n, links, known[n])
    /\ UNCHANGED <<trying, retry, next, known, drop, on, met, used>>

\* MUTANT: a key that is learned resolves no link.
AnnounceFrame_NoDedup(n, x) ==
    /\ x.op = "frame" /\ x.kind = "announce" /\ Enter(n, x)
    /\ known' = [known EXCEPT ![n] = @ \cup {x.from}]
    /\ UNCHANGED <<core, tmap, cool, live, owed, notice, air>>
    /\ UNCHANGED <<trying, retry, next, drop, on, met, used>>

\* handle_announce: the key is learned, and may resolve links.
AnnounceFrame(n, x) ==
    /\ x.op = "frame" /\ x.kind = "announce" /\ Enter(n, x)
    /\ known' = [known EXCEPT ![n] = @ \cup {x.from}]
    /\ dedup_links(n, core[n], known'[n])
    /\ UNCHANGED <<trying, retry, next, drop, on, met, used>>

\* announce(), from the app's loop every 3 s.
Announce(n) ==
    /\ Spend("announce")
    /\ air' = air \cup Sent(n, DOMAIN core[n], "announce")
    /\ UNCHANGED <<trying, live, retry, owed, notice, tmap, next, core, known, cool, call,
                   drop, on, met>>

-----------------------------------------------------------------------------
Init == /\ trying = {} /\ live = {} /\ notice = {} /\ air = {} /\ met = {}
        /\ retry = [c \in Conn |-> 0] /\ owed = [c \in Conn |-> << >>]
        /\ tmap = [n \in Node |-> << >>] /\ core = [n \in Node |-> << >>]
        /\ next = [n \in Node |-> 1]
        /\ known = [n \in Node |-> {}] /\ cool = [n \in Node |-> {}]
        /\ call = [n \in Node |-> {}] /\ drop = [n \in Node |-> {}]
        /\ on = Node
        /\ used = [ev \in Event |-> 0]

CoreStep(n, x) == LinkUp(n, x) \/ LinkDown(n, x) \/ SyncFrame(n, x) \/ AnnounceFrame(n, x)

Next == \/ \E c \in Conn : \/ onScanResult(c) \/ Loss(c)
                          \/ CallbackUp(Server(c)) \/ CallbackDown(Server(c))
        \/ \E k \in trying : Establish(k) \/ Fail(k)
        \/ \E x \in notice : CallbackUp(x.client) \/ CallbackDown(x.client)
        \/ \E f \in air : CallbackFrame(f)
        \/ \E n \in Node : \/ Toggle(n)
                           \/ DropNext(n)
                           \/ Announce(n)
                           \/ \E p \in cool[n] : CoolDown(n, p)
                           \/ \E x \in call[n] : CoreStep(n, x)

Spec == Init /\ [][Next]_vars

-----------------------------------------------------------------------------
(***************************************************************************)
(* Properties.                                                             *)
(***************************************************************************)
\* Settled(n): no callback of phone n is under way.
Settled(n) == call[n] = {} /\ drop[n] = {}

\* Whenever no callback is under way, the core has every link that the transport
\* has, whatever came in whatever order, and has no other as long as two things
\* have not happened: a Bluetooth switch, whose dropAllLinks runs beside the
\* callbacks, and a second client to one address, whose callbacks drop the links
\* of the first (onScanResult, onServicesDiscovered, dropLinksForDevice).  Each
\* can drop a link of which the core has yet to be told, and which it then keeps.
MapsAgree ==
    \A n \in Node : Settled(n) =>
        /\ DOMAIN tmap[n] \subseteq DOMAIN core[n]
        /\ used["toggle"] + used["again"] = 0 => DOMAIN core[n] \subseteq DOMAIN tmap[n]

\* dedup_links: "keep exactly one link per peer identity".  No two links carry
\* the tag of a peer whose key the phone has, in whatever order the tags and the
\* keys come.  The links of several clients to one address are not all tagged:
\* linkFor takes a frame to belong to the first of them.
OneLinkPerPeer ==
    \A n \in Node : \A l, k \in DOMAIN core[n] :
        core[n][l].eph \in known[n] /\ core[n][l].eph = core[n][k].eph => l = k

\* The core closes a link only while it keeps another one to the same phone,
\* which stands as far as the core can know: it is in the transport's map, or
\* its end has not been reported yet.  The latter is said for the time before a
\* second client to one address, after which a dead link may be the one kept.
ClosesOnlyRedundant ==
    [][\A n \in Node : \A l \in DOMAIN core[n] \ DOMAIN core'[n] :
          l \in DOMAIN tmap[n] \ DOMAIN tmap'[n] =>
             \E k \in DOMAIN core'[n] :
                /\ core'[n][k].fp = Other(tmap[n][l].conn, n)
                /\ \/ k \in DOMAIN tmap'[n] \/ used["again"] # 0
                   \/ \E x \in call[n] : x.op = "down" /\ x.link = k]_vars

\* dedup_links keeps one of the links between two phones: two that both had a
\* link to the other stay connected, if no radio loss or Bluetooth switch parts
\* them.
KeepsALink ==
    used["loss"] + used["toggle"] = 0 =>
        \A pair \in met : \E c \in Est(live) : {c[1], c[2]} = pair
=============================================================================

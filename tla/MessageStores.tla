--------------------------- MODULE MessageStores ---------------------------
(***************************************************************************)
(* The two implementations of the Store trait, side by side: MemoryStore   *)
(* (crates/meshcore/src/store.rs), which the tests, the simulator and the  *)
(* fallback of the FFI layer use, and SqliteStore (crates/meshcore-store/  *)
(* src/lib.rs), which the phones use.  Every operation is applied to both, *)
(* so that the properties can compare them.                                *)
(*                                                                         *)
(* One channel is modelled; channels share nothing but the digests, which  *)
(* are unique.  A table that a query always reads in the order of (time,   *)
(* row id) is a sequence in that order, like the sorted vectors of         *)
(* MemoryStore: SQLite walks idx_messages_channel and the dms ids so.      *)
(* The clock is the wall clock of the phone, which users may set.          *)
(***************************************************************************)
EXTENDS Integers, Sequences, FiniteSets, SequencesExt

CONSTANTS
    Msg,            \* channel messages, by digest
    Stamp,          \* Stamp[m]: timestamp_ms, taken from the sender's clock
    Peer,
    HistoryMax,     \* channel_history_max_msgs
    HistoryMs,      \* channel_history_ms
    EnvelopeTtl,    \* envelope_ttl_ms
    EnvelopeMax,    \* envelope_max_per_peer
    MaxTime,        \* bound: the largest clock value
    Scenarios       \* alternative bounds on how often each operation happens

Operation == {"put", "peer", "dm", "undm", "queue", "take", "wipe", "clock"}

ASSUME StampAssumption == Stamp \in [Msg -> Nat]
ASSUME LimitAssumption ==
    /\ {HistoryMax, EnvelopeTtl, EnvelopeMax} \subseteq Nat \ {0}
    /\ {HistoryMs, MaxTime} \subseteq Nat
    /\ Scenarios \subseteq [Operation -> Nat]

VARIABLES
    mem,      \* the MemoryStore
    sql,      \* the SqliteStore
    now,      \* the clock
    log,      \* all rows and envelopes that were put
    used      \* how often each operation has happened

vars == <<mem, sql, now, log, used>>

Body == {"text", "control"}
Trust == {"none", "known", "verified"}     \* no PeerRecord, or its flag

Empty == [chan |-> << >>, digests |-> {}, peers |-> [p \in Peer |-> "none"],
          dms |-> [p \in Peer |-> << >>], envs |-> [p \in Peer |-> << >>]]

-----------------------------------------------------------------------------
(***************************************************************************)
(* Sequences ordered by time, equal times in the order of insertion.       *)
(***************************************************************************)
\* The elements of s that are in K, in their order.
Only(s, K) == LET kept[k \in 0 .. Len(s)] ==
                      IF k = 0 THEN << >>
                      ELSE IF s[k] \in K THEN Append(kept[k - 1], s[k]) ELSE kept[k - 1]
              IN  kept[Len(s)]

\* x after the elements that are not in Later.
Inserted(q, x, Later) == Only(q, ToSet(q) \ Later) \o <<x>> \o Only(q, Later)

Newest(q, k) == SubSeq(q, IF Len(q) > k THEN Len(q) - k + 1 ELSE 1, Len(q))

LaterMsgs(m) == {x \in Msg : Stamp[x] > Stamp[m]}

\* MUTANT: the rows are not compared by their time.
TimeOf_Ignored(row) == 0

TimeOf(row) == row.at

InsertedRow(q, row) == Inserted(q, row, {x \in ToSet(q) : TimeOf(x) > TimeOf(row)})

\* saturating_sub(t, s) < window, and in SQL  t - s >= window  negated: a time
\* in the future is young for both.
Within(t, s, window) == (IF t > s THEN t - s ELSE 0) < window
Younger(t, s, window) == t - s < window

-----------------------------------------------------------------------------
(***************************************************************************)
(* Channel messages.  Both stores prune when a message is put, and take    *)
(* its own timestamp for the current time.                                 *)
(***************************************************************************)
\* MUTANT: a digest is not forgotten when its message goes by count either.
mem_put_channel_message_KeepsDigest(s, m) ==
    LET all == Inserted(s.chan, m, LaterMsgs(m))
        young == IF HistoryMs = 0 THEN all
                 ELSE Only(all, {x \in Msg : Within(Stamp[m], Stamp[x], HistoryMs)})
    IN  IF m \in s.digests THEN s
        ELSE [s EXCEPT !.chan = Newest(young, HistoryMax), !.digests = @ \cup {m}]

\* MemoryStore::put_channel_message and prune_channel.  A digest is forgotten
\* when its message goes by count, but not when it goes by age.
mem_put_channel_message(s, m) ==
    LET all == Inserted(s.chan, m, LaterMsgs(m))
        young == IF HistoryMs = 0 THEN all
                 ELSE Only(all, {x \in Msg : Within(Stamp[m], Stamp[x], HistoryMs)})
        kept == Newest(young, HistoryMax)
    IN  IF m \in s.digests THEN s
        ELSE [s EXCEPT !.chan = kept,
                       !.digests = (@ \cup {m}) \ (ToSet(young) \ ToSet(kept))]

\* INSERT OR IGNORE: the digests of SqliteStore are those of its rows; the
\* pruning is done for an ignored message too.
sql_put_channel_message(s, m) ==
    LET all == IF m \in ToSet(s.chan) THEN s.chan ELSE Inserted(s.chan, m, LaterMsgs(m))
        young == IF HistoryMs = 0 THEN all
                 ELSE Only(all, {x \in Msg : Younger(Stamp[m], Stamp[x], HistoryMs)})
        kept == Newest(young, HistoryMax)
    IN  [s EXCEPT !.chan = kept, !.digests = ToSet(kept)]

\* has_message
has_message(s, m) == m \in s.digests

-----------------------------------------------------------------------------
(***************************************************************************)
(* Peers, threads and envelopes.                                           *)
(***************************************************************************)
upsert_peer(s, p, r) == [s EXCEPT !.peers[p] = r]
delete_peer(s, p) == [s EXCEPT !.peers[p] = "none"]

\* MUTANT: the rows are kept in the order they came, not by time.
mem_put_dm_Unsorted(s, p, row) ==
    [s EXCEPT !.dms[p] = Newest(Append(@, row), HistoryMax)]

mem_put_dm(s, p, row) ==
    [s EXCEPT !.dms[p] = Newest(InsertedRow(@, row), HistoryMax)]

sql_put_dm(s, p, row) ==
    [s EXCEPT !.dms[p] = Newest(InsertedRow(@, row), HistoryMax)]

delete_dms(s, p, onlyControl) ==
    [s EXCEPT !.dms[p] = IF onlyControl
                         THEN Only(@, {row \in ToSet(@) : row.body # "control"}) ELSE << >>]

\* Expired envelopes go first, then the oldest beyond the bound.
mem_queue_envelope(s, p, e) ==
    [s EXCEPT !.envs[p] =
        Newest(Append(Only(@, {x \in ToSet(@) : Within(e.at, x.at, EnvelopeTtl)}), e),
               EnvelopeMax)]

\* MUTANT: the bound is applied before the new envelope is added.
sql_queue_envelope_OneOver(s, p, e) ==
    [s EXCEPT !.envs[p] =
        Append(Newest(Only(@, {x \in ToSet(@) : Younger(e.at, x.at, EnvelopeTtl)}), EnvelopeMax), e)]

\* MUTANT: a full queue drops what comes, not what has waited longest.
sql_queue_envelope_DropsNew(s, p, e) ==
    LET young == Only(s.envs[p], {x \in ToSet(s.envs[p]) : Younger(e.at, x.at, EnvelopeTtl)})
    IN  [s EXCEPT !.envs[p] = IF Len(young) < EnvelopeMax THEN Append(young, e) ELSE young]

sql_queue_envelope(s, p, e) ==
    [s EXCEPT !.envs[p] =
        Newest(Append(Only(@, {x \in ToSet(@) : Younger(e.at, x.at, EnvelopeTtl)}), e),
               EnvelopeMax)]

take_envelopes(s, p) == [s EXCEPT !.envs[p] = << >>]

-----------------------------------------------------------------------------
(***************************************************************************)
(* Actions: one operation of the trait, applied to both stores.            *)
(***************************************************************************)
\* A bounded operation: what has happened then is within one of the scenarios.
Spend(op) == /\ \E s \in Scenarios : /\ used[op] < s[op]
                                     /\ \A o \in Operation : used[o] <= s[o]
             /\ used' = [used EXCEPT ![op] = @ + 1]

PutChannelMessage(m) ==
    /\ Spend("put")
    /\ mem' = mem_put_channel_message(mem, m)
    /\ sql' = sql_put_channel_message(sql, m)
    /\ UNCHANGED <<now, log>>

UpsertPeer(p, r) ==
    /\ Spend("peer")
    /\ mem' = upsert_peer(mem, p, r) /\ sql' = upsert_peer(sql, p, r)
    /\ UNCHANGED <<now, log>>

DeletePeer(p) ==
    /\ Spend("peer")
    /\ mem' = delete_peer(mem, p) /\ sql' = delete_peer(sql, p)
    /\ UNCHANGED <<now, log>>

PutDm(p, b) ==
    LET row == [at |-> now, body |-> b]
    IN  /\ Spend("dm")
        /\ mem' = mem_put_dm(mem, p, row) /\ sql' = sql_put_dm(sql, p, row)
        /\ log' = [log EXCEPT !.dms[p] = Append(@, row)]
        /\ UNCHANGED now

DeleteDms(p, onlyControl) ==
    /\ Spend("undm")
    /\ mem' = delete_dms(mem, p, onlyControl) /\ sql' = delete_dms(sql, p, onlyControl)
    /\ log' = [log EXCEPT !.dms[p] = delete_dms(sql, p, onlyControl).dms[p]]
    /\ UNCHANGED now

\* An envelope is named by its place among those queued.
QueueEnvelope(p) ==
    LET e == [at |-> now, id |-> Len(log.envs[p]) + 1]
    IN  /\ Spend("queue")
        /\ mem' = mem_queue_envelope(mem, p, e) /\ sql' = sql_queue_envelope(sql, p, e)
        /\ log' = [log EXCEPT !.envs[p] = Append(@, e)]
        /\ UNCHANGED now

TakeEnvelopes(p) ==
    /\ Spend("take")
    /\ mem' = take_envelopes(mem, p) /\ sql' = take_envelopes(sql, p)
    /\ UNCHANGED <<now, log>>

Nothing == [dms |-> [p \in Peer |-> << >>], envs |-> [p \in Peer |-> << >>]]

PanicWipe ==
    /\ Spend("wipe")
    /\ mem' = Empty /\ sql' = Empty /\ log' = Nothing
    /\ UNCHANGED now

\* Time passes, or the user or the network sets the clock.
SetClock(t) ==
    /\ t # now
    /\ Spend("clock")
    /\ now' = t
    /\ UNCHANGED <<mem, sql, log>>

Init == /\ mem = Empty /\ sql = Empty
        /\ now = 0
        /\ log = Nothing
        /\ used = [op \in Operation |-> 0]

Next == \/ \E m \in Msg : PutChannelMessage(m)
        \/ \E p \in Peer : \/ \E r \in Trust \ {"none"} : UpsertPeer(p, r)
                           \/ DeletePeer(p)
                           \/ \E b \in Body : PutDm(p, b)
                           \/ \E only \in BOOLEAN : DeleteDms(p, only)
                           \/ QueueEnvelope(p)
                           \/ TakeEnvelopes(p)
        \/ PanicWipe
        \/ \E t \in 0 .. MaxTime : SetClock(t)

Spec == Init /\ [][Next]_vars

-----------------------------------------------------------------------------
(***************************************************************************)
(* Properties.                                                             *)
(***************************************************************************)
DmRow == [at : Nat, body : Body]
EnvelopeRow == [at : Nat, id : Nat]
Contents == [chan : Seq(Msg), digests : SUBSET Msg, peers : [Peer -> Trust],
             dms : [Peer -> Seq(DmRow)], envs : [Peer -> Seq(EnvelopeRow)]]

\* Both stores hold rows of their tables, within the limits of the tables.
TypeOK ==
    /\ mem \in Contents /\ sql \in Contents
    /\ \A s \in {mem, sql} :
          /\ Len(s.chan) <= HistoryMax
          /\ \A p \in Peer : Len(s.dms[p]) <= HistoryMax /\ Len(s.envs[p]) <= EnvelopeMax
    /\ now \in 0 .. MaxTime

\* The two stores answer every query alike (history, digests, peers, threads,
\* envelopes), whatever was done to them and however the clock was set, as long as
\* no channel message is so much older than another that it goes by age: then
\* MemoryStore keeps its digest (prune_channel) and the stores differ.
StoresAgree ==
    /\ mem.chan = sql.chan
    /\ \A m \in Msg : has_message(mem, m) <=> has_message(sql, m)
    /\ mem.peers = sql.peers /\ mem.dms = sql.dms /\ mem.envs = sql.envs

\* What is left of a thread are its newest rows: no row that was dropped is
\* newer than one that was kept, though rows may come with the clock set back.
NewestRowsKept ==
    \A p \in Peer :
        LET kept == sql.dms[p]
            put == log.dms[p]
        IN  /\ ToSet(kept) \subseteq ToSet(put)
            /\ Len(kept) = (IF Len(put) > HistoryMax THEN HistoryMax ELSE Len(put))
            /\ \A row \in ToSet(put) \ ToSet(kept) :
                  \A k \in DOMAIN kept : row.at <= kept[k].at

\* An envelope is lost only to age or to the bound, and the bound takes the
\* oldest first: those held are in the order they were queued, and one that is
\* missing after the first of them had expired when a later one was queued.
EnvelopesHeld ==
    \A p \in Peer :
        LET held == sql.envs[p]
            queued == log.envs[p]
        IN  /\ \A i, j \in DOMAIN held : i < j => held[i].id < held[j].id
            /\ held # << >> =>
                 \A e \in ToSet(queued) \ ToSet(held) :
                     e.id > held[1].id =>
                         \E f \in ToSet(queued) : /\ f.id > e.id
                                                  /\ ~Younger(f.at, e.at, EnvelopeTtl)
=============================================================================

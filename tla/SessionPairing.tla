--------------------------- MODULE SessionPairing ---------------------------
(***************************************************************************)
(* What the Noise XX exchanges of crates/meshcore/src/noise.rs promise to  *)
(* every pair of nodes, whatever the nodes do with them: a session can be  *)
(* begun, answered and dropped at any time, and handshake packets can get  *)
(* lost, but two ready ends always hold the two halves of one exchange.    *)
(*                                                                         *)
(* A half is described by its own ephemeral key and the one it read from   *)
(* the peer.  The packets msg2 and msg3 carry the ephemeral keys i and r   *)
(* of the exchange they are bound to.  msg1 has no state of its own: a     *)
(* responder may answer any bytes.                                         *)
(***************************************************************************)
EXTENDS Integers

CONSTANT Node

VARIABLES
    half,   \* half[n][p]: node n's half of a session with p
    hs,     \* the msg2 and msg3 packets that may still be delivered
    next    \* the next ephemeral key

vars == <<half, hs, next>>

NoHalf == [role |-> "none", ready |-> FALSE, own |-> 0, re |-> 0]

\* n's half for p becomes h; packets may get lost, and those sent satisfy Sent.
Become(n, p, h, Sent(_)) ==
    /\ half' = [half EXCEPT ![n][p] = h]
    /\ \A m \in hs' : m \in hs \/ Sent(m)

Nothing(m) == FALSE

Begin(n, p) ==
    /\ Become(n, p, [role |-> "init", ready |-> FALSE, own |-> next, re |-> 0],
              Nothing)
    /\ next' = next + 1

\* Answer e, which need not be an ephemeral key that anybody generated.
Answer(n, p, e) ==
    /\ e < next
    /\ Become(n, p, [role |-> "resp", ready |-> FALSE, own |-> next, re |-> e],
              LAMBDA m : /\ m.type = "msg2" /\ m.src = n /\ m.dst = p
                         /\ m.i = e /\ m.r = next)
    /\ next' = next + 1

FinishInitiator(n, p) ==
    /\ half[n][p].role = "init" /\ ~half[n][p].ready
    /\ \E m \in hs : /\ m.type = "msg2" /\ m.src = p /\ m.dst = n
                     /\ m.i = half[n][p].own
                     /\ Become(n, p, [half[n][p] EXCEPT !.ready = TRUE, !.re = m.r],
                               LAMBDA k : /\ k.type = "msg3" /\ k.src = n /\ k.dst = p
                                          /\ k.i = m.i /\ k.r = m.r)
    /\ UNCHANGED next

\* The exchange completes, but the half is dropped at once: the remote static
\* key is not the announced one.  The msg3 is out all the same.
RejectInitiator(n, p) ==
    /\ half[n][p].role = "init" /\ ~half[n][p].ready
    /\ \E m \in hs : /\ m.type = "msg2" /\ m.src = p /\ m.dst = n
                     /\ m.i = half[n][p].own
                     /\ Become(n, p, NoHalf,
                               LAMBDA k : /\ k.type = "msg3" /\ k.src = n /\ k.dst = p
                                          /\ k.i = m.i /\ k.r = m.r)
    /\ UNCHANGED next

FinishResponder(n, p) ==
    /\ half[n][p].role = "resp" /\ ~half[n][p].ready
    /\ \E m \in hs : /\ m.type = "msg3" /\ m.src = p /\ m.dst = n
                     /\ m.i = half[n][p].re /\ m.r = half[n][p].own
    /\ Become(n, p, [half[n][p] EXCEPT !.ready = TRUE], Nothing)
    /\ UNCHANGED next

Drop(n, p) == /\ Become(n, p, NoHalf, Nothing)
              /\ UNCHANGED next

DropAll(n) == /\ half' = [half EXCEPT ![n] = [p \in Node |-> NoHalf]]
              /\ hs' \subseteq hs
              /\ UNCHANGED next

LosePackets == hs' \subseteq hs /\ UNCHANGED <<half, next>>

Init == /\ half = [n \in Node |-> [p \in Node |-> NoHalf]]
        /\ hs = {}
        /\ next = 1

Next == \/ \E n, p \in Node : /\ n # p
                              /\ \/ Begin(n, p)
                                 \/ \E e \in -1 .. next - 1 : Answer(n, p, e)
                                 \/ FinishInitiator(n, p)
                                 \/ RejectInitiator(n, p)
                                 \/ FinishResponder(n, p)
                                 \/ Drop(n, p)
        \/ \E n \in Node : DropAll(n)
        \/ LosePackets

Spec == Init /\ [][Next]_vars

\* Two ready ends hold the two halves of one exchange.
Paired ==
    \A n, p \in Node :
        n # p /\ half[n][p].ready /\ half[p][n].ready =>
            /\ half[n][p].role # half[p][n].role
            /\ half[n][p].own = half[p][n].re
            /\ half[n][p].re = half[p][n].own
=============================================================================

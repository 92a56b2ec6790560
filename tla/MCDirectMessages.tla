-------------------------- MODULE MCDirectMessages --------------------------
(***************************************************************************)
(* The DirectMessages runs: two nodes, two texts, and for each run the     *)
(* scenarios of user and environment events it explores.                   *)
(***************************************************************************)
EXTENDS DirectMessages, TLC

SymText == Permutations(Text)

Off == [ev \in Event |-> 0]

\* A mesh that reorders, and loses, repeats or delays.
Lossy == [Off EXCEPT !["send"] = 2, !["lose"] = 1, !["late"] = 1]
Repeating == [Off EXCEPT !["send"] = 2, !["lose"] = 1, !["dup"] = 1]
\* One end restarts while the other keeps its half of the session.
Restarting == [Off EXCEPT !["send"] = 2, !["lose"] = 1, !["restart"] = 1]
\* Both users act at once; the mesh only reorders.
Glaring == [Off EXCEPT !["send"] = 2, !["start"] = 2]
\* A user scans the peer around a first text; the mesh only reorders.
Greeting == [Off EXCEPT !["send"] = 1, !["start"] = 1, !["verify"] = 2]
\* Users verify, unverify and forget each other while packets are in flight.
Trusting == [Off EXCEPT !["verify"] = 2, !["unverify"] = 1, !["forget"] = 1,
                        !["start"] = 1]
\* A peer comes back with another X25519 key; old announces are still around.
Rekeying == [Off EXCEPT !["start"] = 2, !["upgrade"] = 1, !["stale"] = 1,
                        !["unverify"] = 1]
\* The user scans the peer again after its key changed.
Rescanning == [Off EXCEPT !["start"] = 1, !["upgrade"] = 1, !["verify"] = 1]
\* Texts for peers that are away, and contacts forgotten and wiped meanwhile.
Away == [Off EXCEPT !["send"] = 2, !["forget"] = 1, !["wipe"] = 1, !["age"] = 1]
\* A user edits a contact that keeps announcing itself.
Editing == [Off EXCEPT !["verify"] = 2, !["unverify"] = 1, !["petname"] = 2,
                       !["forget"] = 1, !["restart"] = 1]

MessageScenarios == {Lossy, Repeating, Restarting, Glaring, Greeting, Trusting,
                     Rekeying, Rescanning, Away, Editing}

\* A single text through a mesh that fails three times, and through one that
\* fails while the peer gets another key; a session started by hand whose
\* handshake is repeated too early.
RetryScenarios == {[Off EXCEPT !["send"] = 1, !["lose"] = 2, !["restart"] = 1],
                   [Off EXCEPT !["send"] = 1, !["lose"] = 1, !["upgrade"] = 1],
                   [Off EXCEPT !["start"] = 1, !["late"] = 1, !["dup"] = 1]}

\* Two texts in a row, and at most one lost packet.
RedriveScenarios == {[Off EXCEPT !["send"] = 2, !["lose"] = 1]}
=============================================================================

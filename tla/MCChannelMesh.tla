--------------------------- MODULE MCChannelMesh ---------------------------
(***************************************************************************)
(* The ChannelMesh runs: the graphs, and the scenarios of each run.        *)
(***************************************************************************)
EXTENDS ChannelMesh

Off == [ev \in Event |-> 0]

\* A triangle with a tail: 1 - 2, 1 - 3, 2 - 3, 3 - 4.  Named by their ends.
KiteEnds == [l \in {12, 13, 23, 34} |-> {l \div 10, l % 10}]
\* A triangle.
TriangleEnds == [l \in {12, 13, 23} |-> {l \div 10, l % 10}]

TtlOf(c, a) == [kind \in Flooded |-> IF kind = "chan" THEN c ELSE a]
\* The clock of node 2 is behind the others; or all show one time.
Node2Behind == [n \in Node |-> IF n = 2 THEN {0} ELSE {1}]
OneTime == [n \in Node |-> {0}]
Ttl31 == TtlOf(3, 1)
Ttl21 == TtlOf(2, 1)

\* Messages flood a mesh with a cycle; links come and go while a node joins
\* the channel and another is wiped.
FloodScenarios ==
    {[Off EXCEPT !["send"] = 2, !["lose"] = 1],
     [Off EXCEPT !["send"] = 1, !["join"] = 1, !["wipe"] = 1, !["expire"] = 1,
                 !["announce"] = 1],
     [Off EXCEPT !["send"] = 1, !["connect"] = 1, !["disconnect"] = 1]}
\* A message before, while or after a link joins two parts of the mesh; and two
\* messages that drive each other out of a cache for one packet.
SpreadScenarios == {[Off EXCEPT !["send"] = 1, !["connect"] = 1],
                    [Off EXCEPT !["send"] = 2]}
\* A third node has missed a message that the others have, whose packet one of
\* them has forgotten, and is connected to the other one.
JoinScenarios == {[Off EXCEPT !["send"] = 1, !["connect"] = 1, !["expire"] = 1,
                              !["lose"] = 1]}
=============================================================================

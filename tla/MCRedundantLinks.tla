-------------------------- MODULE MCRedundantLinks --------------------------
(***************************************************************************)
(* The RedundantLinks runs: the scenarios of each run.                     *)
(***************************************************************************)
EXTENDS RedundantLinks, TLC

\* The phones are alike.
Alike == Permutations(Node)

Off == [ev \in Event |-> 0]

\* Two phones connect to each other and lose a connection, or one ends as
\* redundant and the cool-down passes; a connection fails; one announces once
\* more; Bluetooth is switched off and on; a second client is made to the address
\* of the first, and one fails, the connection is lost, or Bluetooth is switched.
LinkScenarios ==
    {[Off EXCEPT !["connect"] = 2, !["loss"] = 1],
     [Off EXCEPT !["connect"] = 2, !["cooled"] = 1],
     [Off EXCEPT !["connect"] = 1, !["fail"] = 2],
     [Off EXCEPT !["connect"] = 1, !["announce"] = 1],
     [Off EXCEPT !["connect"] = 1, !["toggle"] = 2],
     [Off EXCEPT !["connect"] = 1, !["again"] = 1, !["fail"] = 1],
     [Off EXCEPT !["connect"] = 1, !["again"] = 1, !["loss"] = 1],
     [Off EXCEPT !["connect"] = 1, !["again"] = 1, !["toggle"] = 1]}

\* Two phones connect to each other, with nothing going wrong.
BothScenarios == {[Off EXCEPT !["connect"] = 2]}
=============================================================================

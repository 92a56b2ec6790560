------------------------------ MODULE MCIntake ------------------------------
(***************************************************************************)
(* The Intake run.  With a header of 2 bytes and an MTU of 6, a chunk has  *)
(* 4 bytes; packet 1 makes two fragments, 2 makes three, 3 is over the cap *)
(* and the others just fit one frame.  All but 2 have one originator.      *)
(***************************************************************************)
EXTENDS Intake

Sizes == [p \in Packet |-> <<8, 10, 17, 5, 5>>[p]]
Senders == [p \in Packet |-> IF p = 2 THEN 2 ELSE 1]

\* Fragments of several packets that compete for slots; and packets of one
\* originator over a longer time.
IntakeScenarios == {[frames |-> 6, packets |-> {1, 2, 3, 4}, time |-> 3],
                    [frames |-> 5, packets |-> {1, 4, 5}, time |-> 7]}
=============================================================================

-------------------------- MODULE MCMessageStores --------------------------
(***************************************************************************)
(* The MessageStores run: three messages whose senders' clocks differ.     *)
(***************************************************************************)
EXTENDS MessageStores

Stamps == [m \in Msg |-> m]      \* a message is its timestamp

Off == [op \in Operation |-> 0]
\* The history and the peers; threads and envelopes beside a changing clock.
StoreScenarios ==
    {[Off EXCEPT !["put"] = 4, !["peer"] = 2, !["wipe"] = 1],
     [Off EXCEPT !["dm"] = 4, !["undm"] = 1, !["clock"] = 2],
     [Off EXCEPT !["queue"] = 4, !["take"] = 1, !["clock"] = 2],
     [Off EXCEPT !["dm"] = 2, !["queue"] = 2, !["wipe"] = 1, !["clock"] = 1]}
=============================================================================

--------------------------- MODULE MCAppController ---------------------------
(***************************************************************************)
(* Instances of AppController for TLC.  A scenario bounds how often each   *)
(* event happens; the alternatives share what they have in common.         *)
(***************************************************************************)
EXTENDS AppController

Of(f) == [e \in Event |-> IF e \in DOMAIN f THEN f[e] ELSE 0]

\* Contacts that come, change their key, are verified, unverified and forgotten.
Trust == Of([start |-> 2, stop |-> 1, announce |-> 3, session |-> 1, receive |-> 2,
             verify |-> 1, unverify |-> 1])
Threads == Of([start |-> 2, stop |-> 1, kill |-> 1, announce |-> 2, session |-> 1,
               receive |-> 3, dm |-> 1])
Forgotten == Of([start |-> 1, kill |-> 1, announce |-> 2, session |-> 1, receive |-> 1,
                 verify |-> 1, forget |-> 1, petname |-> 1, dm |-> 1])

\* Channels whose list outlives the node, and a message that comes once more.
Feed == Of([start |-> 3, stop |-> 2, channel |-> 3, again |-> 1, post |-> 1])

\* The secrets, the process and a wipe that is cut short.
Secrets == Of([start |-> 3, stop |-> 1, kill |-> 2, wipe |-> 1, keystore |-> 1,
               announce |-> 1, session |-> 1, receive |-> 1, channel |-> 1])

\* Posts and the clock.
Posts == Of([start |-> 2, stop |-> 1, wipe |-> 1, post |-> 4, time |-> 5])

AppScenarios == {Trust, Threads, Forgotten, Feed, Secrets, Posts}

\* A start and a wipe, and no more.
WipeScenarios == {Of([start |-> 1, wipe |-> 1])}
=============================================================================

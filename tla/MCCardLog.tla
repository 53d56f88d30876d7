----------------------------- MODULE MCCardLog -----------------------------
(* Bounded instances of CardLog: the log thread alone with a card that works, *)
(* and both threads with a card that may fail; and the two situations in      *)
(* which the ui thread overtakes the log thread.                              *)
EXTENDS CardLog

Quiet      == [ui |-> {}, fails |-> FALSE]
Busy       == [ui |-> {"sync", "suspend"}, fails |-> TRUE]
Syncing    == [ui |-> {"sync"}, fails |-> FALSE]
Suspending == [ui |-> {"suspend"}, fails |-> FALSE]

MCScenes        == {Quiet, Busy}
MCSyncScenes    == {Syncing}
MCSuspendScenes == {Suspending}
=============================================================================

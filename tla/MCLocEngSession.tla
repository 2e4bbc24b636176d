--------------------------- MODULE MCLocEngSession ---------------------------
(* The surroundings LocEngSession is checked in, each made so that some of  *)
(* what disturbs a session is left out and the rest can be told apart.      *)
EXTENDS LocEngSession

\* Everything together, with a short queue.
Everything ==
  [recurrences |-> {"periodic", "single"},
   results |-> {"SUCCESS", "FAILURE", "PHONE_OFFLINE"}, flags |-> {"eph"},
   restarts |-> TRUE, cleansUp |-> TRUE, bound |-> 2]

\* Tracking that never fails, with a modem that crashes.
Restarts ==
  [recurrences |-> {"periodic"}, results |-> {"SUCCESS"}, flags |-> {},
   restarts |-> TRUE, cleansUp |-> FALSE, bound |-> 3]

\* Tracking with a modem that stays, where starts fail and data is deleted.
Stays ==
  [recurrences |-> {"periodic"},
   results |-> {"SUCCESS", "FAILURE", "PHONE_OFFLINE"}, flags |-> {"eph"},
   restarts |-> FALSE, cleansUp |-> FALSE, bound |-> 3]

MCSurroundings == {Everything, Restarts, Stays}
OnlyRestarts == {Restarts}
==============================================================================

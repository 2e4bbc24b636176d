------------------------------ MODULE SharedNif ------------------------------
(***************************************************************************)
(* What an AGPS state machine promises to the clients that share one       *)
(* network interface (NIF): the NIF is asked for when the first client     *)
(* wants it, every waiting client gets it in one step, it is lost for all  *)
(* of them in one step, and it is given back with the last one.  The       *)
(* detailed machine is AgpsStateMachine.tla, which implements this         *)
(* specification.                                                          *)
(***************************************************************************)
CONSTANT Clients

VARIABLES
  waiting,   \* clients that asked and were not answered
  using,     \* clients whose last answer was GRANTED
  nif        \* "off", "asked" of the framework, or "held"

nifVars == <<waiting, using, nif>>

Init ==
  /\ waiting = {}
  /\ using = {}
  /\ nif = "off"

\* A client asks before the NIF is up; the first one makes the machine ask.
Ask(c) ==
  /\ nif # "held"
  /\ waiting' = waiting \cup {c}
  /\ nif' = "asked"
  /\ UNCHANGED using

\* A client joins a NIF that is up.
Join(c) ==
  /\ nif = "held"
  /\ using' = using \cup {c}
  /\ UNCHANGED <<waiting, nif>>

\* The framework grants: everyone who waits is served, none is skipped.
Granted ==
  /\ nif = "asked"
  /\ nif' = "held"
  /\ using' = waiting
  /\ waiting' = {}

\* The framework refuses, or takes the NIF back: nobody keeps it.
Ended ==
  /\ nif # "off"
  /\ nif' = "off"
  /\ waiting' = {}
  /\ using' = {}

\* A client leaves; the NIF goes with the last one and only with it.
Leave(c) ==
  /\ c \in waiting \cup using
  /\ waiting' = waiting \ {c}
  /\ using' = using \ {c}
  /\ nif' = IF waiting' \cup using' = {} THEN "off" ELSE nif

\* The modem restarts and its clients are forgotten; the NIF is kept.
Forget ==
  /\ waiting' = {}
  /\ using' = {}
  /\ UNCHANGED nif

Next ==
  \/ \E c \in Clients : Ask(c) \/ Join(c) \/ Leave(c)
  \/ Granted
  \/ Ended
  \/ Forget

Spec == Init /\ [][Next]_nifVars
==============================================================================

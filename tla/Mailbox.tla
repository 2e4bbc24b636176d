------------------------------- MODULE Mailbox -------------------------------
(***************************************************************************)
(* What the users of MsgTask count on: messages are handled one at a time, *)
(* in the order they were put in, until the mailbox is closed.  What is    *)
(* then still in it is discarded, and nothing is put in any more.          *)
(***************************************************************************)
EXTENDS Sequences

CONSTANT Messages

VARIABLES box, open, hand   \* hand: what is being handled, <<>> or one message

mailbox == <<box, open, hand>>

Init == box = <<>> /\ open = TRUE /\ hand = <<>>

Put(m) == open /\ box' = Append(box, m) /\ UNCHANGED <<open, hand>>

Take ==
  /\ hand = <<>> /\ box # <<>>
  /\ hand' = <<Head(box)>> /\ box' = Tail(box)
  /\ UNCHANGED open

Finish == hand # <<>> /\ hand' = <<>> /\ UNCHANGED <<box, open>>

Close == open /\ open' = FALSE /\ UNCHANGED <<box, hand>>

\* Nothing is discarded under the hands of a message.
Discard == ~open /\ hand = <<>> /\ box' = <<>> /\ UNCHANGED <<open, hand>>

Next == (\E m \in Messages : Put(m)) \/ Take \/ Finish \/ Close \/ Discard

Spec == Init /\ [][Next]_mailbox
==============================================================================

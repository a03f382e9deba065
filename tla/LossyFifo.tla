----------------------------- MODULE LossyFifo ------------------------------
(***************************************************************************)
(* What one direction of a network card promises: messages leave in the    *)
(* order in which they entered, each at most once; a message may be lost,  *)
(* and one that is too long for the place it goes to may arrive cut.       *)
(***************************************************************************)
EXTENDS Naturals, Sequences

VARIABLES
  sent,        \* how many messages have entered: they are numbered 1, 2, ...
  inFlight,    \* the messages inside, oldest first
  delivered    \* what has come out, and whether it is whole

vars == <<sent, inFlight, delivered>>

Init == sent = 0 /\ inFlight = <<>> /\ delivered = <<>>

Send ==
  /\ sent' = sent + 1
  /\ inFlight' = Append(inFlight, sent')
  /\ UNCHANGED delivered

Lose ==
  /\ inFlight # <<>>
  /\ inFlight' = Tail(inFlight)
  /\ UNCHANGED <<sent, delivered>>

Deliver(whole) ==
  /\ inFlight # <<>>
  /\ inFlight' = Tail(inFlight)
  /\ delivered' = Append(delivered, [message |-> Head(inFlight), whole |-> whole])
  /\ UNCHANGED sent

Next == Send \/ Lose \/ \E whole \in BOOLEAN : Deliver(whole)

Spec == Init /\ [][Next]_vars

=============================================================================

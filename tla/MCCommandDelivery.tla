------------------------- MODULE MCCommandDelivery -------------------------
(* The coordinator's own messages, the message router's repeatable ones and *)
(* what the control API's callers may ask for.                             *)
EXTENDS CommandDelivery

Envelope == [repeatable |-> FALSE, max |-> 1, deadline |-> "none"]
Routed == [repeatable |-> TRUE, max |-> 2, deadline |-> "none"]
Timed == [repeatable |-> FALSE, max |-> 2, deadline |-> "ahead"]
TimedRouted == [repeatable |-> TRUE, max |-> 2, deadline |-> "ahead"]

TwoKinds == {Routed, Timed}
AllKinds == {Envelope, Routed, Timed, TimedRouted}
=============================================================================

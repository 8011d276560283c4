--------------------------- MODULE MCHealthChecker ---------------------------
(* HealthChecker on two subscriptions of one topic and the topic itself. *)
EXTENDS HealthChecker

Receiver(subscription) ==
  [kind |-> "receiver", entity |-> "topic", subscription |-> subscription]

MCCheckable ==
  {Receiver("s1"), Receiver("s2"),
   [kind |-> "sender", entity |-> "topic", subscription |-> ""]}

=============================================================================

-------------------------- MODULE MCTopicConsumer --------------------------
(* Instances of TopicConsumer for TLC.                                      *)
EXTENDS TopicConsumer

CONSTANTS c1, c2

TwoConsumers == {c1, c2}

=============================================================================

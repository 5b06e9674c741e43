-------------------------- MODULE MCKafkaPublisher --------------------------
(* Small instances of KafkaPublisher for TLC.                               *)
EXTENDS KafkaPublisher

=============================================================================

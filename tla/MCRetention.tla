---------------------------- MODULE MCRetention ----------------------------
(* A small instance of Retention for TLC. *)
EXTENDS Retention

CONSTANTS orders, audit, c1

\* A consumer group with one consumer, and a pipeline that never commits.
OneConsumer == {<<audit, c1>>}

=============================================================================

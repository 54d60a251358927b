---------------------------- MODULE FanoutRefines ----------------------------
(* The worker, its poll loop and its restarts implement an at-least-once    *)
(* consumer of the topic.                                                   *)
EXTENDS Fanout

Consumer == INSTANCE AtLeastOnce
    WITH produced <- [x \in Partitions |-> Len(log[x])]

\* Every behaviour of the worker is one of the abstract consumer: batches,
\* failures of handlers and redelivery after a crash are its repetitions.
ConsumesAtLeastOnce == Consumer!Spec
=============================================================================

-------------------------- MODULE MCKafkaConsumer --------------------------
(* Instances of KafkaConsumer for TLC. *)
EXTENDS KafkaConsumer, TLC

CONSTANTS k1, k2

\* an event, a record that is not JSON, another event, the first event once more
LogWithDuplicate == <<k1, Garbage, k2, k1>>
TwoEvents == <<k1, k2>>

\* a little of everything
MaxAll == [handler |-> 1, call |-> 1, crash |-> 1, rebalance |-> 1, slow |-> 1, expiry |-> 1]
\* a single rebalance
OneRebalance == [handler |-> 0, call |-> 0, crash |-> 0, rebalance |-> 1, slow |-> 0, expiry |-> 0]
\* a single handler error
OneHandlerError == [handler |-> 1, call |-> 0, crash |-> 0, rebalance |-> 0, slow |-> 0, expiry |-> 0]

=============================================================================

----------------------------- MODULE HandOver -----------------------------
(***************************************************************************)
(* What the queue between the WAL thread and the flush thread promises     *)
(* (pending_events of src/src/batch_publisher.zig): a slot the producer    *)
(* releases is received by the consumer exactly once, in the order of      *)
(* release.  How either thread comes by its slots, or what it does with    *)
(* them afterwards, is not the queue's business.                           *)
(***************************************************************************)
EXTENDS Naturals, Sequences

CONSTANT Bound   \* slots the queue can hold

VARIABLES
    producer,   \* slots the producer holds, oldest first
    queue,
    consumer    \* slots the consumer holds, oldest first

Init == producer = <<>> /\ queue = <<>> /\ consumer = <<>>

Put ==
    /\ producer # <<>> /\ Len(queue) < Bound
    /\ queue' = Append(queue, Head(producer))
    /\ producer' = Tail(producer)
    /\ UNCHANGED consumer

Get ==
    /\ queue # <<>>
    /\ consumer' = Append(consumer, Head(queue))
    /\ queue' = Tail(queue)
    /\ UNCHANGED producer

ProducerActs == UNCHANGED <<queue, consumer>>

ConsumerActs == UNCHANGED <<queue, producer>>

Next == Put \/ Get \/ ProducerActs \/ ConsumerActs

Spec == Init /\ [][Next]_<<producer, queue, consumer>>
============================================================================

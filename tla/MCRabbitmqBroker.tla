-------------------------- MODULE MCRabbitmqBroker --------------------------
(* Copies of messages and set-ups for TLC: a worker whose messages another *)
(* process sends, and two threads of a process without a worker.           *)
EXTENDS RabbitmqBroker

CONSTANTS s1, s2

MCIds == 1 .. 5
WithWorker == [senders |-> {s1}, worker |-> TRUE, old |-> {}, events |-> 2, calls |-> 0]
Callers == [senders |-> {s1, s2}, worker |-> FALSE, old |-> {5}, events |-> 2, calls |-> 2]
Both == {WithWorker, Callers}
OnlyWorker == {WithWorker}
=============================================================================

----------------------------- MODULE MCResults -----------------------------
(* A group of a pipeline of two messages and a group of one.  With RabbitMQ
   either one thing goes wrong or time stands still, so that the caller only
   counts.                                                                  *)
EXTENDS Results

MCIds == 1 .. 3
MCChildren == <<[kind |-> "pipeline", ids |-> <<1, 2>>],
                [kind |-> "group", ids |-> <<3>>]>>
MCSetup(broker, backend, ttl, most, time) ==
  [broker |-> broker, backend |-> backend, ttl |-> ttl, troubles |-> most, time |-> time]
MCSetups == {MCSetup("redis", "redis", 3, 2, 4), MCSetup("redis", "memcached", 1, 1, 4),
             MCSetup("redis", "memcached", 3, 2, 4), MCSetup("redis", "stub", 3, 2, 4),
             MCSetup("rabbitmq", "redis", 3, 1, 4), MCSetup("rabbitmq", "redis", 3, 2, 0)}
MCMaxRetries == <<1, 0, 0>>
=============================================================================

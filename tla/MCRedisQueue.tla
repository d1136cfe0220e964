---------------------------- MODULE MCRedisQueue ----------------------------
(* A queue "q" and its delay queue "q.DQ" for TLC.                         *)
EXTENDS RedisQueue

MCQueueNames == {"q", "q.DQ"}
MCCanonical == [name \in MCQueueNames |-> "q"]
=============================================================================

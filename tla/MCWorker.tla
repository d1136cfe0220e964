------------------------------ MODULE MCWorker ------------------------------
(* A queue "q" and its delay queue "q.DQ" for TLC.                         *)
EXTENDS Worker

CONSTANTS j1, j2

MCQueueNames == {"q", "q.DQ"}
MCCanonical == [n \in MCQueueNames |-> "q"]
MCPrefetch == [n \in MCQueueNames |-> IF n = "q" THEN 2 ELSE 1]
OnlyOne == [n \in MCQueueNames |-> 1]
MCIds == 1 .. 4
Both == [j \in Jobs |-> IF j = j1 THEN {"q"} ELSE MCQueueNames]
One == [j \in Jobs |-> IF j = j1 THEN MCQueueNames ELSE {}]
Plain == [queues |-> Both, poison |-> {}, unknown |-> {}, impatient |-> FALSE,
          early |-> FALSE, retries |-> 0, pauses |-> 1, failures |-> 0]
Twice == [Plain EXCEPT !.queues = One, !.pauses = 2]
Failing == [Plain EXCEPT !.queues = One, !.failures = 2]
Unknown == [Plain EXCEPT !.unknown = {j2}, !.pauses = 0, !.failures = 1]
Faulty == [Plain EXCEPT !.poison = {j2}, !.impatient = TRUE, !.pauses = 0, !.failures = 2]
Retried == [Plain EXCEPT !.retries = 1, !.pauses = 0]
AllSetups == {Plain, Twice, Failing, Unknown, Faulty, Retried}
OnePaused == [Plain EXCEPT !.queues = One, !.retries = 1]
Early == [OnePaused EXCEPT !.early = TRUE, !.pauses = 0, !.failures = 1]
PausedOrEarly == {OnePaused, Early}
=============================================================================

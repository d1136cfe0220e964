---------------------------- MODULE MessageQueue ----------------------------
(***************************************************************************)
(* What a broker with acknowledgements promises of its messages, one       *)
(* message at a time: a stored message is held by at most one consumer,    *)
(* stays stored until its holder settles it, and is taken from a holder    *)
(* only when the holder gives it back or has lapsed.  A command of a       *)
(* consumer may move many messages at once.                                *)
(***************************************************************************)
CONSTANTS Ids, Consumers, Queues, NoQueue

VARIABLES
  home,    \* the queue a message was enqueued on, or NoQueue
  status,  \* "unsent", "stored", "dead" (a dead letter) or "gone"
  holder,  \* the consumer that holds a stored message, as a set
  lapsed   \* the consumers not heard of for too long

vars == <<home, status, holder, lapsed>>

TypeOK ==
  /\ home \in [Ids -> Queues \cup {NoQueue}]
  /\ status \in [Ids -> {"unsent", "stored", "dead", "gone"}]
  /\ holder \in [Ids -> SUBSET Consumers]
  /\ lapsed \subseteq Consumers

Init ==
  /\ home = [m \in Ids |-> NoQueue]
  /\ status = [m \in Ids |-> "unsent"]
  /\ holder = [m \in Ids |-> {}]
  /\ lapsed = {}

Same(m) == UNCHANGED <<home[m], status[m], holder[m]>>

Send(m) ==
  /\ status[m] = "unsent"
  /\ home'[m] \in Queues
  /\ status'[m] = "stored"
  /\ holder'[m] = {}

Take(c, m) ==
  /\ status[m] = "stored" /\ holder[m] = {}
  /\ holder'[m] = {c}
  /\ UNCHANGED <<home[m], status[m]>>

(* Its holder acks, nacks or gives back a message.                         *)
Finish(c, m) ==
  /\ status[m] = "stored" /\ holder[m] = {c}
  /\ status'[m] \in {"stored", "dead", "gone"}
  /\ holder'[m] = {}
  /\ UNCHANGED home[m]

(* A message whose holder lapsed returns, and may be taken at once.        *)
Recover(c, m) ==
  /\ status[m] = "stored" /\ holder[m] # {} /\ holder[m] \subseteq lapsed
  /\ holder'[m] \in {{}, {c}}
  /\ UNCHANGED <<home[m], status[m]>>

Expire(m) ==
  /\ status[m] = "dead"
  /\ status'[m] = "gone"
  /\ UNCHANGED <<home[m], holder[m]>>

Command(c) ==
  \A m \in Ids : \/ Same(m)
                 \/ Send(m)
                 \/ Take(c, m)
                 \/ Finish(c, m)
                 \/ Recover(c, m)
                 \/ Expire(m)

(* A purge drops all the messages of a queue, and dead letters.            *)
Drop(m) ==
  /\ status'[m] = "gone"
  /\ holder'[m] = {}
  /\ UNCHANGED home[m]

Purge(q) ==
  \A m \in Ids : IF home[m] = q THEN Drop(m)
                 ELSE Same(m) \/ (status[m] = "dead" /\ Drop(m))

Next ==
  /\ \/ \E c \in Consumers : Command(c)
     \/ \E q \in Queues : Purge(q)
  /\ lapsed' \subseteq Consumers

Spec == Init /\ [][Next]_vars
=============================================================================

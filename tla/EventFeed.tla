----------------------------- MODULE EventFeed -----------------------------
(***************************************************************************)
(* What the firehose promises its consumers, without its lock, its ring,   *)
(* its pages and its transactions: a log of numbered events and, for each  *)
(* consumer, the number of the last one it was sent.                       *)
(***************************************************************************)
EXTENDS Naturals

CONSTANT Consumers

VARIABLES
  durable,     \* numbers of the stored events
  frontier,    \* highest number announced
  at,          \* last number each consumer was sent
  open         \* whether the consumer is connected

feedVars == <<durable, frontier, at, open>>

Init ==
  /\ durable = {} /\ frontier = 0
  /\ at = [s \in Consumers |-> 0] /\ open = [s \in Consumers |-> FALSE]

\* What was announced is stored, or an event after it is: no later boot can
\* give an announced number away again.
Covered == frontier = 0 \/ \E q \in durable : frontier <= q

\* Events are stored under numbers above all that were announced.
Record ==
  /\ durable \subseteq durable'
  /\ \A q \in durable' \ durable : frontier < q
  /\ UNCHANGED <<frontier, at, open>>

Announce ==
  /\ frontier <= frontier' /\ Covered'
  /\ UNCHANGED <<durable, at, open>>

\* Retention removes the oldest events.
Trim ==
  /\ durable' \subseteq durable /\ Covered'
  /\ \A x \in durable \ durable', q \in durable' : x < q
  /\ UNCHANGED <<frontier, at, open>>

\* A consumer connects at any number announced so far.
Connect(s) ==
  /\ ~open[s]
  /\ at' = [at EXCEPT ![s] = at'[s]] /\ at'[s] <= frontier
  /\ open' = [open EXCEPT ![s] = TRUE]
  /\ UNCHANGED <<durable, frontier>>

\* It is sent events in the order of their numbers, each at most once, and none
\* before it is announced.
Deliver(s) ==
  /\ open[s]
  /\ at' = [at EXCEPT ![s] = at'[s]] /\ at[s] < at'[s] /\ at'[s] <= frontier
  /\ UNCHANGED <<durable, frontier, open>>

Close(s) ==
  /\ open' = [open EXCEPT ![s] = FALSE]
  /\ UNCHANGED <<durable, frontier, at>>

\* A restart closes every connection and may announce what was stored and not
\* yet announced; where each consumer stands survives it.
Restart ==
  /\ open' = [s \in Consumers |-> FALSE]
  /\ frontier <= frontier' /\ Covered'
  /\ UNCHANGED <<durable, at>>

Next ==
  \/ Record \/ Announce \/ Trim \/ Restart
  \/ \E s \in Consumers : Connect(s) \/ Deliver(s) \/ Close(s)

Spec == Init /\ [][Next]_feedVars
=============================================================================

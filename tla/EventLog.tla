------------------------------ MODULE EventLog ------------------------------
(***************************************************************************)
(* What the ingestion consumers promise of one topic, apart from rebalances, *)
(* crashes, refused commits and services that fail: an event, once         *)
(* answered, stays answered, and the group's committed offset stands where *)
(* every event below it has been.  It may fall back, whereupon events are  *)
(* read, and may be answered, again: delivery is at least once.            *)
(***************************************************************************)
EXTENDS Integers

CONSTANT Size  \* messages on the topic

VARIABLES
  events,    \* offsets that hold something to be answered
  answered,  \* those that were
  committed  \* the group's committed offset: the next one to be read

logVars == <<events, answered, committed>>

Init ==
  /\ events \subseteq 1 .. Size
  /\ answered = {}
  /\ committed = 1

Answer(m) ==
  /\ answered' = answered \cup {m}
  /\ UNCHANGED <<events, committed>>

Commit(n) ==
  /\ \A m \in events : m < n => m \in answered
  /\ committed' = n
  /\ UNCHANGED <<events, answered>>

Next ==
  \/ \E m \in events : Answer(m)
  \/ \E n \in 1 .. Size + 1 : Commit(n)

Spec == Init /\ [][Next]_logVars

----------------------------------------------------------------------------

\* What the log is for: no event below the committed offset was passed over.
CommittedIsAnswered == \A m \in events : m < committed => m \in answered

=============================================================================

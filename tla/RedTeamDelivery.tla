-------------------------- MODULE RedTeamDelivery --------------------------
(***************************************************************************)
(* The attack cycle composed with the two Kafka producers it uses.  A      *)
(* SyntheticProducer and an AuditProducer queue what they are given and    *)
(* send it from a thread of their own; the queue dies with the process of  *)
(* the task attempt that holds it.  Neither generate_scenario nor          *)
(* inject_scenario flushes, and log_to_audit's flush gives up after ten    *)
(* seconds, so ending an attempt may lose whatever is still queued.        *)
(***************************************************************************)
EXTENDS AttackOrchestrator

VARIABLES
  eventQueue,  \* events in the SyntheticProducer's local queue
  topics,      \* events on the transactions, logins and devices topics
  auditQueue,  \* records in the AuditProducer's local queue
  auditTopic   \* records on the synthetic_audit topic

deliveryVars == <<eventQueue, topics, auditQueue, auditTopic>>
allVars == <<vars, deliveryVars>>

DeliveryInit ==
  /\ Init
  /\ eventQueue = {}
  /\ topics = {}
  /\ auditQueue = {}
  /\ auditTopic = {}

\* Some task attempt ends in this step.
AttemptEnds == \E t \in Tasks : task[t] = "running" /\ task'[t] # "running"

\* A step of the cycle: what it hands to a producer is queued, and in a dry run
\* no producer queues anything.
Cycle ==
  /\ Next
  /\ eventQueue' = IF AttemptEnds THEN {} ELSE eventQueue \cup (emitted' \ emitted)
  /\ auditQueue' = IF AttemptEnds \/ dryRun THEN {}
                   ELSE auditQueue \cup (auditLog' \ auditLog)
  /\ UNCHANGED <<topics, auditTopic>>

DeliverEvent ==
  /\ \E e \in eventQueue :
       /\ topics' = topics \cup {e}
       /\ eventQueue' = eventQueue \ {e}
  /\ UNCHANGED <<vars, auditQueue, auditTopic>>

DeliverRecord ==
  /\ \E r \in auditQueue :
       /\ auditTopic' = auditTopic \cup {r}
       /\ auditQueue' = auditQueue \ {r}
  /\ UNCHANGED <<vars, eventQueue, topics>>

\* A message produce() refused, or whose delivery timed out: logged at most.
Lose ==
  /\ \/ \E e \in eventQueue : eventQueue' = eventQueue \ {e} /\ UNCHANGED auditQueue
     \/ \E r \in auditQueue : auditQueue' = auditQueue \ {r} /\ UNCHANGED eventQueue
  /\ UNCHANGED <<vars, topics, auditTopic>>

DeliveryNext == Cycle \/ DeliverEvent \/ DeliverRecord \/ Lose

DeliverySpec == DeliveryInit /\ [][DeliveryNext]_allVars

----------------------------------------------------------------------------

\* What reaches an ingestion topic belongs to a scenario with a recorded attempt that
\* passed validation, whatever the producers lost on the way.
TopicsWereApproved ==
  \A e \in topics : \E r \in Approvals : r.id.uuid = e.id.uuid

\* An event reaches its topic while the attempt that produced it is running, or never:
\* nothing of an injection that ended, failed or was killed trickles in during a retry,
\* a later run, or with the switch off and nothing under way.
DeliveriesEndWithAttempt ==
  [][\A e \in topics' \ topics :
       /\ task["inject_to_kafka"] = "running"
       /\ e.run = run
       /\ e.try = tries["inject_to_kafka"]
       /\ e.id = validated[run]]_allVars

\* audit.py:7-8 and README.md:336: the synthetic_audit topic holds a record of
\* the scenario before any of its events is on an ingestion topic.
AuditTopicPrecedesEvents ==
  \A e \in topics : \E r \in auditTopic : r.id.uuid = e.id.uuid

=============================================================================

------------------------- MODULE CommunityDetection -------------------------
(***************************************************************************)
(* community_detection_dag and the CommunityDetector it runs: project the  *)
(* account graph into the GDS catalog, run Louvain on the projection, ask  *)
(* the graph for each community's signals, store the rings, alert on the   *)
(* high-risk ones, and evaluate the run against Hard Rule 6.               *)
(*                                                                         *)
(* A group is a set of accounts that trade with one another; a ring_id is  *)
(* derived from the members, so a group also names its ring.  The DAG has  *)
(* max_active_runs = 1 and is the only caller of the detector.             *)
(***************************************************************************)
EXTENDS Integers, FiniteSets

CONSTANTS
  Groups,         \* sets of accounts that may become communities
  Injected,       \* those of the attacker agents: fresh accounts, all edges synthetic
  Size,           \* the members of each group
  Profiles,       \* what the signals query can find among a group's members
  MinSize,        \* FRAUD_RING_MIN_CLUSTER_SIZE
  AlertThreshold, \* FRAUD_RING_ALERT_THRESHOLD, in ten-thousandths
  Retries,        \* of a DAG task
  None            \* no edges, no projection, no stored ring

(* uni: one-way edges, in percent; ips, devices: those shared by two logins; *)
(* share: synthetic edges, in percent; logins: some member has logged in.   *)
Signal == [uni : 0 .. 100, ips : Nat, devices : Nat, share : 0 .. 100,
           logins : BOOLEAN]

ASSUME DetectionConstantsOK ==
  /\ Injected \subseteq Groups
  /\ Size \in [Groups -> Nat]
  /\ Profiles \subseteq Signal
  /\ MinSize \in Nat /\ AlertThreshold \in Nat /\ Retries \in Nat
  /\ None \notin Profiles

VARIABLES
  graph,      \* the current profile of each group, None if no edge is in the window
  catalog,    \* the groups in the one named GDS projection, None if there is none
  present,    \* ghost: the groups in the graph when the run projected it
  rings,      \* the FraudRing node of each group
  pc,         \* where the DAG run is
  tries,      \* failed attempts of the running task
  queue,      \* communities detect() still has to evaluate
  found,      \* the rings of detect()'s loop so far
  ring,       \* the one it is storing or alerting on
  summary,    \* the detection task's XCom: the rings it reports
  verdict,    \* evaluate_synthetic_coverage's hard_rule_6_passed
  paged,      \* publish_high_risk_alerts has succeeded
  delivered,  \* this run's alerts on each group, by their publisher
  lost        \* those that were refused or never confirmed

detectVars == <<queue, found, ring>>
taskVars == <<summary, verdict, paged>>
alertVars == <<delivered, lost>>
vars == <<graph, catalog, present, rings, pc, tries, detectVars, taskVars, alertVars>>

Publishers == {"detector", "dag"}
Scores == 0 .. 10000
Rings == [group : Groups, score : Scores, synthetic : BOOLEAN]

\* Live accounts have no synthetic edges, injected accounts no others.
ProfilesOf(g) == {p \in Profiles : p.share = IF g \in Injected THEN 100 ELSE 0}

TypeOK ==
  /\ graph \in [Groups -> Profiles \cup {None}]
  /\ \A g \in Groups : graph[g] # None => graph[g] \in ProfilesOf(g)
  /\ catalog = None \/ catalog \subseteq Groups
  /\ present \subseteq Groups
  /\ rings \in [Groups -> [score : Scores, synthetic : BOOLEAN] \cup {None}]
  /\ pc \in {"idle", "project", "louvain", "evaluate", "persist", "alert",
             "downstream"}
  /\ tries \in 0 .. Retries
  /\ queue \subseteq Groups
  /\ found \subseteq Rings
  /\ ring = None \/ ring \in Rings
  /\ summary \subseteq Rings
  /\ verdict \in {"none", "passed", "failed"}
  /\ paged \in BOOLEAN
  /\ delivered \in [Groups -> SUBSET Publishers]
  /\ lost \in [Groups -> SUBSET Publishers]

NoAlerts == [g \in Groups |-> {}]

Init ==
  /\ graph \in {f \in [Groups -> Profiles \cup {None}] :
                  \A g \in Groups : f[g] \in ProfilesOf(g) \cup {None}}
  /\ catalog = None
  /\ present = {}
  /\ rings = [g \in Groups |-> None]
  /\ pc = "idle"
  /\ tries = 0
  /\ queue = {} /\ found = {} /\ ring = None
  /\ summary = {} /\ verdict = "none" /\ paged = FALSE
  /\ delivered = NoAlerts /\ lost = NoAlerts

----------------------------------------------------------------------------
(* The graph database.                                                      *)

\* Events arrive, edges leave the window, a reset deletes accounts.
GraphChanges(g) ==
  /\ \E p \in ProfilesOf(g) \cup {None} : graph' = [graph EXCEPT ![g] = p]
  /\ UNCHANGED <<catalog, present, rings, pc, tries, detectVars, taskVars, alertVars>>

\* The catalog is in memory only.
Neo4jRestarts ==
  /\ catalog' = None
  /\ UNCHANGED <<graph, present, rings, pc, tries, detectVars, taskVars, alertVars>>

Communities == {g \in Groups : graph[g] # None}

----------------------------------------------------------------------------
(* The score.                                                               *)

AtMost(limit, n) == IF n < limit THEN n ELSE limit

\* Mutant: the collusion signal is not capped.
RiskScore_Uncapped(p) ==
  AtMost(10000, 50 * p.uni + 600 * (p.ips + p.devices) + 20 * p.share)

\* 0.50 x one-way ratio + 0.30 x min(1, shared / 5) + 0.20 x synthetic ratio.
RiskScore(p) ==
  AtMost(10000, 50 * p.uni + 600 * AtMost(5, p.ips + p.devices) + 20 * p.share)

\* Some signal fires.
Fires(p) == p.uni >= 70 \/ p.ips >= 2 \/ p.devices >= 2 \/ p.share > 0

\* The query MATCHes an IP address and a device: without a login it returns no
\* row, and the detector takes every signal for zero.
HasRow(g) == graph[g] # None /\ graph[g].logins

IsRing(g) ==
  /\ Size[g] >= MinSize
  /\ HasRow(g)
  /\ Fires(graph[g])

\* Mutant: the dataclass default of synthetic is kept.
RingOf_Default(g) ==
  [group |-> g, score |-> RiskScore(graph[g]), synthetic |-> FALSE]

RingOf(g) ==
  [group |-> g, score |-> RiskScore(graph[g]), synthetic |-> graph[g].share > 0]

\* FraudRing.is_high_risk.
HighRisk(r) == r.score >= AlertThreshold

\* publish_high_risk_alerts applies the threshold itself.
Pages(r) == r.score >= AlertThreshold

----------------------------------------------------------------------------
(* run_louvain_detection: CommunityDetector.detect.                         *)

Start ==
  /\ pc = "idle"
  /\ pc' = "project"
  /\ tries' = 0
  /\ summary' = {} /\ verdict' = "none" /\ paged' = FALSE
  /\ delivered' = NoAlerts /\ lost' = NoAlerts
  /\ present' = {}
  /\ UNCHANGED <<graph, catalog, rings, detectVars>>

\* "already exists" is taken for success: the projection found is used.
Projection == IF catalog = None THEN Communities ELSE catalog

ProjectGraph ==
  /\ pc = "project"
  /\ catalog' = Projection
  /\ present' = Communities
  /\ pc' = "louvain"
  /\ UNCHANGED <<graph, rings, tries, detectVars, taskVars, alertVars>>

RunLouvain ==
  /\ pc = "louvain"
  /\ catalog # None
  /\ queue' = catalog
  /\ pc' = "evaluate"
  /\ UNCHANGED <<graph, catalog, present, rings, tries, found, ring, taskVars, alertVars>>

\* Too small, or no signal.
SkipCommunity(g) ==
  /\ pc = "evaluate" /\ g \in queue
  /\ ~IsRing(g)
  /\ queue' = queue \ {g}
  /\ UNCHANGED <<graph, catalog, present, rings, pc, tries, found, ring, taskVars, alertVars>>

DetectRing(g) ==
  /\ pc = "evaluate" /\ g \in queue
  /\ IsRing(g)
  /\ queue' = queue \ {g}
  /\ ring' = RingOf(g)
  /\ found' = found \cup {RingOf(g)}
  /\ pc' = "persist"
  /\ UNCHANGED <<graph, catalog, present, rings, tries, taskVars, alertVars>>

\* upsert_fraud_ring: a ring that exists keeps the tag it was created with.
Upsert(r) ==
  rings' = [rings EXCEPT ![r.group] =
    [score |-> r.score,
     synthetic |-> IF @ = None THEN r.synthetic ELSE @.synthetic]]

\* A failure is logged; the ring is counted and alerted on all the same.
PersistRing(g, stored) ==
  /\ pc = "persist" /\ ring.group = g
  /\ IF stored THEN Upsert(ring) ELSE UNCHANGED rings
  /\ pc' = IF HighRisk(ring) THEN "alert" ELSE "evaluate"
  /\ ring' = IF HighRisk(ring) THEN ring ELSE None
  /\ UNCHANGED <<graph, catalog, present, tries, queue, found, taskVars, alertVars>>

\* Each alert of rs reaches the topic or not; flush() does not tell.
Publish(rs, publisher) ==
  \E sent \in SUBSET {r.group : r \in rs} :
    /\ delivered' = [g \in Groups |-> delivered[g] \cup
                       (IF g \in sent THEN {publisher} ELSE {})]
    /\ lost' = [g \in Groups |-> lost[g] \cup
                  (IF \E r \in rs : r.group = g /\ g \notin sent
                   THEN {publisher} ELSE {})]

PublishAlert ==
  /\ pc = "alert"
  /\ Publish({ring}, "detector")
  /\ ring' = None
  /\ pc' = "evaluate"
  /\ UNCHANGED <<graph, catalog, present, rings, tries, queue, found, taskVars>>

\* Mutant: the projection is kept for the next detection.
Drops_Never(dropped) == UNCHANGED catalog

\* A drop that fails is logged.
Drops(dropped) == catalog' = IF dropped THEN None ELSE catalog

DetectionEnds ==
  /\ pc' = "downstream"
  /\ tries' = 0
  /\ queue' = {} /\ found' = {} /\ ring' = None

FinishDetection(dropped) ==
  /\ pc = "evaluate" /\ queue = {}
  /\ Drops(dropped)
  /\ summary' = found
  /\ DetectionEnds
  /\ UNCHANGED <<graph, present, rings, verdict, paged, alertVars>>

\* Neo4j refuses a query, or the projection is gone: detect() raises past its
\* clean-up, and the task returns an empty summary.
DetectionRaises ==
  /\ \/ pc \in {"project", "louvain"}
     \/ pc = "evaluate" /\ \E g \in queue : Size[g] >= MinSize
  /\ summary' = {}
  /\ DetectionEnds
  /\ UNCHANGED <<graph, catalog, present, rings, verdict, paged, alertVars>>

\* Louvain on a projection that is gone.
LouvainRefused == pc = "louvain" /\ catalog = None /\ DetectionRaises

\* Mutant: one attempt too many.
RetryLeft_OneMore == tries <= Retries

RetryLeft == tries < Retries

\* The worker dies: Airflow runs the task again, or fails the DAG run.
DetectorDies ==
  /\ pc \in {"project", "louvain", "evaluate", "persist", "alert"}
  /\ IF RetryLeft
       THEN pc' = "project" /\ tries' = tries + 1
       ELSE pc' = "idle" /\ tries' = 0
  /\ queue' = {} /\ found' = {} /\ ring' = None
  /\ UNCHANGED <<graph, catalog, present, rings, taskVars, alertVars>>

----------------------------------------------------------------------------
(* The tasks that read the detection's summary.                             *)

Total == Cardinality(summary)
Synthetic == Cardinality({r \in summary : r.synthetic})

\* Mutant: a run without rings has precision zero.
Passes_NoExemption == Total > 0 /\ 100 * Synthetic >= 85 * Total

\* precision >= 0.85, or there is nothing to be precise about.
Passes == Total = 0 \/ 100 * Synthetic >= 85 * Total

EvaluateCoverage ==
  /\ pc = "downstream" /\ verdict = "none"
  /\ verdict' = IF Passes THEN "passed" ELSE "failed"
  /\ UNCHANGED <<graph, catalog, present, rings, pc, tries, detectVars, summary, paged,
                 alertVars>>

ToPage == {r \in summary : Pages(r)}

PublishHighRisk ==
  /\ pc = "downstream" /\ ~paged
  /\ Publish(ToPage, "dag")
  /\ paged' = TRUE
  /\ UNCHANGED <<graph, catalog, present, rings, pc, tries, detectVars, summary, verdict>>

\* The worker dies before, among or after its alerts.
PublisherDies ==
  /\ pc = "downstream" /\ ~paged
  /\ \E rs \in SUBSET ToPage : Publish(rs, "dag")
  /\ IF RetryLeft
       THEN tries' = tries + 1 /\ UNCHANGED pc
       ELSE tries' = 0 /\ pc' = "idle"
  /\ UNCHANGED <<graph, catalog, present, rings, detectVars, taskVars>>

\* report_detection_summary; the DAG run has succeeded.
Report ==
  /\ pc = "downstream" /\ verdict # "none" /\ paged
  /\ pc' = "idle"
  /\ tries' = 0
  /\ UNCHANGED <<graph, catalog, present, rings, detectVars, taskVars, alertVars>>

----------------------------------------------------------------------------
Next ==
  \/ \E g \in Groups : GraphChanges(g)
  \/ Neo4jRestarts
  \/ Start
  \/ ProjectGraph
  \/ RunLouvain
  \/ \E g \in Groups : SkipCommunity(g) \/ DetectRing(g)
  \/ \E g \in Groups, stored \in BOOLEAN : PersistRing(g, stored)
  \/ PublishAlert
  \/ \E dropped \in BOOLEAN : FinishDetection(dropped)
  \/ DetectionRaises
  \/ DetectorDies
  \/ EvaluateCoverage
  \/ PublishHighRisk
  \/ PublisherDies
  \/ Report

Spec == Init /\ [][Next]_vars

\* The scheduler starts a run every day and the tasks go on; whatever Neo4j can
\* refuse it does not refuse for ever, and the worker does not die for ever at
\* the same call.
Fairness ==
  /\ WF_vars(Start) /\ WF_vars(LouvainRefused) /\ SF_vars(PublishAlert)
  /\ WF_vars(EvaluateCoverage) /\ WF_vars(PublishHighRisk) /\ WF_vars(Report)
  /\ SF_vars(ProjectGraph) /\ SF_vars(RunLouvain) /\ SF_vars(FinishDetection(TRUE))
  /\ \A g \in Groups : /\ SF_vars(SkipCommunity(g) \/ DetectRing(g))
                       /\ SF_vars(PersistRing(g, TRUE))

FairSpec == Spec /\ Fairness

----------------------------------------------------------------------------
(* Properties.                                                              *)

\* With the weights of _compute_risk_score a ring of live accounts scores at
\* most 0.80: at a threshold above that (0.85 as shipped) only rings of injected
\* accounts are ever alerted on, whatever the graph holds and whatever fails.
OnlyInjectedRingsAreAlerted ==
  AlertThreshold > 8000 =>
    \A g \in Groups : delivered[g] \cup lost[g] # {} => g \in Injected

\* Both publishers agree on what is high-risk: once publish_high_risk_alerts is
\* done, each high-risk ring reported has been through detect()'s own alert
\* and the DAG's, so that losing one of them loses no alert.
AlertsGoOutTwice ==
  paged => \A r \in summary :
             HighRisk(r) => delivered[r.group] \cup lost[r.group] = Publishers

\* Hard Rule 6 as evaluate_synthetic_coverage checks it is failed only by rings
\* of live accounts: no injected ring that was missed can fail it.
OnlyLiveRingsFailTheRule ==
  verdict = "failed" => \E r \in summary : r.group \notin Injected

\* The tag of Hard Rule 3: a ring is stored and reported as synthetic exactly if
\* its members are injected accounts, also after updates and failed detections.
TagsAreTrue ==
  /\ \A g \in Groups : rings[g] # None => (rings[g].synthetic <=> g \in Injected)
  /\ \A r \in summary : r.synthetic <=> r.group \in Injected

\* What the four properties above rest on.  A ring under way scores and is tagged
\* as its group's edges say:
Truthful(r) ==
  /\ r.synthetic <=> r.group \in Injected
  /\ r.group \notin Injected => r.score <= 8000

RingsTruthful ==
  /\ \A r \in found \cup summary : Truthful(r)
  /\ IsFiniteSet(found) /\ IsFiniteSet(summary)
  /\ \A g \in Groups : rings[g] # None => (rings[g].synthetic <=> g \in Injected)

Alerted(r) == delivered[r.group] \cup lost[r.group]

\* the loop works on one ring at a time and has alerted on the others it found;
LoopAlerts ==
  /\ pc \notin {"evaluate", "persist", "alert"} => found = {}
  /\ pc \in {"persist", "alert"} => ring \in found
  /\ pc = "alert" => HighRisk(ring)
  /\ \A r \in found : HighRisk(r) =>
       (pc \in {"persist", "alert"} /\ r = ring) \/ "detector" \in Alerted(r)

\* what is reported has been through the loop, and through the tasks done;
TasksDone ==
  /\ pc \notin {"idle", "downstream"} =>
       summary = {} /\ verdict = "none" /\ ~paged
  /\ \A r \in summary : HighRisk(r) => "detector" \in Alerted(r)
  /\ paged => \A r \in summary : Pages(r) => "dag" \in Alerted(r)
  /\ verdict = "failed" => ~Passes

\* nothing else is alerted on.
DetectionInv ==
  /\ TypeOK /\ RingsTruthful /\ LoopAlerts /\ TasksDone
  /\ OnlyInjectedRingsAreAlerted

\* A group that stays detectable is stored as a ring in the end: a projection
\* left behind by a failed detection hides it for one detection, not for ever.
DetectableIsStored ==
  \A g \in Groups : <>[]IsRing(g) => <>(rings[g] # None)

=============================================================================

---------------------- MODULE CommunityDetectionProofs ----------------------
(***************************************************************************)
(* DetectionInv is inductive, and what follows from it.  One lemma per     *)
(* conjunct, each by cases on the actions.                                 *)
(***************************************************************************)
EXTENDS CommunityDetection, FiniteSetTheorems, TLAPS

USE DEF Publishers

\* The score is a number of ten-thousandths, and at most 8000 of them for a
\* profile without synthetic edges.
LEMMA ScoreBounds ==
  ASSUME NEW p \in Signal
  PROVE  /\ RiskScore(p) \in Scores
         /\ p.share = 0 => RiskScore(p) <= 8000
<1> DEFINE n == p.ips + p.devices
<1>1. p.uni \in 0 .. 100 /\ p.share \in 0 .. 100 /\ n \in Nat
  BY DEF Signal
<1>2. AtMost(5, n) \in 0 .. 5
  BY <1>1 DEF AtMost
<1> HIDE DEF n
<1>3. RiskScore(p) = AtMost(10000, 50 * p.uni + 600 * AtMost(5, n) + 20 * p.share)
  BY DEF RiskScore, n
<1> DEFINE u == p.uni
           s == p.share
           c == AtMost(5, n)
           total == 50 * u + 600 * c + 20 * s
<1>4. u \in 0 .. 100 /\ s \in 0 .. 100 /\ c \in 0 .. 5
  BY <1>1, <1>2
<1>5. RiskScore(p) = IF total < 10000 THEN total ELSE 10000
  BY <1>3 DEF AtMost
<1> HIDE DEF u, s, c
<1>6. total \in Nat /\ (s = 0 => total <= 8000)
  BY <1>4
<1> HIDE DEF total
<1>7. RiskScore(p) \in Scores /\ (s = 0 => RiskScore(p) <= 8000)
  BY <1>5, <1>6 DEF Scores
<1> QED
  BY <1>7 DEF s

\* RingOf translates the graph truthfully.
LEMMA RingOfTruthful ==
  ASSUME TypeOK, NEW g \in Groups, IsRing(g)
  PROVE  RingOf(g) \in Rings /\ Truthful(RingOf(g)) /\ RingOf(g).group = g
<1>1. graph[g] \in ProfilesOf(g) /\ graph[g] \in Signal
  BY DetectionConstantsOK DEF TypeOK, IsRing, HasRow, ProfilesOf
<1>2. /\ g \in Injected => graph[g].share = 100
      /\ g \notin Injected => graph[g].share = 0
  BY <1>1 DEF ProfilesOf
<1>3. /\ RiskScore(graph[g]) \in Scores
      /\ graph[g].share = 0 => RiskScore(graph[g]) <= 8000
  BY <1>1, ScoreBounds
<1>4. graph[g].share > 0 <=> g \in Injected
  BY <1>2
<1>5. (graph[g].share > 0) \in BOOLEAN
  OBVIOUS
<1> DEFINE score == RiskScore(graph[g])
           tag == graph[g].share > 0
<1>6. /\ score \in Scores /\ tag \in BOOLEAN
      /\ tag <=> g \in Injected
      /\ g \notin Injected => score <= 8000
  BY <1>2, <1>3, <1>4, <1>5
<1>7. RingOf(g) = [group |-> g, score |-> score, synthetic |-> tag]
  BY DEF RingOf
<1> HIDE DEF score, tag
<1> QED
  BY <1>6, <1>7 DEF Truthful, Rings

\* A ring's score is a natural number.
LEMMA ScoreIsNatural == \A r \in Rings : r.score \in Nat
<1> SUFFICES ASSUME NEW r \in Rings PROVE r.score \in Nat
  OBVIOUS
<1>1. r.score \in Scores
  BY DEF Rings
<1>2. ASSUME NEW n \in Scores PROVE n \in Nat
  BY DEF Scores
<1> QED
  BY <1>1, <1>2

\* Publish gives every ring of rs its publisher, delivered or lost, and nothing else.
LEMMA PublishEffect ==
  ASSUME TypeOK, NEW rs \in SUBSET Rings, NEW publisher \in Publishers,
         Publish(rs, publisher)
  PROVE  /\ delivered' \in [Groups -> SUBSET Publishers]
         /\ lost' \in [Groups -> SUBSET Publishers]
         /\ \A g \in Groups :
              delivered'[g] \cup lost'[g] = delivered[g] \cup lost[g] \cup
                (IF \E r \in rs : r.group = g THEN {publisher} ELSE {})
<1>1. PICK sent \in SUBSET {r.group : r \in rs} :
        /\ delivered' = [g \in Groups |-> delivered[g] \cup
                           (IF g \in sent THEN {publisher} ELSE {})]
        /\ lost' = [g \in Groups |-> lost[g] \cup
                      (IF \E r \in rs : r.group = g /\ g \notin sent
                       THEN {publisher} ELSE {})]
  BY DEF Publish
<1>2. /\ delivered' \in [Groups -> SUBSET Publishers]
      /\ lost' \in [Groups -> SUBSET Publishers]
  BY <1>1 DEF TypeOK
<1>3. ASSUME NEW g \in Groups
      PROVE  delivered'[g] \cup lost'[g] = delivered[g] \cup lost[g] \cup
               (IF \E r \in rs : r.group = g THEN {publisher} ELSE {})
  <2>1. g \in sent => \E r \in rs : r.group = g
    OBVIOUS
  <2>2. delivered'[g] = delivered[g] \cup (IF g \in sent THEN {publisher} ELSE {})
    BY <1>1
  <2>3. lost'[g] = lost[g] \cup (IF \E r \in rs : r.group = g /\ g \notin sent
                                 THEN {publisher} ELSE {})
    BY <1>1
  <2> QED
    BY <2>1, <2>2, <2>3
<1> QED
  BY <1>2, <1>3

----------------------------------------------------------------------------
(* Types.                                                                   *)

LEMMA TypeStep ==
  ASSUME DetectionInv, [Next]_vars
  PROVE  TypeOK'
<1> USE DetectionConstantsOK
<1>0. TypeOK /\ LoopAlerts
  BY DEF DetectionInv
<1>1. ASSUME NEW g \in Groups, GraphChanges(g) PROVE TypeOK'
  BY <1>0, <1>1 DEF GraphChanges, TypeOK, ProfilesOf, detectVars, taskVars, alertVars
<1>2. CASE Neo4jRestarts
  BY <1>0, <1>2 DEF Neo4jRestarts, TypeOK, detectVars, taskVars, alertVars
<1>3. CASE Start
  <2>1. delivered' \in [Groups -> SUBSET Publishers] /\ lost' \in [Groups -> SUBSET Publishers]
    BY <1>3 DEF Start, NoAlerts
  <2>2. tries' \in 0 .. Retries
    BY <1>3 DEF Start
  <2> QED
    BY <1>0, <1>3, <2>1, <2>2 DEF Start, TypeOK, detectVars
<1>4. CASE ProjectGraph
  <2>1. Communities \subseteq Groups
    BY DEF Communities
  <2>2. catalog' = None \/ catalog' \subseteq Groups
    BY <1>0, <1>4, <2>1 DEF ProjectGraph, Projection, TypeOK
  <2> QED
    BY <1>0, <1>4, <2>1, <2>2 DEF ProjectGraph, TypeOK, detectVars, taskVars, alertVars
<1>5. CASE RunLouvain
  BY <1>0, <1>5 DEF RunLouvain, TypeOK, taskVars, alertVars
<1>6. ASSUME NEW g \in Groups, SkipCommunity(g) PROVE TypeOK'
  BY <1>0, <1>6 DEF SkipCommunity, TypeOK, taskVars, alertVars
<1>7. ASSUME NEW g \in Groups, DetectRing(g) PROVE TypeOK'
  <2>1. RingOf(g) \in Rings
    BY <1>0, <1>7, RingOfTruthful DEF DetectRing
  <2> QED
    BY <1>0, <1>7, <2>1 DEF DetectRing, TypeOK, taskVars, alertVars
<1>8. ASSUME NEW g \in Groups, NEW stored \in BOOLEAN, PersistRing(g, stored)
      PROVE  TypeOK'
  <2>1. ring \in Rings
    BY <1>0, <1>8 DEF LoopAlerts, TypeOK, PersistRing
  <2>2. rings' \in [Groups -> [score : Scores, synthetic : BOOLEAN] \cup {None}]
    <3>1. CASE stored
      <4> DEFINE node == [score |-> ring.score,
                          synthetic |-> IF rings[ring.group] = None THEN ring.synthetic
                                        ELSE rings[ring.group].synthetic]
      <4>1. node \in [score : Scores, synthetic : BOOLEAN]
        <5>1. rings[ring.group] # None => rings[ring.group].synthetic \in BOOLEAN
          BY <1>0, <2>1 DEF TypeOK, Rings
        <5> QED
          BY <2>1, <5>1 DEF Rings
      <4>2. rings' = [rings EXCEPT ![ring.group] = node]
        BY <1>8, <3>1 DEF PersistRing, Upsert
      <4> HIDE DEF node
      <4> QED
        BY <1>0, <4>1, <4>2 DEF TypeOK
    <3>2. CASE ~stored
      BY <1>0, <1>8, <3>2 DEF PersistRing, TypeOK
    <3> QED
      BY <3>1, <3>2
  <2> QED
    BY <1>0, <1>8, <2>1, <2>2 DEF PersistRing, TypeOK, taskVars, alertVars
<1>9. CASE PublishAlert
  <2>1. {ring} \in SUBSET Rings
    BY <1>0, <1>9 DEF LoopAlerts, TypeOK, PublishAlert
  <2>2. /\ delivered' \in [Groups -> SUBSET Publishers]
        /\ lost' \in [Groups -> SUBSET Publishers]
    BY <1>0, <1>9, <2>1, PublishEffect DEF PublishAlert
  <2> QED
    BY <1>0, <1>9, <2>2 DEF PublishAlert, TypeOK, taskVars
<1>10. ASSUME NEW dropped \in BOOLEAN, FinishDetection(dropped) PROVE TypeOK'
  BY <1>0, <1>10 DEF FinishDetection, DetectionEnds, Drops, TypeOK, alertVars
<1>11. CASE DetectionRaises
  BY <1>0, <1>11 DEF DetectionRaises, DetectionEnds, TypeOK, alertVars
<1>12. CASE DetectorDies
  BY <1>0, <1>12 DEF DetectorDies, RetryLeft, TypeOK, taskVars, alertVars
<1>13. CASE EvaluateCoverage
  BY <1>0, <1>13 DEF EvaluateCoverage, TypeOK, detectVars, alertVars
<1>14. CASE PublishHighRisk
  <2>1. ToPage \in SUBSET Rings
    BY <1>0 DEF ToPage, TypeOK
  <2>2. /\ delivered' \in [Groups -> SUBSET Publishers]
        /\ lost' \in [Groups -> SUBSET Publishers]
    BY <1>0, <1>14, <2>1, PublishEffect DEF PublishHighRisk
  <2> QED
    BY <1>0, <1>14, <2>2 DEF PublishHighRisk, TypeOK, detectVars
<1>15. CASE PublisherDies
  <2>1. PICK rs \in SUBSET ToPage : Publish(rs, "dag")
    BY <1>15 DEF PublisherDies
  <2>2. rs \in SUBSET Rings
    BY <1>0 DEF ToPage, TypeOK
  <2>3. /\ delivered' \in [Groups -> SUBSET Publishers]
        /\ lost' \in [Groups -> SUBSET Publishers]
    BY <1>0, <2>1, <2>2, PublishEffect
  <2> QED
    BY <1>0, <1>15, <2>3 DEF PublisherDies, RetryLeft, TypeOK, detectVars, taskVars
<1>16. CASE Report
  BY <1>0, <1>16 DEF Report, TypeOK, detectVars, taskVars, alertVars
<1>17. CASE UNCHANGED vars
  BY <1>0, <1>17 DEF TypeOK, vars, detectVars, taskVars, alertVars
<1> QED
  BY <1>1, <1>2, <1>3, <1>4, <1>5, <1>6, <1>7, <1>8, <1>9, <1>10, <1>11, <1>12,
     <1>13, <1>14, <1>15, <1>16, <1>17 DEF Next

----------------------------------------------------------------------------
(* Truthful rings.                                                          *)

LEMMA RingsTruthfulStep ==
  ASSUME DetectionInv, [Next]_vars
  PROVE  RingsTruthful'
<1>0. TypeOK /\ LoopAlerts /\ RingsTruthful
  BY DEF DetectionInv
<1>a. ASSUME UNCHANGED <<found, summary, rings>> PROVE RingsTruthful'
  BY <1>0, <1>a DEF RingsTruthful, Truthful
<1>b. ASSUME found' = {}, summary' \in {summary, found, {}}, UNCHANGED rings
      PROVE  RingsTruthful'
  <2>1. IsFiniteSet({})
    BY FS_EmptySet
  <2>2. found' \cup summary' \subseteq found \cup summary
    BY <1>b
  <2>3. IsFiniteSet(found') /\ IsFiniteSet(summary')
    BY <1>0, <1>b, <2>1 DEF RingsTruthful
  <2> QED
    BY <1>0, <1>b, <2>2, <2>3 DEF RingsTruthful, Truthful
<1>1. CASE Start
  <2>1. IsFiniteSet({})
    BY FS_EmptySet
  <2> QED
    BY <1>0, <1>1, <2>1 DEF Start, detectVars, RingsTruthful, Truthful
<1>2. ASSUME NEW g \in Groups, DetectRing(g) PROVE RingsTruthful'
  <2>1. Truthful(RingOf(g))
    BY <1>0, <1>2, RingOfTruthful DEF DetectRing
  <2>2. found' = found \cup {RingOf(g)} /\ UNCHANGED <<summary, rings>>
    BY <1>2 DEF DetectRing, taskVars
  <2>3. IsFiniteSet(found')
    BY <1>0, <2>2, FS_AddElement DEF RingsTruthful
  <2> QED
    BY <1>0, <2>1, <2>2, <2>3 DEF RingsTruthful, Truthful
<1>3. ASSUME NEW g \in Groups, NEW stored \in BOOLEAN, PersistRing(g, stored)
      PROVE  RingsTruthful'
  <2>1. ring \in Rings /\ Truthful(ring)
    BY <1>0, <1>3 DEF LoopAlerts, TypeOK, PersistRing, RingsTruthful
  <2>2. UNCHANGED <<found, summary>>
    BY <1>3 DEF PersistRing, taskVars
  <2>3. CASE stored
    <3>1. ASSUME NEW h \in Groups, rings'[h] # None
          PROVE  rings'[h].synthetic <=> h \in Injected
      <4>1. CASE h = ring.group
        <5>1. rings'[h].synthetic = IF rings[h] = None THEN ring.synthetic
                                    ELSE rings[h].synthetic
          BY <1>0, <1>3, <2>3, <4>1 DEF PersistRing, Upsert, TypeOK
        <5> QED
          BY <1>0, <2>1, <4>1, <5>1 DEF RingsTruthful, Truthful
      <4>2. CASE h # ring.group
        <5>1. rings'[h] = rings[h]
          BY <1>0, <1>3, <2>3, <4>2 DEF PersistRing, Upsert, TypeOK
        <5> QED
          BY <1>0, <3>1, <5>1 DEF RingsTruthful
      <4> QED
        BY <4>1, <4>2, Zenon
    <3> QED
      BY <1>0, <2>2, <3>1 DEF RingsTruthful, Truthful
  <2>4. CASE ~stored
    BY <1>a, <1>3, <2>2, <2>4 DEF PersistRing
  <2> QED
    BY <2>3, <2>4
<1>4. ASSUME NEW dropped \in BOOLEAN, FinishDetection(dropped) PROVE RingsTruthful'
  BY <1>b, <1>4 DEF FinishDetection, DetectionEnds
<1>5. CASE DetectionRaises
  BY <1>b, <1>5 DEF DetectionRaises, DetectionEnds
<1>6. CASE DetectorDies
  BY <1>b, <1>6 DEF DetectorDies, taskVars
<1>7. CASE \/ \E g \in Groups : GraphChanges(g) \/ SkipCommunity(g)
          \/ Neo4jRestarts \/ ProjectGraph \/ RunLouvain \/ PublishAlert
          \/ EvaluateCoverage \/ PublishHighRisk \/ PublisherDies \/ Report
          \/ UNCHANGED vars
  BY <1>a, <1>7 DEF GraphChanges, SkipCommunity, Neo4jRestarts, ProjectGraph, RunLouvain,
     PublishAlert, EvaluateCoverage, PublishHighRisk, PublisherDies, Report, vars,
     detectVars, taskVars
<1> QED
  BY <1>1, <1>2, <1>3, <1>4, <1>5, <1>6, <1>7 DEF Next

----------------------------------------------------------------------------
(* Alerts of the loop and of the tasks.                                     *)

\* No step but Start takes an alert back.
LEMMA AlertsGrow ==
  ASSUME DetectionInv, [Next]_vars, ~Start, NEW r \in Rings
  PROVE  Alerted(r) \subseteq Alerted(r)'
<1>0. TypeOK /\ LoopAlerts
  BY DEF DetectionInv
<1>1. r.group \in Groups
  BY DEF Rings
<1>2. ASSUME NEW rs \in SUBSET Rings, NEW publisher \in Publishers,
             Publish(rs, publisher)
      PROVE  Alerted(r) \subseteq Alerted(r)'
  BY <1>0, <1>1, <1>2, PublishEffect DEF Alerted
<1>3. CASE PublishAlert
  <2>1. {ring} \in SUBSET Rings
    BY <1>0, <1>3 DEF LoopAlerts, TypeOK, PublishAlert
  <2> QED
    BY <1>2, <1>3, <2>1 DEF PublishAlert
<1>4. CASE PublishHighRisk
  <2>1. ToPage \in SUBSET Rings
    BY <1>0 DEF ToPage, TypeOK
  <2> QED
    BY <1>2, <1>4, <2>1 DEF PublishHighRisk
<1>5. CASE PublisherDies
  <2>1. PICK rs \in SUBSET ToPage : Publish(rs, "dag")
    BY <1>5 DEF PublisherDies
  <2>2. rs \in SUBSET Rings
    BY <1>0 DEF ToPage, TypeOK
  <2> QED
    BY <1>2, <2>1, <2>2
<1>6. CASE UNCHANGED alertVars
  BY <1>6 DEF Alerted, alertVars
<1>7. PublishAlert \/ PublishHighRisk \/ PublisherDies \/ UNCHANGED alertVars
  BY DEF Next, GraphChanges, Neo4jRestarts, ProjectGraph, RunLouvain, SkipCommunity,
     DetectRing, PersistRing, FinishDetection, DetectionRaises, DetectorDies,
     EvaluateCoverage, Report, vars, alertVars
<1> QED
  BY <1>3, <1>4, <1>5, <1>6, <1>7

LEMMA LoopAlertsStep ==
  ASSUME DetectionInv, [Next]_vars
  PROVE  LoopAlerts'
<1>0. TypeOK /\ LoopAlerts
  BY DEF DetectionInv
<1>1. \A r \in found : ~Start => Alerted(r) \subseteq Alerted(r)'
  BY <1>0, AlertsGrow DEF TypeOK
<1>2. CASE UNCHANGED <<ring, found, pc>>
  <2>1. ~Start
    BY <1>2 DEF Start
  <2> QED
    BY <1>0, <1>1, <1>2, <2>1 DEF LoopAlerts, HighRisk
<1>3. CASE found' = {} /\ pc' \notin {"evaluate", "persist", "alert"}
  BY <1>3 DEF LoopAlerts
<1>4. CASE RunLouvain
  BY <1>0, <1>4 DEF RunLouvain, LoopAlerts
<1>5. ASSUME NEW g \in Groups, SkipCommunity(g) PROVE LoopAlerts'
  BY <1>2, <1>5 DEF SkipCommunity
<1>6. ASSUME NEW g \in Groups, DetectRing(g) PROVE LoopAlerts'
  <2>1. /\ pc = "evaluate" /\ pc' = "persist"
        /\ ring' = RingOf(g) /\ found' = found \cup {RingOf(g)}
    BY <1>6 DEF DetectRing
  <2>2. \A r \in found : HighRisk(r) => "detector" \in Alerted(r)'
    BY <1>0, <1>1, <2>1 DEF LoopAlerts, Start
  <2> QED
    BY <2>1, <2>2 DEF LoopAlerts, HighRisk
<1>7. ASSUME NEW g \in Groups, NEW stored \in BOOLEAN, PersistRing(g, stored)
      PROVE  LoopAlerts'
  <2>1. /\ pc = "persist" /\ UNCHANGED found
        /\ pc' = IF HighRisk(ring) THEN "alert" ELSE "evaluate"
        /\ ring' = IF HighRisk(ring) THEN ring ELSE None
    BY <1>7 DEF PersistRing
  <2>2. \A r \in found : HighRisk(r) => r = ring \/ "detector" \in Alerted(r)'
    BY <1>0, <1>1, <2>1 DEF LoopAlerts, Start
  <2>3. ring \in found
    BY <1>0, <2>1 DEF LoopAlerts
  <2>4. CASE HighRisk(ring)
    BY <2>1, <2>2, <2>3, <2>4 DEF LoopAlerts, HighRisk
  <2>5. CASE ~HighRisk(ring)
    BY <2>1, <2>2, <2>5 DEF LoopAlerts, HighRisk
  <2> QED
    BY <2>4, <2>5
<1>8. CASE PublishAlert
  <2>1. /\ pc = "alert" /\ pc' = "evaluate" /\ UNCHANGED found
        /\ Publish({ring}, "detector")
    BY <1>8 DEF PublishAlert
  <2>2. ring \in Rings
    BY <1>0, <2>1 DEF LoopAlerts, TypeOK
  <2>3. "detector" \in delivered'[ring.group] \cup lost'[ring.group]
    <3>1. ring.group \in Groups /\ {ring} \in SUBSET Rings
      BY <2>2 DEF Rings
    <3> QED
      BY <1>0, <2>1, <3>1, PublishEffect
  <2>4. \A r \in found : HighRisk(r) => r = ring \/ "detector" \in Alerted(r)'
    BY <1>0, <1>1, <2>1 DEF LoopAlerts, Start
  <2>5. \A r \in found : HighRisk(r) => "detector" \in Alerted(r)'
    BY <2>3, <2>4 DEF Alerted
  <2> QED
    BY <2>1, <2>5 DEF LoopAlerts, HighRisk
<1>9. CASE Start \/ ProjectGraph
  BY <1>0, <1>3, <1>9 DEF Start, ProjectGraph, detectVars, LoopAlerts
<1>10. CASE \/ \E dropped \in BOOLEAN : FinishDetection(dropped)
           \/ DetectionRaises \/ DetectorDies
  BY <1>3, <1>10 DEF FinishDetection, DetectionRaises, DetectionEnds, DetectorDies
<1>11. CASE PublisherDies \/ Report
  BY <1>0, <1>3, <1>11 DEF PublisherDies, Report, detectVars, LoopAlerts
<1>12. CASE \/ \E g \in Groups : GraphChanges(g)
           \/ Neo4jRestarts \/ EvaluateCoverage \/ PublishHighRisk \/ UNCHANGED vars
  BY <1>2, <1>12 DEF GraphChanges, Neo4jRestarts, EvaluateCoverage, PublishHighRisk,
     vars, detectVars
<1> QED
  BY <1>4, <1>5, <1>6, <1>7, <1>8, <1>9, <1>10, <1>11, <1>12 DEF Next

LEMMA TasksDoneStep ==
  ASSUME DetectionInv, [Next]_vars
  PROVE  TasksDone'
<1>0. TypeOK /\ LoopAlerts /\ TasksDone
  BY DEF DetectionInv
<1>1. ASSUME NEW r \in summary, ~Start PROVE Alerted(r) \subseteq Alerted(r)'
  BY <1>0, <1>1, AlertsGrow DEF TypeOK
<1>2. CASE Start
  BY <1>2 DEF Start, TasksDone
<1>3. ASSUME summary' = {}, verdict' = "none", ~paged' PROVE TasksDone'
  BY <1>3 DEF TasksDone
<1>4. ASSUME UNCHANGED <<summary, verdict, paged>>, ~Start,
             pc' \notin {"idle", "downstream"} => pc \notin {"idle", "downstream"}
      PROVE  TasksDone'
  <2>1. Passes' <=> Passes
    BY <1>4 DEF Passes, Total, Synthetic
  <2> QED
    BY <1>0, <1>1, <1>4, <2>1 DEF TasksDone, HighRisk, Pages
<1>5. ASSUME NEW dropped \in BOOLEAN, FinishDetection(dropped) PROVE TasksDone'
  <2>1. /\ pc = "evaluate" /\ pc' = "downstream" /\ summary' = found
        /\ UNCHANGED <<verdict, paged, delivered, lost>>
    BY <1>5 DEF FinishDetection, DetectionEnds, alertVars
  <2>2. verdict = "none" /\ ~paged
    BY <1>0, <2>1 DEF TasksDone
  <2>3. \A r \in found : HighRisk(r) => "detector" \in Alerted(r)'
    BY <1>0, <2>1 DEF LoopAlerts, Alerted
  <2> QED
    BY <2>1, <2>2, <2>3 DEF TasksDone, HighRisk
<1>6. CASE DetectionRaises
  BY <1>0, <1>3, <1>6 DEF DetectionRaises, DetectionEnds, TasksDone
<1>7. CASE DetectorDies
  <2>1. summary = {} /\ verdict = "none" /\ ~paged
    BY <1>0, <1>7 DEF DetectorDies, TasksDone
  <2> QED
    BY <1>3, <1>7, <2>1 DEF DetectorDies, taskVars
<1>8. CASE EvaluateCoverage
  <2>1. /\ pc = "downstream" /\ UNCHANGED <<pc, summary, paged>>
        /\ verdict' = IF Passes THEN "passed" ELSE "failed"
    BY <1>8 DEF EvaluateCoverage
  <2>2. Passes' <=> Passes
    BY <2>1 DEF Passes, Total, Synthetic
  <2>3. ~Start
    BY <2>1 DEF Start
  <2> QED
    BY <1>0, <1>1, <2>1, <2>2, <2>3 DEF TasksDone, HighRisk, Pages
<1>9. CASE PublishHighRisk
  <2>1. /\ pc = "downstream" /\ paged' /\ UNCHANGED <<pc, summary, verdict>>
        /\ Publish(ToPage, "dag")
    BY <1>9 DEF PublishHighRisk
  <2>2. ToPage \in SUBSET Rings
    BY <1>0 DEF ToPage, TypeOK
  <2>3. ASSUME NEW r \in summary, Pages(r) PROVE "dag" \in Alerted(r)'
    <3>1. r \in ToPage /\ r.group \in Groups
      BY <1>0, <2>3 DEF ToPage, TypeOK, Rings
    <3> QED
      BY <1>0, <2>1, <2>2, <3>1, PublishEffect DEF Alerted
  <2>4. Passes' <=> Passes
    BY <2>1 DEF Passes, Total, Synthetic
  <2>5. ~Start
    BY <2>1 DEF Start
  <2> QED
    BY <1>0, <1>1, <2>1, <2>3, <2>4, <2>5 DEF TasksDone, HighRisk, Pages
<1>10. ASSUME NEW g \in Groups, GraphChanges(g) \/ SkipCommunity(g) \/ DetectRing(g)
       PROVE  TasksDone'
  BY <1>2, <1>4, <1>10 DEF GraphChanges, SkipCommunity, DetectRing, taskVars
<1>11. ASSUME NEW g \in Groups, NEW stored \in BOOLEAN, PersistRing(g, stored)
       PROVE  TasksDone'
  BY <1>2, <1>4, <1>11 DEF PersistRing, taskVars
<1>12. CASE \/ Neo4jRestarts \/ ProjectGraph \/ RunLouvain \/ PublishAlert
           \/ PublisherDies \/ Report \/ UNCHANGED vars
  BY <1>2, <1>4, <1>12 DEF Neo4jRestarts, ProjectGraph, RunLouvain, PublishAlert,
     PublisherDies, Report, vars, taskVars
<1> QED
  BY <1>2, <1>5, <1>6, <1>7, <1>8, <1>9, <1>10, <1>11, <1>12 DEF Next

\* Only rings above the threshold are published, and they are truthful.
LEMMA OnlyInjectedStep ==
  ASSUME DetectionInv, [Next]_vars
  PROVE  OnlyInjectedRingsAreAlerted'
<1>0. TypeOK /\ LoopAlerts /\ RingsTruthful /\ OnlyInjectedRingsAreAlerted
  BY DEF DetectionInv
<1> SUFFICES ASSUME AlertThreshold > 8000, NEW g \in Groups,
                    (delivered[g] \cup lost[g] # {})'
             PROVE  g \in Injected
  BY DEF OnlyInjectedRingsAreAlerted
<1>1. ASSUME NEW rs \in SUBSET Rings, NEW publisher \in Publishers,
             Publish(rs, publisher),
             \A r \in rs : Truthful(r) /\ r.score >= AlertThreshold
      PROVE  g \in Injected
  <2>1. CASE delivered[g] \cup lost[g] # {}
    BY <1>0, <2>1 DEF OnlyInjectedRingsAreAlerted
  <2>2. CASE delivered[g] \cup lost[g] = {}
    <3>0. delivered'[g] \cup lost'[g] = delivered[g] \cup lost[g] \cup
            (IF \E r \in rs : r.group = g THEN {publisher} ELSE {})
      BY <1>0, <1>1, PublishEffect
    <3>1. PICK r \in rs : r.group = g
      BY <2>2, <3>0
    <3>2. r \in Rings
      BY <3>1
    <3>3. r.score \in Nat
      BY <3>2, ScoreIsNatural
    <3>4. AlertThreshold \in Nat
      BY DetectionConstantsOK
    <3> QED
      BY <1>1, <3>1, <3>3, <3>4 DEF Truthful
  <2> QED
    BY <2>1, <2>2
<1>2. CASE PublishAlert
  <2>1. /\ {ring} \in SUBSET Rings /\ Truthful(ring) /\ HighRisk(ring)
        /\ Publish({ring}, "detector")
    BY <1>0, <1>2 DEF PublishAlert, LoopAlerts, TypeOK, RingsTruthful
  <2> QED
    BY <1>1, <2>1 DEF HighRisk
<1>3. ToPage \in SUBSET Rings /\ \A r \in ToPage : Truthful(r) /\ r.score >= AlertThreshold
  BY <1>0 DEF ToPage, Pages, TypeOK, RingsTruthful
<1>4. CASE PublishHighRisk
  BY <1>1, <1>3, <1>4 DEF PublishHighRisk
<1>5. CASE PublisherDies
  BY <1>1, <1>3, <1>5 DEF PublisherDies
<1>6. CASE Start
  BY <1>6 DEF Start, NoAlerts
<1>7. CASE UNCHANGED alertVars
  BY <1>0, <1>7 DEF alertVars, OnlyInjectedRingsAreAlerted
<1>8. PublishAlert \/ PublishHighRisk \/ PublisherDies \/ Start \/ UNCHANGED alertVars
  BY DEF Next, GraphChanges, Neo4jRestarts, ProjectGraph, RunLouvain, SkipCommunity,
     DetectRing, PersistRing, FinishDetection, DetectionRaises, DetectorDies,
     EvaluateCoverage, Report, vars, alertVars
<1> QED
  BY <1>2, <1>4, <1>5, <1>6, <1>7, <1>8

----------------------------------------------------------------------------
(* The invariant and what follows from it.                                  *)

LEMMA InitImpliesInv ==
  ASSUME Init
  PROVE  DetectionInv
<1> USE DetectionConstantsOK
<1>1. graph \in [Groups -> Profiles \cup {None}]
      /\ \A g \in Groups : graph[g] # None => graph[g] \in ProfilesOf(g)
  BY DEF Init
<1>2. TypeOK
  <2>1. NoAlerts \in [Groups -> SUBSET Publishers]
    BY DEF NoAlerts
  <2>2. rings \in [Groups -> [score : Scores, synthetic : BOOLEAN] \cup {None}]
    BY DEF Init
  <2>3. tries \in 0 .. Retries
    BY DEF Init
  <2> QED
    BY <1>1, <2>1, <2>2, <2>3 DEF Init, TypeOK
<1>3. IsFiniteSet({})
  BY FS_EmptySet
<1>4. RingsTruthful
  BY <1>3 DEF Init, RingsTruthful
<1>5. LoopAlerts /\ TasksDone
  BY DEF Init, LoopAlerts, TasksDone
<1>6. OnlyInjectedRingsAreAlerted
  BY DEF Init, NoAlerts, OnlyInjectedRingsAreAlerted
<1> QED
  BY <1>2, <1>4, <1>5, <1>6 DEF DetectionInv

\* DetectionInv holds whatever the graph holds, Neo4j refuses and workers do.
THEOREM DetectionInvariant == Spec => []DetectionInv
<1>1. Init => DetectionInv
  BY InitImpliesInv
<1>2. DetectionInv /\ [Next]_vars => DetectionInv'
  BY TypeStep, RingsTruthfulStep, LoopAlertsStep, TasksDoneStep, OnlyInjectedStep
     DEF DetectionInv
<1> QED
  BY <1>1, <1>2, PTL DEF Spec

\* No ring of live accounts is ever alerted on, at any threshold above 0.80.
THEOREM LiveRingsRaiseNoAlert == Spec => []OnlyInjectedRingsAreAlerted
<1>1. DetectionInv => OnlyInjectedRingsAreAlerted
  BY DEF DetectionInv
<1> QED
  BY <1>1, DetectionInvariant, PTL

\* Every high-risk ring a finished run reports went through both publishers.
THEOREM BothPublishersAlert == Spec => []AlertsGoOutTwice
<1>1. DetectionInv => AlertsGoOutTwice
  <2> SUFFICES ASSUME DetectionInv, paged, NEW r \in summary, HighRisk(r)
               PROVE  delivered[r.group] \cup lost[r.group] = Publishers
    BY DEF AlertsGoOutTwice
  <2>1. "detector" \in Alerted(r) /\ "dag" \in Alerted(r)
    BY DEF DetectionInv, TasksDone, HighRisk, Pages
  <2>2. r.group \in Groups
    BY DEF DetectionInv, TypeOK, Rings
  <2>3. delivered[r.group] \cup lost[r.group] \subseteq Publishers
    BY <2>2 DEF DetectionInv, TypeOK
  <2> QED
    BY <2>1, <2>3 DEF Alerted
<1> QED
  BY <1>1, DetectionInvariant, PTL

\* The check of Hard Rule 6 cannot be failed by an injected ring.
THEOREM RuleFailsOnLiveRings == Spec => []OnlyLiveRingsFailTheRule
<1>1. DetectionInv => OnlyLiveRingsFailTheRule
  <2> SUFFICES ASSUME DetectionInv, verdict = "failed",
                      \A r \in summary : r.group \in Injected
               PROVE  FALSE
    BY DEF OnlyLiveRingsFailTheRule
  <2>1. \A r \in summary : r.synthetic
    BY DEF DetectionInv, RingsTruthful, Truthful
  <2>2. {r \in summary : r.synthetic} = summary
    BY <2>1
  <2>3. Cardinality(summary) \in Nat
    BY FS_CardinalityType DEF DetectionInv, RingsTruthful
  <2>4. Total \in Nat /\ Synthetic = Total
    BY <2>2, <2>3 DEF Total, Synthetic
  <2>5. Passes
    BY <2>4 DEF Passes
  <2> QED
    BY <2>5 DEF DetectionInv, TasksDone
<1> QED
  BY <1>1, DetectionInvariant, PTL

\* The synthetic tag says what the members are.
THEOREM TagsHold == Spec => []TagsAreTrue
<1>1. DetectionInv => TagsAreTrue
  BY DEF DetectionInv, RingsTruthful, Truthful, TagsAreTrue
<1> QED
  BY <1>1, DetectionInvariant, PTL

\* Rings, alerts and the projection keep their types.
THEOREM DetectionTypes == Spec => []TypeOK
<1>1. DetectionInv => TypeOK
  BY DEF DetectionInv
<1> QED
  BY <1>1, DetectionInvariant, PTL

=============================================================================

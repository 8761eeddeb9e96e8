--------------------------- MODULE MCDriftDetection ---------------------------
(***************************************************************************)
(* A transaction of the customer a, run by the Celery chain; a library     *)
(* call about a in the tenant t1; and an evaluation of a job about e, whom *)
(* nobody knows: every job of an evaluation has the same embedding.        *)
(***************************************************************************)
EXTENDS DriftDetection

CONSTANTS a, e, t1, chained, called, eval1, home, odd

MCMode == [j \in Jobs |-> CASE j = chained -> "chain" [] j = called -> "call"
                            [] OTHER -> "eval"]
MCAccount == [j \in Jobs |-> IF j \in {chained, called} THEN a ELSE e]
MCTenant == [j \in Jobs |-> IF j = called THEN t1 ELSE "default"]
MCBehaviour == [j \in Jobs |-> IF j = called THEN home ELSE odd]
MCEvalJobs == <<eval1>>

MCSimilarity ==
  [p \in Shapes \X Shapes |->
     CASE p[1] = p[2] -> 100
       [] OTHER -> 60]

\* get_threshold: a high-value segment for the chained transaction.
MCThreshold == [j \in Jobs |-> IF j = chained THEN 90 ELSE 85]

\* At first a has one profile, in the tenant's namespace and unlike the behaviour there.
MCInit ==
  /\ Init
  /\ {k \in Keys : clean[k] # None} = {<<t1, Token(Raw(a))>>}
  /\ clean[t1, Token(Raw(a))].shape = odd

MCFairSpec == MCInit /\ [][Next]_vars /\ Fairness
=============================================================================

--------------------------- MODULE RedTeamLedger ---------------------------
(***************************************************************************)
(* What the red-team cycle promises about one synthetic scenario, apart    *)
(* from how Airflow, the attacker agent and the Kafka producers bring it   *)
(* about: a scenario is approved (an attempt that passed validation is on  *)
(* record) before any of its events is published, its injection is closed  *)
(* at most once and nothing of it is published afterwards, and only a      *)
(* closed injection gets an injection record.                              *)
(***************************************************************************)

CONSTANT Scenario  \* the identities scenarios can have

VARIABLES
  approved,   \* scenarios with a recorded attempt that passed validation
  published,  \* scenarios at least one of whose events was produced
  closed,     \* scenarios whose injection ran to its end
  audited     \* scenarios with an injection record

ledgerVars == <<approved, published, closed, audited>>

Init ==
  /\ approved = {}
  /\ published = {}
  /\ closed = {}
  /\ audited = {}

Approve(s) ==
  /\ approved' = approved \cup {s}
  /\ UNCHANGED <<published, closed, audited>>

Publish(s) ==
  /\ s \in approved \ closed
  /\ published' = published \cup {s}
  /\ UNCHANGED <<approved, closed, audited>>

Close(s) ==
  /\ s \in approved \ closed
  /\ closed' = closed \cup {s}
  /\ UNCHANGED <<approved, published, audited>>

Audit(s) ==
  /\ s \in closed
  /\ audited' = audited \cup {s}
  /\ UNCHANGED <<approved, published, closed>>

Next == \E s \in Scenario : Approve(s) \/ Publish(s) \/ Close(s) \/ Audit(s)

Spec == Init /\ [][Next]_ledgerVars

----------------------------------------------------------------------------

\* What the ledger is for: only what is approved is published, and only that closed.
PublishedIsApproved == published \cup closed \subseteq approved

=============================================================================

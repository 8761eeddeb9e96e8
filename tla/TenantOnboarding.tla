--------------------------- MODULE TenantOnboarding ---------------------------
(***************************************************************************)
(* onboarding_dag beside the tenants API: six tasks in a row that check    *)
(* the tenant's row, write its history to the graph all tenants share,     *)
(* build profiles, compute a score, trigger the attack cycle and announce  *)
(* the tenant.  The DAG limits neither its active runs nor the tenants     *)
(* they are about.                                                         *)
(***************************************************************************)
EXTENDS TenantProvisioning, FiniteSets

CONSTANTS
  Runs,        \* runs of the DAG
  NumEvents,   \* bootstrap events of a tenant
  Nodes,       \* account and merchant ids
  NodesOf,     \* the ids an event of a tenant refers to, a function
  Retries      \* retries of a task

Events == 1 .. NumEvents

ASSUME OnboardingConstantsOK ==
  /\ IsFiniteSet(Runs)
  /\ NumEvents \in Nat
  /\ NodesOf \in [Tenants \X Events -> SUBSET Nodes]
  /\ Retries \in Nat

VARIABLES
  constrained,  \* whether the constraints of constraints.cypher were applied
  dryRun,       \* SYNTHETIC_INJECTION_DRY_RUN
  switchOn,     \* RED_TEAM_ENABLED
  owners,       \* the tenants that have a node with an id
  copies,       \* how often a tenant's event is in the graph
  run,          \* the runs of the DAG
  attacks,      \* runs of attack_orchestrator that were triggered for a tenant
  onboarded,    \* tenants with the Variable TENANT_..._ONBOARDED
  backfills     \* ghost: attempts of historical_backfill for a tenant

settings == <<constrained, dryRun>>
graphVars == <<owners, copies>>
vars == <<row, flagged, client, at, ready, errors, hit, told, unsure, requests, faults,
          constrained, dryRun, switchOn, owners, copies, run, attacks, onboarded, backfills>>

Tasks == {"validate", "backfill", "profiles", "attack", "welcome"}
Ends == {"finished", "failed"}

After == [task \in Tasks |->
            CASE task = "validate" -> "backfill"
              [] task = "backfill" -> "profiles"
              [] task = "profiles" -> "attack"
              [] task = "attack"   -> "welcome"
              [] task = "welcome"  -> "finished"]

RunRecord == [tenant : Tenants \cup {None}, task : Tasks \cup Ends, tries : 1 .. Retries + 1,
              next : 1 .. NumEvents + 1, written : SUBSET Events, errors : SUBSET Events,
              triggered : BOOLEAN]

TypeOK ==
  /\ ApiTypeOK
  /\ constrained \in BOOLEAN
  /\ dryRun \in BOOLEAN
  /\ switchOn \in BOOLEAN
  /\ owners \in [Nodes -> SUBSET Tenants]
  /\ copies \in [Tenants \X Events -> Nat]
  /\ run \in [Runs -> RunRecord]
  /\ attacks \in [Tenants -> Nat]
  /\ onboarded \subseteq Tenants
  /\ backfills \in [Tenants -> Nat]

Init ==
  /\ ApiInit
  /\ constrained \in BOOLEAN
  /\ dryRun \in BOOLEAN
  /\ switchOn = TRUE
  /\ owners = [n \in Nodes |-> {}]
  /\ copies = [e \in Tenants \X Events |-> 0]
  /\ run = [r \in Runs |->
              [tenant |-> None, task |-> "validate", tries |-> 1,
               next |-> 1, written |-> {}, errors |-> {}, triggered |-> FALSE]]
  /\ attacks = [t \in Tenants |-> 0]
  /\ onboarded = {}
  /\ backfills = [t \in Tenants |-> 0]

----------------------------------------------------------------------------
(* Airflow.                                                                 *)

Trigger(r) ==
  /\ run[r].tenant = None
  /\ \E t \in Tenants : run' = [run EXCEPT ![r].tenant = t]
  /\ UNCHANGED <<apiVars, faults, settings, switchOn, graphVars, attacks, onboarded, backfills>>

\* The next attempt is that of a task: historical_backfill starts over in each.
Attempt(r, task, n) ==
  /\ run' = IF task = "backfill"
            THEN [run EXCEPT ![r].task = task, ![r].tries = n,
                             ![r].next = 1, ![r].written = {}, ![r].errors = {}]
            ELSE [run EXCEPT ![r].task = task, ![r].tries = n]
  /\ backfills' = IF task = "backfill"
                  THEN [backfills EXCEPT ![run[r].tenant] = @ + 1] ELSE backfills

\* Mutant: one attempt more than default_args allow.
RetryLeft_OneMore(r) == run[r].tries <= Retries + 1

\* Mutant: the retries of default_args are lost.
RetryLeft_Never(r) == FALSE

RetryLeft(r) == run[r].tries <= Retries

AttemptFails(r) ==
  IF RetryLeft(r) THEN Attempt(r, run[r].task, run[r].tries + 1)
                  ELSE Attempt(r, "failed", run[r].tries)

\* The attempt raises, or its worker dies, and with it what it would have returned.
Dies(r) ==
  /\ run[r].tenant # None
  /\ run[r].task \in Tasks
  /\ AttemptFails(r)
  /\ Fault
  /\ UNCHANGED <<apiVars, settings, switchOn, graphVars, attacks, onboarded>>

Succeeds(r) == Attempt(r, After[run[r].task], 1)

Working(r, task) ==
  /\ run[r].tenant # None
  /\ run[r].task = task

----------------------------------------------------------------------------
(* The tasks.                                                               *)

\* A missing or inactive row raises; a database that cannot be reached looks missing.
ValidateTenant(r) ==
  /\ Working(r, "validate")
  /\ \/ row[run[r].tenant] = "active" /\ Succeeds(r)
     \/ row[run[r].tenant] # "active" /\ AttemptFails(r)
  /\ UNCHANGED <<apiVars, faults, settings, switchOn, graphVars, attacks, onboarded>>

\* The upserts MERGE a node on its id and tenant and CREATE the transaction; the
\* constraints make node ids and transaction ids unique whatever the tenant.
Refused(t, e) ==
  /\ constrained
  /\ \/ copies[<<t, e>>] > 0
     \/ \E n \in NodesOf[<<t, e>>] : owners[n] \notin {{}, {t}}

\* Mutant: the upserts MERGE on the id alone.
Merge_IdOnly(t, e) ==
  owners' = [n \in Nodes |-> IF n \in NodesOf[<<t, e>>] /\ owners[n] = {} THEN {t} ELSE owners[n]]

Merge(t, e) ==
  owners' = [n \in Nodes |-> IF n \in NodesOf[<<t, e>>] THEN owners[n] \cup {t} ELSE owners[n]]

PutEvent(t, e) ==
  /\ ~Refused(t, e)
  /\ copies' = [copies EXCEPT ![<<t, e>>] = @ + 1]
  /\ Merge(t, e)

\* Mutant: the loop does not look at what write_transaction returned.
Count_Always(r, ok) ==
  LET e == run[r].next
  IN run' = [run EXCEPT ![r].next = e + 1, ![r].written = @ \cup {e}]

Count(r, ok) ==
  LET e == run[r].next
  IN run' = [run EXCEPT ![r].next = e + 1,
                        ![r].written = IF ok THEN @ \cup {e} ELSE @,
                        ![r].errors = IF ok THEN @ ELSE @ \cup {e}]

\* write_transaction never raises, and may report an error for an event that is in.
WriteEvent(r) ==
  LET t == run[r].tenant
      e == run[r].next
  IN
  /\ Working(r, "backfill")
  /\ e <= NumEvents
  /\ \/ dryRun /\ Count(r, TRUE) /\ UNCHANGED <<graphVars, faults>>
     \/ ~dryRun /\ PutEvent(t, e) /\ Count(r, TRUE) /\ UNCHANGED faults
     \/ ~dryRun /\ PutEvent(t, e) /\ Count(r, FALSE) /\ Fault
     \/ ~dryRun /\ Refused(t, e) /\ Count(r, FALSE) /\ UNCHANGED <<graphVars, faults>>
     \/ ~dryRun /\ Count(r, FALSE) /\ Fault /\ UNCHANGED graphVars
  /\ UNCHANGED <<apiVars, settings, switchOn, attacks, onboarded, backfills>>

FinishBackfill(r) ==
  /\ Working(r, "backfill")
  /\ run[r].next > NumEvents
  /\ Succeeds(r)
  /\ UNCHANGED <<apiVars, faults, settings, switchOn, graphVars, attacks, onboarded>>

\* Profiles and the baseline score are other components' state: the two tasks are one
\* here, and either may raise (Dies).
BuildProfilesAndScore(r) ==
  /\ Working(r, "profiles")
  /\ Succeeds(r)
  /\ UNCHANGED <<apiVars, faults, settings, switchOn, graphVars, attacks, onboarded>>

\* trigger_dag's exceptions are swallowed, also when the run was created; a worker
\* may die between the trigger and the end of the task.
FirstRedTeamRun(r) ==
  LET t == run[r].tenant
      Triggered == [attacks EXCEPT ![t] = @ + 1]
      Reports(done) == /\ run' = [run EXCEPT ![r].task = "welcome", ![r].tries = 1,
                                             ![r].triggered = done]
                       /\ UNCHANGED backfills
  IN
  /\ Working(r, "attack")
  /\ \/ ~switchOn /\ Reports(FALSE) /\ UNCHANGED <<attacks, faults>>
     \/ switchOn /\ attacks' = Triggered /\ Reports(TRUE) /\ UNCHANGED faults
     \/ switchOn /\ attacks' = Triggered /\ Fault /\ (Reports(FALSE) \/ AttemptFails(r))
     \/ switchOn /\ UNCHANGED attacks /\ Reports(FALSE) /\ Fault
  /\ UNCHANGED <<apiVars, settings, switchOn, graphVars, onboarded>>

\* Setting the Variable and the Slack message are best effort.
SendWelcomeNotification(r) ==
  /\ Working(r, "welcome")
  /\ \/ onboarded' = onboarded \cup {run[r].tenant} /\ Succeeds(r) /\ UNCHANGED faults
     \/ onboarded' = onboarded \cup {run[r].tenant} /\ AttemptFails(r) /\ Fault
     \/ UNCHANGED onboarded /\ Succeeds(r) /\ Fault
  /\ UNCHANGED <<apiVars, settings, switchOn, graphVars, attacks>>

----------------------------------------------------------------------------

FlipSwitch ==
  /\ switchOn' = ~switchOn
  /\ Fault
  /\ UNCHANGED <<apiVars, settings, graphVars, run, attacks, onboarded, backfills>>

Api ==
  /\ ApiNext
  /\ UNCHANGED <<settings, switchOn, graphVars, run, attacks, onboarded, backfills>>

TaskWorks(r) ==
  \/ ValidateTenant(r) \/ WriteEvent(r) \/ FinishBackfill(r)
  \/ BuildProfilesAndScore(r)
  \/ FirstRedTeamRun(r) \/ SendWelcomeNotification(r)

Next ==
  \/ Api
  \/ FlipSwitch
  \/ \E r \in Runs : Trigger(r) \/ TaskWorks(r) \/ Dies(r)

Spec == Init /\ [][Next]_vars

Fairness == \A r \in Runs : WF_vars(TaskWorks(r))

FairSpec == Spec /\ Fairness

----------------------------------------------------------------------------
(* Properties.                                                              *)

\* No tenant's history touches another's nodes: each event in the graph hangs on nodes
\* of its own tenant, whatever backfills run side by side.  With the constraints an id
\* belongs to one tenant and no event is in twice, however often it is retried; without
\* them it is in at most once per attempt.
HistoriesAreApart ==
  /\ \A t \in Tenants, e \in Events :
       copies[<<t, e>>] > 0 => \A n \in NodesOf[<<t, e>>] : t \in owners[n]
  /\ constrained =>
       /\ \A n \in Nodes : \A t, u \in owners[n] : t = u
       /\ \A t \in Tenants, e \in Events : copies[<<t, e>>] <= 1
  /\ \A t \in Tenants, e \in Events : copies[<<t, e>>] <= backfills[t]

\* What the welcome message says is so, whatever was retried: each event was answered,
\* the ones counted as ingested are in the graph (unless a dry run said so), a triggered
\* attack cycle exists, and the tenant has a row.
WelcomeTellsTrue ==
  \A r \in Runs :
    run[r].task \in {"welcome", "finished"} =>
      LET t == run[r].tenant
      IN
      /\ run[r].written \cup run[r].errors = Events
      /\ run[r].written \cap run[r].errors = {}
      /\ ~dryRun => \A e \in run[r].written : copies[<<t, e>>] > 0
      /\ run[r].triggered => attacks[t] > 0
      /\ row[t] # "none"

\* A run whose tenant was found active is announced, whatever becomes of the tenant,
\* unless one of its tasks used up all its attempts.
ValidatedIsWelcomed ==
  \A r \in Runs :
    run[r].task = "backfill" ~>
      \/ run[r].task = "finished"
      \/ run[r].task = "failed" /\ run[r].tries = Retries + 1
=============================================================================

-------------------------- MODULE TenantProvisioning --------------------------
(***************************************************************************)
(* The tenants API: POST /tenants runs five provisioning steps, each of    *)
(* which may fail without stopping the others, DELETE soft-deletes.  A     *)
(* tenant lives in a PostgreSQL row and in a Redis flag.  The API is one   *)
(* process whose handlers do not yield, so it works on one request at a    *)
(* time; it may die in the middle of one.                                  *)
(***************************************************************************)
EXTENDS Integers

CONSTANTS
  Tenants,       \* tenant ids clients ask for
  None,          \* no tenant
  MaxRequests,   \* bound: requests to the API
  MaxFaults      \* bound: failed statements, crashes, expired keys

ASSUME ProvisioningConstantsOK ==
  /\ None \notin Tenants
  /\ MaxRequests \in Nat
  /\ MaxFaults \in Nat

Steps == {"postgres", "redis", "pinecone", "airflow"}

VARIABLES
  row,         \* the tenant's row in PostgreSQL: none, active or inactive
  flagged,     \* tenants with the key tenant:{id}:active in Redis
  client,      \* the tenant whose request the API works on
  at,          \* what it does next
  ready,       \* steps of the provisioning that succeeded
  errors,      \* whether one left an error in its status
  hit,         \* deactivate()'s local "deactivated"
  told,        \* ghost: the last answer about a tenant
  unsure,      \* ghost: tenants whose last soft-delete failed, or who were revived by hand
  requests,    \* requests so far
  faults       \* faults so far

tenantVars == <<row, flagged>>
requestVars == <<client, at, ready, errors, hit>>
apiVars == <<row, flagged, client, at, ready, errors, hit, told, unsure, requests>>

Ats == {"idle", "postgres", "redis", "checks", "answer", "update", "delete"}
Answers == {"nothing", "created", "deleted", "error"}

Rows == {"none", "active", "inactive"}

ApiTypeOK ==
  /\ row \in [Tenants -> Rows]
  /\ flagged \subseteq Tenants
  /\ client \in Tenants \cup {None}
  /\ at \in Ats
  /\ at # "idle" => client \in Tenants
  /\ ready \subseteq Steps
  /\ errors \in BOOLEAN
  /\ hit \in BOOLEAN
  /\ told \in [Tenants -> Answers]
  /\ unsure \subseteq Tenants
  /\ requests \in 0 .. MaxRequests
  /\ faults \in 0 .. MaxFaults

\* The tenants of an earlier day are there already.
ApiInit ==
  /\ row \in [Tenants -> Rows]
  /\ flagged = {t \in Tenants : row[t] = "active"}
  /\ client = None
  /\ at = "idle"
  /\ ready = {}
  /\ errors = FALSE
  /\ hit = FALSE
  /\ told = [t \in Tenants |-> IF row[t] = "inactive" THEN "deleted" ELSE "nothing"]
  /\ unsure = {}
  /\ requests = 0
  /\ faults = 0

Fault ==
  /\ faults < MaxFaults
  /\ faults' = faults + 1

----------------------------------------------------------------------------
(* POST /tenants.                                                           *)

Receive(first) ==
  /\ at = "idle"
  /\ requests < MaxRequests
  /\ requests' = requests + 1
  /\ client' \in Tenants
  /\ at' = first
  /\ UNCHANGED <<tenantVars, ready, errors, hit, told, unsure, faults>>

Create == Receive("postgres")

\* A step ends well, or its error is noted, and the next one is run all the same.
StepDone(step, next) ==
  /\ ready' = ready \cup {step}
  /\ at' = next
  /\ UNCHANGED <<client, errors, hit, told, unsure, requests>>

StepFails(next) ==
  /\ errors' = TRUE
  /\ at' = next
  /\ UNCHANGED <<client, ready, hit, told, unsure, requests>>

\* Mutant: a second creation overwrites the row, its "active" included.
Inserted_Upsert == [row EXCEPT ![client] = "active"]

\* INSERT ... ON CONFLICT (tenant_id) DO NOTHING.
Inserted == IF row[client] = "none" THEN [row EXCEPT ![client] = "active"] ELSE row

ProvisionPostgres ==
  /\ at = "postgres"
  /\ \/ StepDone("postgres", "redis") /\ row' = Inserted /\ UNCHANGED faults
     \/ StepFails("redis") /\ row' \in {row, Inserted} /\ Fault
  /\ UNCHANGED flagged

ProvisionRedis ==
  /\ at = "redis"
  /\ \/ StepDone("redis", "checks") /\ flagged' = flagged \cup {client} /\ UNCHANGED faults
     \/ StepFails("checks") /\ flagged' \in {flagged, flagged \cup {client}} /\ Fault
  /\ UNCHANGED row

\* Steps 3 to 5 leave the tenant's own state alone.  verify_connectivity() is called
\* without its driver argument, so that step ends in an error always.
VerifyServices ==
  /\ at = "checks"
  /\ \E up \in SUBSET {"pinecone", "airflow"} :
       /\ ready' = ready \cup up
       /\ IF up = {"pinecone", "airflow"} THEN UNCHANGED faults ELSE Fault
  /\ errors' = TRUE
  /\ at' = "answer"
  /\ UNCHANGED <<tenantVars, client, hit, told, unsure, requests>>

EndRequest ==
  /\ at' = "idle"
  /\ client' = None
  /\ ready' = {}
  /\ errors' = FALSE
  /\ hit' = FALSE

Answer(a) ==
  /\ told' = [told EXCEPT ![client] = a]
  /\ EndRequest
  /\ UNCHANGED <<tenantVars, unsure, requests>>

\* get_tenant: no row and an unreachable database look the same.
Found == row[client] # "none"

AnswerCreate ==
  /\ at = "answer"
  /\ \/ Found /\ Answer("created") /\ UNCHANGED faults
     \/ ~Found /\ Answer("error") /\ UNCHANGED faults
     \/ Answer("error") /\ Fault

----------------------------------------------------------------------------
(* DELETE /tenants/{tenant_id}.                                             *)

Delete == Receive("update")

Deactivated == IF row[client] = "none" THEN row ELSE [row EXCEPT ![client] = "inactive"]

\* The row count is read before the commit: if that fails, hit is TRUE all the same.
Deactivate ==
  /\ at = "update"
  /\ \/ /\ row' = Deactivated
        /\ hit' = (row[client] # "none")
        /\ unsure' = unsure \ {client}
        /\ UNCHANGED faults
     \/ /\ hit' \in {FALSE, row[client] # "none"}
        /\ row' \in IF hit' THEN {row, Deactivated} ELSE {row}
        /\ unsure' = unsure \cup {client}
        /\ Fault
  /\ at' = "delete"
  /\ UNCHANGED <<flagged, client, ready, errors, told, requests>>

\* The answer follows from hit, not from what Redis did.
RemoveFlag ==
  /\ at = "delete"
  /\ \/ flagged' = flagged \ {client} /\ UNCHANGED faults
     \/ flagged' \in {flagged, flagged \ {client}} /\ Fault
  /\ told' = [told EXCEPT ![client] = IF hit THEN "deleted" ELSE "error"]
  /\ EndRequest
  /\ UNCHANGED <<row, unsure, requests>>

----------------------------------------------------------------------------
(* The environment.                                                         *)

ApiDies ==
  /\ at # "idle"
  /\ EndRequest
  /\ Fault
  /\ UNCHANGED <<tenantVars, told, unsure, requests>>

FlagExpires ==
  /\ \E t \in flagged : flagged' = flagged \ {t}
  /\ Fault
  /\ UNCHANGED <<row, requestVars, told, unsure, requests>>

\* "reactivation requires a manual DB update"
Reactivate ==
  /\ \E t \in Tenants :
       /\ row[t] = "inactive"
       /\ row' = [row EXCEPT ![t] = "active"]
       /\ unsure' = unsure \cup {t}
  /\ Fault
  /\ UNCHANGED <<flagged, requestVars, told, requests>>

ApiWorks ==
  \/ ProvisionPostgres \/ ProvisionRedis \/ VerifyServices \/ AnswerCreate
  \/ Deactivate \/ RemoveFlag

ApiNext ==
  \/ Create \/ Delete \/ ApiWorks
  \/ ApiDies \/ FlagExpires \/ Reactivate

----------------------------------------------------------------------------
(* Properties.                                                              *)

\* What the API last answered about a tenant holds.  Told 204, it is inactive whatever
\* creations were begun since, died or failed: only a failed statement or a manual
\* update of the row can undo that.  Told 201, it has a row, also when the INSERT itself
\* failed or an earlier creation was cut off; so has one whose status says so.
AnswersHold ==
  /\ \A t \in Tenants :
       /\ told[t] = "deleted" /\ t \notin unsure => row[t] = "inactive"
       /\ told[t] = "created" => row[t] # "none"
  /\ "postgres" \in ready => row[client] # "none"
=============================================================================

---------------------------- MODULE ProfileRefresh ----------------------------
(***************************************************************************)
(* The two Pinecone indexes and who writes them: ProfileBuilder, called    *)
(* with an account's raw id by onboarding and with its token by the daily  *)
(* profile_refresh_dag, and the injector of synthetic fraud profiles.      *)
(***************************************************************************)
EXTENDS Integers

CONSTANTS
  Accounts,     \* raw account ids
  Tenants,      \* tenants besides "default"
  Shapes,       \* behaviours, as an embedding tells them apart
  None,         \* no vector
  Customers,    \* accounts somebody builds profiles for
  Candidates,   \* those the refresh DAG is about
  StubHistory,  \* the behaviour _generate_stub_transactions makes up for an account
  StubPatterns, \* the behaviours of _generate_stub_scenarios
  MaxBuilds,    \* bound: profiles built on onboarding, and refresh runs
  MaxFaults     \* bound: failed calls and dying processes

ASSUME RefreshConstantsOK ==
  /\ None \notin Shapes
  /\ "default" \notin Tenants
  /\ Candidates \subseteq Customers /\ Customers \subseteq Accounts
  /\ StubHistory \in Shapes /\ StubPatterns \subseteq Shapes
  /\ MaxBuilds \in Nat
  /\ MaxFaults \in Nat

\* An id is an account hashed so many times: the HMAC is injective and never undone.
Raw(a) == <<a, 0>>
Token(id) == <<id[1], id[2] + 1>>
Ids == Accounts \X (0 .. 2)

Namespaces == Tenants \cup {"default"}
Keys == Namespaces \X Ids

\* A vector carries whom it was built for, its namespace and the account.
Vectors == [for : Keys, shape : Shapes]

VARIABLES
  clean,        \* the clean-profiles index
  patterns,     \* the behaviours in suspicious-profiles, default namespace
  refresh,      \* what the rebuild task of the DAG is doing
  todo,         \* candidates it has not come to
  rebuilt,      \* candidates it reports as rebuilt
  rebuildErrors,\* whether one raised
  inject,       \* what the injection task is doing
  injectErrors, \* whether one of its upserts failed
  health,       \* the last health_status reported
  reached,      \* ghost: accounts whose own entry this DAG run has written
  builds,       \* profiles and DAG runs so far
  faults        \* faults so far

indexVars == <<clean, patterns>>
rebuildVars == <<refresh, todo, rebuilt, rebuildErrors, reached>>
injectVars == <<inject, injectErrors>>
refreshVars == <<clean, patterns, refresh, todo, rebuilt, rebuildErrors, inject,
                 injectErrors, health, reached, builds>>

RefreshTypeOK ==
  /\ clean \in [Keys -> Vectors \cup {None}]
  /\ patterns \subseteq Shapes
  /\ refresh \in {"idle", "rebuilding", "done"}
  /\ todo \subseteq Candidates
  /\ rebuilt \subseteq Candidates
  /\ rebuildErrors \in BOOLEAN
  /\ inject \in {"idle", "injecting", "done"}
  /\ injectErrors \in BOOLEAN
  /\ health \in {"none", "healthy", "degraded"}
  /\ reached \subseteq Candidates
  /\ builds \in 0 .. MaxBuilds
  /\ faults \in 0 .. MaxFaults

\* Profiles of earlier days: some customers have one in some namespaces.
Indexes ==
  LET built == Namespaces \X {Token(Raw(a)) : a \in Customers}
  IN {[k \in Keys |-> IF k \in built /\ shape[k] # None
                      THEN [for |-> k, shape |-> shape[k]] ELSE None] :
        shape \in [built -> Shapes \cup {None}]}

RefreshInit ==
  /\ clean \in Indexes
  /\ patterns = {}
  /\ refresh = "idle"
  /\ todo = {}
  /\ rebuilt = {}
  /\ rebuildErrors = FALSE
  /\ inject = "idle"
  /\ injectErrors = FALSE
  /\ health = "none"
  /\ reached = {}
  /\ builds = 0
  /\ faults = 0

Fault ==
  /\ faults < MaxFaults
  /\ faults' = faults + 1

Build ==
  /\ builds < MaxBuilds
  /\ builds' = builds + 1

----------------------------------------------------------------------------
(* ProfileBuilder.build_profile: tokenizes whatever id it is given.         *)

Upserts(ns, id, shape) ==
  LET k == <<ns, Token(id)>>
  IN clean' = [clean EXCEPT ![k] = [for |-> k, shape |-> shape]]

\* Onboarding builds from the raw id, in the tenant's namespace.
BuildProfile ==
  /\ \E ns \in Namespaces, a \in Customers, s \in Shapes : Upserts(ns, Raw(a), s)
  /\ Build
  /\ UNCHANGED <<patterns, rebuildVars, injectVars, health, faults>>

----------------------------------------------------------------------------
(* profile_refresh_dag.                                                     *)

StartRefresh ==
  /\ refresh = "idle"
  /\ inject = "idle"
  /\ Build
  /\ refresh' = "rebuilding"
  /\ todo' = Candidates
  /\ rebuilt' = {}
  /\ rebuildErrors' = FALSE
  /\ reached' = {}
  /\ inject' = "injecting"
  /\ injectErrors' = FALSE
  /\ UNCHANGED <<indexVars, health, faults>>

\* The id identify_refresh_candidates hands over is a token already.
CandidateId(a) == Token(Raw(a))

\* A failed embedding is an error; a failed upsert only makes the profile "skipped".
RebuildProfile(a) ==
  /\ refresh = "rebuilding"
  /\ a \in todo
  /\ todo' = todo \ {a}
  /\ \/ /\ Upserts("default", CandidateId(a), StubHistory)
        /\ rebuilt' = rebuilt \cup {a}
        /\ reached' = IF Token(CandidateId(a)) = Token(Raw(a)) THEN reached \cup {a} ELSE reached
        /\ UNCHANGED <<rebuildErrors, faults>>
     \/ Fault /\ rebuildErrors' = TRUE /\ UNCHANGED <<clean, rebuilt, reached>>
     \/ Fault /\ UNCHANGED <<clean, rebuilt, rebuildErrors, reached>>
  /\ UNCHANGED <<patterns, refresh, injectVars, health, builds>>

FinishRebuild ==
  /\ refresh = "rebuilding"
  /\ todo = {}
  /\ refresh' = "done"
  /\ UNCHANGED <<indexVars, todo, rebuilt, rebuildErrors, reached, injectVars, health, builds, faults>>

\* A retried task starts its loop again.
RebuildDies ==
  /\ refresh = "rebuilding"
  /\ Fault
  /\ todo' = Candidates
  /\ rebuilt' = {}
  /\ rebuildErrors' = FALSE
  /\ UNCHANGED <<indexVars, refresh, reached, injectVars, health, builds>>

\* inject_new_synthetic_profiles upserts one vector per stub scenario, in one action: the
\* task names no tenant.  A failed upsert is counted, a failed embedding ends the attempt
\* between two of them.
InjectProfiles ==
  /\ inject = "injecting"
  /\ \E new \in SUBSET StubPatterns :
       /\ patterns' = patterns \cup new
       /\ \/ new = StubPatterns /\ inject' = "done" /\ UNCHANGED <<injectErrors, faults>>
          \/ inject' = "done" /\ injectErrors' = TRUE /\ Fault
          \/ UNCHANGED injectVars /\ Fault
  /\ UNCHANGED <<clean, rebuildVars, health, builds>>

Healthy == ~rebuildErrors /\ ~injectErrors

ReportProfileHealth ==
  /\ refresh = "done"
  /\ inject = "done"
  /\ health' = IF Healthy THEN "healthy" ELSE "degraded"
  /\ refresh' = "idle"
  /\ inject' = "idle"
  /\ UNCHANGED <<indexVars, todo, rebuilt, rebuildErrors, reached, injectErrors, builds, faults>>

DagWorks ==
  \/ \E a \in Candidates : RebuildProfile(a)
  \/ FinishRebuild \/ InjectProfiles \/ ReportProfileHealth

RefreshNext ==
  \/ BuildProfile
  \/ StartRefresh \/ DagWorks \/ RebuildDies

----------------------------------------------------------------------------
(* Properties.                                                              *)

\* "Keep behavioral profiles fresh in the Pinecone clean-profiles index": when the DAG
\* reports healthy, every candidate's entry, the one the detector reads, was written.
HealthyMeansRefreshed ==
  refresh = "idle" /\ health = "healthy" => reached = Candidates
=============================================================================

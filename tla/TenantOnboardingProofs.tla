------------------------- MODULE TenantOnboardingProofs -------------------------
(***************************************************************************)
(* Theorems about TenantOnboarding for any tenants, runs, events, retries, *)
(* requests and faults: what the API answers, what the graph holds of each *)
(* tenant, and what a run of the DAG announces.                            *)
(***************************************************************************)
EXTENDS TenantOnboarding, FiniteSetTheorems, TLAPS

\* A request begins with nothing noted.  A deletion that hit a row leaves it there, and
\* inactive, unless its commit failed.
RequestOK ==
  /\ at = "idle" => ready = {}
  /\ hit => /\ at = "delete"
            /\ row[client] # "none"
            /\ client \notin unsure => row[client] = "inactive"

\* An answered deletion was about a row, and rows are never removed.
DeletedExisted == \A t \in Tenants : told[t] = "deleted" => row[t] # "none"

ApiInv == AnswersHold /\ RequestOK /\ DeletedExisted

\* Attempts at the history of t that have not come to event e.
Pending(t, e) ==
  {r \in Runs : run[r].tenant = t /\ run[r].task = "backfill" /\ run[r].next <= e}

\* An attempt writes each event at most once.
Counted ==
  \A t \in Tenants, e \in Events : copies[<<t, e>>] + Cardinality(Pending(t, e)) <= backfills[t]

\* HistoriesAreApart, its count aside.
Apart ==
  /\ \A t \in Tenants, e \in Events :
       copies[<<t, e>>] > 0 => \A n \in NodesOf[<<t, e>>] : t \in owners[n]
  /\ constrained =>
       /\ \A n \in Nodes : \A t, u \in owners[n] : t = u
       /\ \A t \in Tenants, e \in Events : copies[<<t, e>>] <= 1

Later == {"profiles", "attack", "welcome", "finished"}

\* What is known of a run, whatever task it is at.
RunOK(r) ==
  LET t == run[r].tenant
      task == run[r].task
  IN
  /\ t = None => task = "validate" /\ ~run[r].triggered /\ run[r].written = {}
  /\ task \notin {"validate", "failed"} => row[t] # "none"
  /\ run[r].triggered => attacks[t] > 0
  /\ run[r].written \cap run[r].errors = {}
  /\ ~dryRun => \A e \in run[r].written : copies[<<t, e>>] > 0
  /\ task = "backfill" => run[r].written \cup run[r].errors = 1 .. run[r].next - 1
  /\ task \in Later => run[r].written \cup run[r].errors = Events

OnboardingInv ==
  /\ TypeOK
  /\ ApiInv
  /\ Apart
  /\ Counted
  /\ \A r \in Runs : RunOK(r)

----------------------------------------------------------------------------
(* The API.                                                                 *)

LEMMA FaultBound ==
  ASSUME faults \in 0 .. MaxFaults, Fault
  PROVE  faults' \in 0 .. MaxFaults
BY ProvisioningConstantsOK DEF Fault

LEMMA ApiFaults ==
  ASSUME ApiTypeOK, ApiNext
  PROVE  faults' \in 0 .. MaxFaults
<1>1. faults' = faults \/ Fault
  BY DEF ApiNext, Create, Delete, Receive, ApiWorks, ProvisionPostgres, ProvisionRedis,
         VerifyServices, AnswerCreate, Deactivate, RemoveFlag, ApiDies, FlagExpires, Reactivate
<1> QED
  BY <1>1, FaultBound DEF ApiTypeOK

LEMMA ReceiveTypes ==
  ASSUME ApiTypeOK, NEW first \in {"postgres", "update"}, Receive(first)
  PROVE  ApiTypeOK'
<1>1. faults' \in 0 .. MaxFaults /\ requests' \in 0 .. MaxRequests
  BY ProvisioningConstantsOK DEF Receive, ApiTypeOK
<1> QED
  BY <1>1 DEF Receive, ApiTypeOK, tenantVars, Ats

LEMMA EndTypes ==
  ASSUME ApiTypeOK, EndRequest, faults' \in 0 .. MaxFaults,
         row' \in [Tenants -> Rows], flagged' \subseteq Tenants,
         told' \in [Tenants -> Answers], UNCHANGED <<unsure, requests>>
  PROVE  ApiTypeOK'
BY DEF EndRequest, ApiTypeOK, Ats

LEMMA ApiTypes ==
  ASSUME ApiTypeOK, ApiNext
  PROVE  ApiTypeOK'
<1>f. faults' \in 0 .. MaxFaults
  BY ApiFaults
<1>1. CASE Create
  BY <1>1, ReceiveTypes DEF Create
<1>2. CASE Delete
  BY <1>2, ReceiveTypes DEF Delete
<1>3. CASE ProvisionPostgres
  <2>1. Inserted \in [Tenants -> Rows] /\ client \in Tenants
    BY <1>3 DEF ProvisionPostgres, ApiTypeOK, Inserted, Rows
  <2> QED
    BY <1>3, <1>f, <2>1 DEF ProvisionPostgres, StepDone, StepFails, ApiTypeOK, Ats, Steps
<1>4. CASE ProvisionRedis
  BY <1>4, <1>f DEF ProvisionRedis, StepDone, StepFails, ApiTypeOK, Ats, Steps
<1>5. CASE VerifyServices
  BY <1>5, <1>f DEF VerifyServices, ApiTypeOK, Ats, Steps, tenantVars
<1>6. CASE AnswerCreate
  <2>1. PICK a \in {"created", "error"} : Answer(a)
    BY <1>6 DEF AnswerCreate
  <2>2. told' \in [Tenants -> Answers]
    BY <2>1 DEF Answer, ApiTypeOK, Answers
  <2>3. row' \in [Tenants -> Rows] /\ flagged' \subseteq Tenants /\ EndRequest
        /\ UNCHANGED <<unsure, requests>>
    BY <2>1 DEF Answer, ApiTypeOK, tenantVars
  <2> QED
    BY <1>f, <2>2, <2>3, EndTypes
<1>7. CASE Deactivate
  <2>1. client \in Tenants
    BY <1>7 DEF Deactivate, ApiTypeOK
  <2>2. Deactivated \in [Tenants -> Rows]
    BY <2>1 DEF ApiTypeOK, Deactivated, Rows
  <2>3. row' \in [Tenants -> Rows]
    BY <1>7, <2>2 DEF Deactivate, ApiTypeOK
  <2>4. hit' \in BOOLEAN /\ unsure' \subseteq Tenants
    BY <1>7, <2>1 DEF Deactivate, ApiTypeOK
  <2> QED
    BY <1>7, <1>f, <2>1, <2>3, <2>4 DEF Deactivate, ApiTypeOK, Ats
<1>8. CASE RemoveFlag
  <2>1. told' \in [Tenants -> Answers]
    BY <1>8 DEF RemoveFlag, ApiTypeOK, Answers
  <2>2. row' \in [Tenants -> Rows] /\ flagged' \subseteq Tenants /\ EndRequest
        /\ UNCHANGED <<unsure, requests>>
    BY <1>8 DEF RemoveFlag, ApiTypeOK
  <2> QED
    BY <1>f, <2>1, <2>2, EndTypes
<1>9. CASE ApiDies
  BY <1>9, <1>f, EndTypes DEF ApiDies, ApiTypeOK, tenantVars
<1>10. CASE FlagExpires
  BY <1>10, <1>f DEF FlagExpires, ApiTypeOK, requestVars
<1>11. CASE Reactivate
  BY <1>11, <1>f DEF Reactivate, ApiTypeOK, Rows, requestVars
<1> QED
  BY <1>1, <1>2, <1>3, <1>4, <1>5, <1>6, <1>7, <1>8, <1>9, <1>10, <1>11 DEF ApiNext, ApiWorks

\* No statement of the API deletes a row.
LEMMA RowsStay ==
  ASSUME ApiTypeOK, ApiNext, NEW t \in Tenants, row[t] # "none"
  PROVE  row'[t] # "none"
<1>1. CASE row' = row
  BY <1>1
<1>2. CASE ProvisionPostgres
  BY <1>2 DEF ProvisionPostgres, Inserted, ApiTypeOK
<1>3. CASE Deactivate
  BY <1>3 DEF Deactivate, Deactivated, ApiTypeOK
<1>4. CASE Reactivate
  BY <1>4 DEF Reactivate, ApiTypeOK
<1>5. row' = row \/ ProvisionPostgres \/ Deactivate \/ Reactivate
  BY DEF ApiNext, Create, Delete, Receive, ApiWorks, ProvisionRedis, VerifyServices,
         AnswerCreate, Answer, RemoveFlag, ApiDies, FlagExpires, tenantVars
<1> QED
  BY <1>1, <1>2, <1>3, <1>4, <1>5

\* A request that ends, answered or cut off, leaves nothing behind.
LEMMA EndKeeps ==
  ASSUME ApiTypeOK, ApiInv, EndRequest, row' = row, unsure' = unsure,
         \A t \in Tenants :
            \/ told'[t] = told[t]
            \/ told'[t] = "error"
            \/ told'[t] = "created" /\ row[t] # "none"
            \/ told'[t] = "deleted" /\ row[t] # "none" /\ (t \notin unsure => row[t] = "inactive")
  PROVE  ApiInv'
BY DEF EndRequest, ApiInv, AnswersHold, RequestOK, DeletedExisted

LEMMA ApiKeeps ==
  ASSUME ApiTypeOK, ApiInv, ApiNext
  PROVE  ApiInv'
<1>1. CASE Create \/ Delete
  BY <1>1 DEF Create, Delete, Receive, ApiInv, AnswersHold, RequestOK, DeletedExisted, tenantVars
<1>2. CASE ProvisionPostgres
  <2>1. \A t \in Tenants : /\ row[t] # "none" => row'[t] = row[t]
                           /\ row[t] = "none" => row'[t] \in {"none", "active"}
    BY <1>2 DEF ProvisionPostgres, Inserted, ApiTypeOK
  <2>2. client \in Tenants /\ client' = client /\ at' = "redis" /\ hit' = hit
        /\ told' = told /\ unsure' = unsure
    BY <1>2 DEF ProvisionPostgres, StepDone, StepFails, ApiTypeOK
  <2>3. "postgres" \in ready' => row'[client] # "none"
    <3>1. CASE row' = Inserted
      BY <3>1, <2>2 DEF Inserted, ApiTypeOK
    <3>2. CASE ready' = ready
      BY <3>2, <2>1, <2>2 DEF ApiInv, AnswersHold
    <3> QED
      BY <1>2, <3>1, <3>2 DEF ProvisionPostgres, StepFails
  <2>4. ~hit
    BY <1>2 DEF ProvisionPostgres, ApiInv, RequestOK
  <2> QED
    BY <2>1, <2>2, <2>3, <2>4 DEF ApiInv, AnswersHold, RequestOK, DeletedExisted
<1>3. CASE ProvisionRedis
  BY <1>3 DEF ProvisionRedis, StepDone, StepFails, ApiInv, AnswersHold, RequestOK, DeletedExisted
<1>4. CASE VerifyServices
  BY <1>4 DEF VerifyServices, ApiInv, AnswersHold, RequestOK, DeletedExisted, tenantVars
<1>5. CASE AnswerCreate
  <2>1. PICK a \in {"created", "error"} : Answer(a) /\ (a = "created" => Found)
    BY <1>5 DEF AnswerCreate
  <2>2. told' = [told EXCEPT ![client] = a] /\ EndRequest /\ row' = row /\ unsure' = unsure
    BY <2>1 DEF Answer, tenantVars
  <2>3. \A t \in Tenants : \/ told'[t] = told[t]
                           \/ told'[t] = "error"
                           \/ told'[t] = "created" /\ row[t] # "none"
    BY <2>1, <2>2 DEF Found, ApiTypeOK
  <2> QED
    BY <2>2, <2>3, EndKeeps
<1>6. CASE Deactivate
  <2>1. client \in Tenants /\ client' = client /\ at' = "delete" /\ told' = told /\ ready' = ready
    BY <1>6 DEF Deactivate, ApiTypeOK
  <2>2. \A t \in Tenants : row'[t] = "none" <=> row[t] = "none"
    BY <1>6 DEF Deactivate, Deactivated, ApiTypeOK
  <2>3. \A t \in Tenants : t # client => row'[t] = row[t] /\ (t \in unsure' <=> t \in unsure)
    BY <1>6 DEF Deactivate, Deactivated, ApiTypeOK
  <2>4. /\ hit' => row[client] # "none"
        /\ client \notin unsure' /\ row[client] # "none" => row'[client] = "inactive"
    BY <1>6, <2>1 DEF Deactivate, Deactivated, ApiTypeOK
  <2>5. AnswersHold'
    <3> SUFFICES ASSUME NEW t \in Tenants
                 PROVE  /\ told[t] = "deleted" /\ t \notin unsure' => row'[t] = "inactive"
                        /\ told[t] = "created" => row'[t] # "none"
                        /\ "postgres" \in ready => row'[client] # "none"
      BY <2>1 DEF AnswersHold
    <3>1. CASE t = client
      BY <3>1, <2>1, <2>2, <2>4 DEF ApiInv, AnswersHold, DeletedExisted
    <3>2. CASE t # client
      BY <3>2, <2>1, <2>2, <2>3 DEF ApiInv, AnswersHold
    <3> QED
      BY <3>1, <3>2
  <2>6. RequestOK' /\ DeletedExisted'
    BY <2>1, <2>2, <2>4 DEF ApiInv, RequestOK, DeletedExisted
  <2> QED
    BY <2>5, <2>6 DEF ApiInv
<1>7. CASE RemoveFlag
  <2>1. told' = [told EXCEPT ![client] = IF hit THEN "deleted" ELSE "error"]
        /\ EndRequest /\ row' = row /\ unsure' = unsure
    BY <1>7 DEF RemoveFlag
  <2>2. \A t \in Tenants :
          \/ told'[t] = told[t]
          \/ told'[t] = "error"
          \/ told'[t] = "deleted" /\ row[t] # "none" /\ (t \notin unsure => row[t] = "inactive")
    BY <2>1 DEF ApiTypeOK, ApiInv, RequestOK
  <2> QED
    BY <2>1, <2>2, EndKeeps
<1>8. CASE ApiDies
  BY <1>8, EndKeeps DEF ApiDies, tenantVars
<1>9. CASE FlagExpires
  BY <1>9 DEF FlagExpires, ApiInv, AnswersHold, RequestOK, DeletedExisted, requestVars
<1>10. CASE Reactivate
  BY <1>10 DEF Reactivate, ApiTypeOK, ApiInv, AnswersHold, RequestOK, DeletedExisted, requestVars
<1> QED
  BY <1>1, <1>2, <1>3, <1>4, <1>5, <1>6, <1>7, <1>8, <1>9, <1>10 DEF ApiNext, ApiWorks

----------------------------------------------------------------------------
(* The runs of the DAG.                                                     *)

AllTasks == Tasks \cup Ends

\* Run r becomes rec, which is about the same tenant, and the others stay as they are.
Becomes(r, rec) ==
  /\ rec \in RunRecord
  /\ rec.tenant = run[r].tenant
  /\ run' = [run EXCEPT ![r] = rec]

LEMMA RunTypes ==
  ASSUME TypeOK, NEW r \in Runs
  PROVE  /\ run[r] \in RunRecord
         /\ run[r].tenant \in Tenants \cup {None}
         /\ run[r].task \in AllTasks
         /\ run[r].tries \in 1 .. Retries + 1
         /\ run[r].next \in Nat /\ run[r].next >= 1 /\ run[r].next <= NumEvents + 1
         /\ run[r].written \subseteq Events /\ run[r].errors \subseteq Events
         /\ run[r].triggered \in BOOLEAN
<1>1. run[r] \in RunRecord
  BY DEF TypeOK
<1>2. run[r].next \in 1 .. NumEvents + 1
  BY <1>1 DEF RunRecord
<1>3. run[r].next \in Nat /\ run[r].next >= 1 /\ run[r].next <= NumEvents + 1
  BY <1>2, OnboardingConstantsOK
<1> QED
  BY <1>1, <1>3 DEF RunRecord, AllTasks

\* An attempt at a task writes the record this describes.
Attempted(r, rec, task) ==
  /\ Becomes(r, rec)
  /\ rec.task = task
  /\ rec.triggered = run[r].triggered
  /\ IF task = "backfill"
     THEN rec.next = 1 /\ rec.written = {} /\ rec.errors = {}
     ELSE rec.next = run[r].next /\ rec.written = run[r].written /\ rec.errors = run[r].errors

LEMMA AttemptRecord ==
  ASSUME TypeOK, NEW r \in Runs, NEW task \in AllTasks, NEW n \in 1 .. Retries + 1,
         Attempt(r, task, n)
  PROVE  \E rec : Attempted(r, rec, task)
<1>1. run \in [Runs -> RunRecord] /\ run[r] \in RunRecord
  BY DEF TypeOK
<1>2. 1 \in 1 .. NumEvents + 1
  <2>1. \A k \in Nat : 1 \in 1 .. k + 1
    OBVIOUS
  <2> QED
    BY <2>1, OnboardingConstantsOK, Zenon
<1>3. CASE task = "backfill"
  <2> DEFINE rec == [run[r] EXCEPT !.task = task, !.tries = n, !.next = 1,
                                   !.written = {}, !.errors = {}]
  <2>1. run' = [run EXCEPT ![r] = rec]
    BY <1>1, <1>3 DEF Attempt
  <2>2. rec \in RunRecord
    BY <1>1, <1>2 DEF RunRecord, AllTasks
  <2>3. /\ rec.tenant = run[r].tenant /\ rec.task = task /\ rec.triggered = run[r].triggered
        /\ rec.next = 1 /\ rec.written = {} /\ rec.errors = {}
    BY <1>1 DEF RunRecord
  <2> HIDE DEF rec
  <2> QED
    BY <1>3, <2>1, <2>2, <2>3 DEF Attempted, Becomes
<1>4. CASE task # "backfill"
  <2> DEFINE rec == [run[r] EXCEPT !.task = task, !.tries = n]
  <2>1. run' = [run EXCEPT ![r] = rec]
    BY <1>1, <1>4 DEF Attempt
  <2>2. rec \in RunRecord
    BY <1>1 DEF RunRecord, AllTasks
  <2>3. /\ rec.tenant = run[r].tenant /\ rec.task = task /\ rec.triggered = run[r].triggered
        /\ rec.next = run[r].next /\ rec.written = run[r].written /\ rec.errors = run[r].errors
    BY <1>1 DEF RunRecord
  <2> HIDE DEF rec
  <2> QED
    BY <1>4, <2>1, <2>2, <2>3 DEF Attempted, Becomes
<1> QED
  BY <1>3, <1>4

\* Attempts that are counted are counted for the tenant of their run.
LEMMA AttemptCount ==
  ASSUME TypeOK, NEW r \in Runs, NEW task, NEW n, Attempt(r, task, n), run[r].tenant \in Tenants
  PROVE  /\ backfills' \in [Tenants -> Nat]
         /\ \A t \in Tenants :
              backfills'[t] = IF task = "backfill" /\ t = run[r].tenant
                              THEN backfills[t] + 1 ELSE backfills[t]
<1>1. backfills \in [Tenants -> Nat]
  BY DEF TypeOK
<1> DEFINE u == run[r].tenant
<1> DEFINE more == backfills[u] + 1
<1>2. more \in Nat /\ u \in Tenants
  BY <1>1
<1>3. backfills' = IF task = "backfill" THEN [backfills EXCEPT ![u] = more] ELSE backfills
  BY DEF Attempt
<1>4. more = backfills[u] + 1
  OBVIOUS
<1> HIDE DEF more
<1> QED
  BY <1>1, <1>2, <1>3, <1>4

LEMMA PendingFinite ==
  ASSUME NEW t, NEW e
  PROVE  /\ IsFiniteSet(Pending(t, e)) /\ Cardinality(Pending(t, e)) \in Nat
         /\ IsFiniteSet(Pending(t, e)') /\ Cardinality(Pending(t, e)') \in Nat
<1>1. Pending(t, e) \in SUBSET Runs /\ Pending(t, e)' \in SUBSET Runs
  BY DEF Pending
<1> QED
  BY <1>1, OnboardingConstantsOK, FS_Subset, FS_CardinalityType

\* A step of a run that leaves the graph alone keeps the count if its attempts at the
\* history are counted.
LEMMA CountKept ==
  ASSUME TypeOK, Counted, NEW r \in Runs, NEW rec, Becomes(r, rec), copies' = copies,
         \/ rec.task # "backfill" /\ backfills' = backfills
         \/ /\ backfills' \in [Tenants -> Nat]
            /\ \A t \in Tenants :
                 backfills'[t] = IF t = run[r].tenant THEN backfills[t] + 1 ELSE backfills[t]
  PROVE  Counted'
<1> SUFFICES ASSUME NEW t \in Tenants, NEW e \in Events
             PROVE  copies[<<t, e>>] + Cardinality(Pending(t, e)') <= backfills'[t]
  BY DEF Counted
<1>1. run' = [run EXCEPT ![r] = rec] /\ rec.tenant = run[r].tenant /\ run \in [Runs -> RunRecord]
  BY DEF Becomes, TypeOK
<1> DEFINE p == Cardinality(Pending(t, e))
<1> DEFINE q == Cardinality(Pending(t, e)')
<1> DEFINE k == copies[<<t, e>>]
<1> DEFINE b == backfills[t]
<1>2. p \in Nat /\ q \in Nat /\ k \in Nat /\ b \in Nat /\ k + p <= b
  BY PendingFinite DEF Counted, TypeOK
<1>3. CASE rec.task # "backfill" /\ backfills' = backfills
  <2>1. Pending(t, e)' \subseteq Pending(t, e)
    BY <1>1, <1>3 DEF Pending
  <2>2. q <= p
    BY <2>1, PendingFinite, FS_Subset
  <2>3. backfills'[t] = b
    BY <1>3
  <2> HIDE DEF p, q, k, b
  <2>4. k + q <= b
    BY <1>2, <2>2
  <2> QED
    BY <2>3, <2>4 DEF k, q
<1>4. CASE \A u \in Tenants :
             backfills'[u] = IF u = run[r].tenant THEN backfills[u] + 1 ELSE backfills[u]
  <2>1. CASE t = run[r].tenant
    <3>1. Pending(t, e)' \subseteq Pending(t, e) \cup {r}
      BY <1>1 DEF Pending
    <3>2. /\ IsFiniteSet(Pending(t, e) \cup {r})
          /\ Cardinality(Pending(t, e) \cup {r}) \in {p, p + 1}
      BY PendingFinite, FS_AddElement
    <3>3. q <= Cardinality(Pending(t, e) \cup {r})
      BY <3>1, <3>2, PendingFinite, FS_Subset
    <3>4. backfills'[t] = b + 1
      BY <1>4, <2>1
    <3> DEFINE c == Cardinality(Pending(t, e) \cup {r})
    <3>5. c \in {p, p + 1} /\ q <= c
      BY <3>2, <3>3
    <3> HIDE DEF p, q, k, b, c
    <3>6. k + q <= b + 1
      BY <1>2, <3>5
    <3> QED
      BY <3>4, <3>6 DEF k, q
  <2>2. CASE t # run[r].tenant
    <3>1. Pending(t, e)' = Pending(t, e)
      BY <1>1, <2>2 DEF Pending
    <3>2. backfills'[t] = b /\ q = p
      BY <1>4, <2>2, <3>1
    <3> HIDE DEF p, q, k, b
    <3>3. k + q <= b
      BY <1>2, <3>2
    <3> QED
      BY <3>2, <3>3 DEF k, q
  <2> QED
    BY <2>1, <2>2
<1> QED
  BY <1>3, <1>4

\* What a run knows outlives every step that removes neither rows, copies nor attacks.
LEMMA RunStays ==
  ASSUME TypeOK, NEW r \in Runs, RunOK(r), run'[r] = run[r], dryRun' = dryRun,
         \A t \in Tenants : /\ row[t] # "none" => row'[t] # "none"
                            /\ attacks[t] > 0 => attacks'[t] > 0
                            /\ \A e \in Events : copies[<<t, e>>] > 0 => copies'[<<t, e>>] > 0
  PROVE  RunOK(r)'
<1>1. run[r].tenant \in Tenants \cup {None} /\ run[r].written \subseteq Events
  BY RunTypes
<1>2. "validate" \notin {"backfill"} \cup Later
  BY DEF Later
<1> QED
  BY <1>1, <1>2 DEF RunOK

\* The rest of the state, as a step of a run leaves it.
Frame ==
  /\ UNCHANGED <<apiVars, settings>>
  /\ switchOn' \in BOOLEAN
  /\ faults' \in 0 .. MaxFaults
  /\ onboarded' \subseteq Tenants
  /\ attacks' \in [Tenants -> Nat]
  /\ \A t \in Tenants : attacks[t] > 0 => attacks'[t] > 0

\* A step of run r keeps the invariant if it does so for r, the graph and the count.
LEMMA RunStep ==
  ASSUME OnboardingInv, NEW r \in Runs, run' \in [Runs -> RunRecord],
         \A s \in Runs : s # r => run'[s] = run[s],
         Frame, backfills' \in [Tenants -> Nat],
         owners' \in [Nodes -> SUBSET Tenants], copies' \in [Tenants \X Events -> Nat],
         \A t \in Tenants, e \in Events : copies[<<t, e>>] > 0 => copies'[<<t, e>>] > 0,
         Apart', Counted', RunOK(r)'
  PROVE  OnboardingInv'
<1>u. /\ UNCHANGED <<row, flagged, client, at, ready, errors, hit, told, unsure, requests>>
      /\ UNCHANGED <<constrained, dryRun>>
  BY DEF Frame, apiVars, settings
<1>1. TypeOK'
  <2>1. ApiTypeOK'
    BY <1>u DEF Frame, OnboardingInv, TypeOK, ApiTypeOK
  <2> QED
    BY <2>1, <1>u DEF Frame, OnboardingInv, TypeOK
<1>2. ApiInv'
  BY <1>u DEF OnboardingInv, ApiInv, AnswersHold, RequestOK, DeletedExisted
<1>3. ASSUME NEW s \in Runs, s # r PROVE RunOK(s)'
  BY <1>3, <1>u, RunStays DEF OnboardingInv, Frame
<1> QED
  BY <1>1, <1>2, <1>3 DEF OnboardingInv

\* A step of run r that leaves the graph alone.
LEMMA QuietStep ==
  ASSUME OnboardingInv, NEW r \in Runs, NEW rec, Becomes(r, rec),
         Frame, UNCHANGED graphVars, backfills' \in [Tenants -> Nat], Counted', RunOK(r)'
  PROVE  OnboardingInv'
<1>1. owners' = owners /\ copies' = copies /\ constrained' = constrained
  BY DEF graphVars, Frame, settings
<1>2. run' \in [Runs -> RunRecord] /\ \A s \in Runs : s # r => run'[s] = run[s]
  BY DEF Becomes, OnboardingInv, TypeOK
<1>3. Apart'
  BY <1>1 DEF OnboardingInv, Apart
<1>4. owners' \in [Nodes -> SUBSET Tenants] /\ copies' \in [Tenants \X Events -> Nat]
  BY <1>1 DEF OnboardingInv, TypeOK
<1> QED
  BY <1>1, <1>2, <1>3, <1>4, RunStep

\* The next attempt of a run, at the same task, the next one, or none.
LEMMA AttemptKeeps ==
  ASSUME OnboardingInv, NEW r \in Runs, NEW task \in AllTasks, NEW n \in 1 .. Retries + 1,
         Attempt(r, task, n), run[r].tenant \in Tenants,
         Frame, UNCHANGED graphVars,
         task \notin {"validate", "failed"} => row[run[r].tenant] # "none",
         task \in Later =>
            \/ run[r].task \in Later
            \/ run[r].task = "backfill" /\ run[r].next > NumEvents
  PROVE  OnboardingInv'
<1>t. TypeOK /\ Counted /\ RunOK(r)
  BY DEF OnboardingInv
<1>1. PICK rec : Attempted(r, rec, task)
  BY <1>t, AttemptRecord
<1>2. Becomes(r, rec) /\ rec.task = task /\ copies' = copies
  BY <1>1 DEF Attempted, graphVars
<1>3. /\ backfills' \in [Tenants -> Nat]
      /\ \A t \in Tenants :
           backfills'[t] = IF task = "backfill" /\ t = run[r].tenant
                           THEN backfills[t] + 1 ELSE backfills[t]
  BY <1>t, AttemptCount
<1>4. Counted'
  <2>1. task # "backfill" => backfills' = backfills
    BY DEF Attempt
  <2>2. task = "backfill" => \A t \in Tenants :
           backfills'[t] = IF t = run[r].tenant THEN backfills[t] + 1 ELSE backfills[t]
    BY <1>3
  <2> QED
    BY <1>t, <1>2, <1>3, <2>1, <2>2, CountKept
<1>5. RunOK(r)'
  <2>1. run'[r] = rec /\ rec.tenant = run[r].tenant /\ rec.triggered = run[r].triggered
    BY <1>1, <1>t DEF Attempted, Becomes, TypeOK
  <2>2. /\ row' = row /\ dryRun' = dryRun /\ copies' = copies
        /\ attacks[run[r].tenant] > 0 => attacks'[run[r].tenant] > 0
        /\ run[r].tenant # None
    BY <1>2, ProvisioningConstantsOK DEF Frame, apiVars, settings
  <2>3. CASE task = "backfill"
    <3>1. rec.next = 1 /\ rec.written = {} /\ rec.errors = {} /\ task \notin Later
      BY <1>1, <2>3 DEF Attempted, Later
    <3>2. rec.written \cup rec.errors = 1 .. rec.next - 1
      BY <3>1
    <3> QED
      BY <1>2, <1>t, <2>1, <2>2, <2>3, <3>1, <3>2 DEF RunOK
  <2>4. CASE task # "backfill"
    <3>1. rec.written = run[r].written /\ rec.errors = run[r].errors
      BY <1>1, <2>4 DEF Attempted
    <3>2. ASSUME task \in Later PROVE rec.written \cup rec.errors = Events
      <4>1. CASE run[r].task \in Later
        BY <3>1, <4>1, <1>t DEF RunOK
      <4>2. CASE run[r].task = "backfill" /\ run[r].next > NumEvents
        <5>1. run[r].next - 1 = NumEvents
          BY <4>2, <1>t, RunTypes, OnboardingConstantsOK
        <5> QED
          BY <3>1, <4>2, <5>1, <1>t DEF RunOK, Events
      <4> QED
        BY <3>2, <4>1, <4>2
    <3> QED
      BY <1>2, <1>t, <2>1, <2>2, <2>4, <3>1, <3>2 DEF RunOK
  <2> QED
    BY <2>3, <2>4
<1> QED
  BY <1>2, <1>3, <1>4, <1>5, QuietStep

\* A task fails: it is tried again, or the run with it.
LEMMA FailKeeps ==
  ASSUME OnboardingInv, NEW r \in Runs, run[r].tenant \in Tenants, run[r].task \in Tasks,
         AttemptFails(r), Frame, UNCHANGED graphVars
  PROVE  OnboardingInv'
<1>1. run[r].tries \in 1 .. Retries + 1 /\ run[r].task \in AllTasks /\ RunOK(r)
  BY RunTypes DEF OnboardingInv
<1>2. CASE RetryLeft(r)
  <2>1. run[r].tries + 1 \in 1 .. Retries + 1
    BY <1>1, <1>2, OnboardingConstantsOK DEF RetryLeft
  <2>2. Attempt(r, run[r].task, run[r].tries + 1)
    BY <1>2 DEF AttemptFails
  <2>3. run[r].task \notin {"validate", "failed"} => row[run[r].tenant] # "none"
    BY <1>1 DEF RunOK
  <2> QED
    BY <1>1, <2>1, <2>2, <2>3, AttemptKeeps
<1>3. CASE ~RetryLeft(r)
  <2>1. Attempt(r, "failed", run[r].tries)
    BY <1>3 DEF AttemptFails
  <2>2. "failed" \in AllTasks /\ "failed" \notin Later
    BY DEF AllTasks, Ends, Later
  <2> QED
    BY <1>1, <2>1, <2>2, AttemptKeeps
<1> QED
  BY <1>2, <1>3

\* A task succeeds: on to the next.
LEMMA SucceedKeeps ==
  ASSUME OnboardingInv, NEW r \in Runs, run[r].tenant \in Tenants, run[r].task \in Tasks,
         Succeeds(r), Frame, UNCHANGED graphVars,
         run[r].task = "validate" => row[run[r].tenant] # "none",
         run[r].task = "backfill" => run[r].next > NumEvents
  PROVE  OnboardingInv'
<1> DEFINE task == run[r].task
<1> DEFINE next == After[task]
<1>1. /\ next \in {"backfill", "profiles", "attack", "welcome", "finished"}
      /\ task = "validate" <=> next = "backfill"
      /\ task = "backfill" <=> next = "profiles"
  BY DEF After, Tasks
<1>2. Attempt(r, next, 1)
  BY DEF Succeeds
<1>3. RunOK(r)
  BY DEF OnboardingInv
<1>4. next \in AllTasks
  BY <1>1 DEF AllTasks, Tasks, Ends
<1>5. 1 \in 1 .. Retries + 1
  BY OnboardingConstantsOK
<1>6. row[run[r].tenant] # "none"
  BY <1>3 DEF RunOK, Tasks
<1>7. next \in Later => \/ run[r].task \in Later
                        \/ run[r].task = "backfill" /\ run[r].next > NumEvents
  BY <1>1 DEF Later, Tasks
<1> HIDE DEF next
<1> QED
  BY <1>2, <1>4, <1>5, <1>6, <1>7, AttemptKeeps

LEMMA TriggerKeeps ==
  ASSUME OnboardingInv, NEW r \in Runs, Trigger(r)
  PROVE  OnboardingInv'
<1>1. PICK t \in Tenants : run' = [run EXCEPT ![r].tenant = t]
  BY DEF Trigger
<1> DEFINE rec == [run[r] EXCEPT !.tenant = t]
<1>2. /\ run[r] \in RunRecord /\ run[r].tenant = None /\ run[r].task = "validate"
      /\ ~run[r].triggered /\ run[r].written = {} /\ run \in [Runs -> RunRecord]
  BY DEF OnboardingInv, TypeOK, RunOK, Trigger
<1>3. run' = [run EXCEPT ![r] = rec]
  BY <1>1, <1>2
<1>4. /\ rec \in RunRecord /\ rec.tenant = t /\ rec.task = "validate"
      /\ ~rec.triggered /\ rec.written = {}
  BY <1>2 DEF RunRecord
<1> HIDE DEF rec
<1>5. /\ run' \in [Runs -> RunRecord] /\ run'[r] = rec
      /\ \A s \in Runs : s # r => run'[s] = run[s]
  BY <1>2, <1>3, <1>4
<1>6. UNCHANGED <<apiVars, faults, settings, switchOn, graphVars, attacks, onboarded, backfills>>
  BY DEF Trigger
<1>7. Frame
  BY <1>6 DEF Frame, OnboardingInv, TypeOK, ApiTypeOK
<1>8. /\ UNCHANGED <<owners, copies, constrained>> /\ Apart'
      /\ owners' \in [Nodes -> SUBSET Tenants] /\ copies' \in [Tenants \X Events -> Nat]
      /\ backfills' \in [Tenants -> Nat]
  BY <1>6 DEF OnboardingInv, TypeOK, Apart, graphVars, settings
<1>9. Counted'
  <2>1. \A u \in Tenants, e \in Events : Pending(u, e)' = Pending(u, e)
    BY <1>2, <1>4, <1>5 DEF Pending
  <2> QED
    BY <2>1, <1>6, <1>8 DEF OnboardingInv, Counted
<1>10. RunOK(r)'
  BY <1>4, <1>5, ProvisioningConstantsOK DEF RunOK, Later
<1> QED
  BY <1>5, <1>7, <1>8, <1>9, <1>10, RunStep

\* A working run has a tenant.
LEMMA WorkingTenant ==
  ASSUME OnboardingInv, NEW r \in Runs, run[r].tenant # None
  PROVE  run[r].tenant \in Tenants
BY RunTypes DEF OnboardingInv

LEMMA ValidateKeeps ==
  ASSUME OnboardingInv, NEW r \in Runs, ValidateTenant(r)
  PROVE  OnboardingInv'
<1>1. /\ run[r].tenant \in Tenants /\ run[r].task = "validate" /\ run[r].task \in Tasks
      /\ UNCHANGED <<apiVars, faults, settings, switchOn, graphVars, attacks, onboarded>>
  BY WorkingTenant DEF ValidateTenant, Working, Tasks
<1>2. Frame /\ UNCHANGED graphVars
  BY <1>1 DEF Frame, OnboardingInv, TypeOK, ApiTypeOK
<1>3. CASE row[run[r].tenant] = "active" /\ Succeeds(r)
  BY <1>1, <1>2, <1>3, SucceedKeeps
<1>4. CASE AttemptFails(r)
  BY <1>1, <1>2, <1>4, FailKeeps
<1> QED
  BY <1>3, <1>4 DEF ValidateTenant

LEMMA FinishKeeps ==
  ASSUME OnboardingInv, NEW r \in Runs, FinishBackfill(r) \/ BuildProfilesAndScore(r)
  PROVE  OnboardingInv'
<1>1. /\ run[r].tenant \in Tenants /\ run[r].task \in Tasks /\ run[r].task # "validate"
      /\ run[r].task = "backfill" => run[r].next > NumEvents
      /\ UNCHANGED <<apiVars, faults, settings, switchOn, graphVars, attacks, onboarded>>
      /\ Succeeds(r)
  BY WorkingTenant DEF FinishBackfill, BuildProfilesAndScore, Working, Tasks
<1>2. Frame /\ UNCHANGED graphVars
  BY <1>1 DEF Frame, OnboardingInv, TypeOK, ApiTypeOK
<1> QED
  BY <1>1, <1>2, SucceedKeeps

LEMMA DiesKeeps ==
  ASSUME OnboardingInv, NEW r \in Runs, Dies(r)
  PROVE  OnboardingInv'
<1>1. /\ run[r].tenant \in Tenants /\ run[r].task \in Tasks /\ AttemptFails(r)
      /\ UNCHANGED <<apiVars, settings, switchOn, graphVars, attacks, onboarded>>
  BY WorkingTenant DEF Dies
<1>2. faults' \in 0 .. MaxFaults
  BY FaultBound DEF Dies, OnboardingInv, TypeOK, ApiTypeOK
<1>3. Frame /\ UNCHANGED graphVars
  BY <1>1, <1>2 DEF Frame, OnboardingInv, TypeOK
<1> QED
  BY <1>1, <1>3, FailKeeps

LEMMA WelcomeKeeps ==
  ASSUME OnboardingInv, NEW r \in Runs, SendWelcomeNotification(r)
  PROVE  OnboardingInv'
<1>1. /\ run[r].tenant \in Tenants /\ run[r].task = "welcome" /\ run[r].task \in Tasks
      /\ UNCHANGED <<apiVars, settings, switchOn, graphVars, attacks>>
  BY WorkingTenant DEF SendWelcomeNotification, Working, Tasks
<1>2. faults' \in 0 .. MaxFaults
  BY FaultBound DEF SendWelcomeNotification, OnboardingInv, TypeOK, ApiTypeOK
<1>3. onboarded' \subseteq Tenants
  BY <1>1 DEF SendWelcomeNotification, OnboardingInv, TypeOK
<1>4. Frame /\ UNCHANGED graphVars
  BY <1>1, <1>2, <1>3 DEF Frame, OnboardingInv, TypeOK
<1> QED
  BY <1>1, <1>4, SucceedKeeps, FailKeeps DEF SendWelcomeNotification

LEMMA AttackKeeps ==
  ASSUME OnboardingInv, NEW r \in Runs, FirstRedTeamRun(r)
  PROVE  OnboardingInv'
<1> DEFINE t == run[r].tenant
<1> DEFINE more == attacks[t] + 1
<1> DEFINE Reports(done) ==
      run' = [run EXCEPT ![r].task = "welcome", ![r].tries = 1, ![r].triggered = done]
<1>1. /\ t \in Tenants /\ run[r].task = "attack" /\ run[r].task \in Tasks
      /\ UNCHANGED <<apiVars, settings, switchOn, graphVars, onboarded>>
  BY WorkingTenant DEF FirstRedTeamRun, Working, Tasks
<1>t. /\ attacks \in [Tenants -> Nat] /\ run \in [Runs -> RunRecord] /\ run[r] \in RunRecord
      /\ RunOK(r) /\ Counted
  BY DEF OnboardingInv, TypeOK
<1>2. faults' \in 0 .. MaxFaults
  BY FaultBound DEF FirstRedTeamRun, OnboardingInv, TypeOK, ApiTypeOK
<1>m. more \in Nat /\ more > 0
  BY <1>1, <1>t
<1>3. attacks' = attacks \/ attacks' = [attacks EXCEPT ![t] = more]
  BY DEF FirstRedTeamRun
<1>4. \/ AttemptFails(r)
      \/ Reports(FALSE) /\ backfills' = backfills
      \/ Reports(TRUE) /\ backfills' = backfills /\ attacks' = [attacks EXCEPT ![t] = more]
  BY DEF FirstRedTeamRun
<1> HIDE DEF more
<1>5. attacks' \in [Tenants -> Nat] /\ \A u \in Tenants : attacks[u] > 0 => attacks'[u] > 0
  BY <1>1, <1>3, <1>t, <1>m
<1>6. Frame /\ UNCHANGED graphVars
  BY <1>1, <1>2, <1>5 DEF Frame, OnboardingInv, TypeOK
<1>7. CASE AttemptFails(r)
  BY <1>1, <1>6, <1>7, FailKeeps
<1>8. ASSUME NEW done \in BOOLEAN, Reports(done), backfills' = backfills,
             done => attacks'[t] > 0
      PROVE  OnboardingInv'
  <2> DEFINE rec == [run[r] EXCEPT !.task = "welcome", !.tries = 1, !.triggered = done]
  <2>1. run' = [run EXCEPT ![r] = rec]
    BY <1>8, <1>t
  <2>2. 1 \in 1 .. Retries + 1 /\ "welcome" \in AllTasks
    BY OnboardingConstantsOK DEF AllTasks, Tasks
  <2>3. rec \in RunRecord
    BY <1>t, <2>2 DEF RunRecord, AllTasks
  <2>4. /\ rec.tenant = t /\ rec.task = "welcome" /\ rec.triggered = done
        /\ rec.written = run[r].written /\ rec.errors = run[r].errors
    BY <1>t DEF RunRecord
  <2> HIDE DEF rec
  <2>5. Becomes(r, rec)
    BY <2>1, <2>3, <2>4 DEF Becomes
  <2>6. copies' = copies
    BY <1>1 DEF graphVars
  <2>7. Counted'
    BY <1>8, <1>t, <2>4, <2>5, <2>6, CountKept DEF OnboardingInv
  <2>8. RunOK(r)'
    <3>1. run'[r] = rec
      BY <2>1, <1>t
    <3>2. row' = row /\ dryRun' = dryRun /\ t # None
      BY <1>1, ProvisioningConstantsOK DEF apiVars, settings
    <3>3. row[t] # "none" /\ rec.written \cup rec.errors = Events
      BY <1>1, <1>t, <2>4 DEF RunOK, Later
    <3> QED
      BY <1>8, <1>t, <2>4, <2>6, <3>1, <3>2, <3>3 DEF RunOK
  <2>9. backfills' \in [Tenants -> Nat]
    BY <1>8 DEF OnboardingInv, TypeOK
  <2> QED
    BY <1>6, <2>5, <2>7, <2>8, <2>9, QuietStep
<1>9. attacks' = [attacks EXCEPT ![t] = more] => attacks'[t] > 0
  BY <1>1, <1>t, <1>m
<1> QED
  BY <1>4, <1>7, <1>8, <1>9

\* The loop of historical_backfill goes on to the next event with this one noted.
Noted(r, rec, ok) ==
  LET e == run[r].next
  IN
  /\ Becomes(r, rec)
  /\ rec.task = run[r].task /\ rec.triggered = run[r].triggered
  /\ rec.next = e + 1
  /\ rec.written = IF ok THEN run[r].written \cup {e} ELSE run[r].written
  /\ rec.errors = IF ok THEN run[r].errors ELSE run[r].errors \cup {e}

LEMMA NextEvent ==
  ASSUME TypeOK, NEW r \in Runs, run[r].next <= NumEvents
  PROVE  run[r].next \in Events /\ run[r].next + 1 \in 1 .. NumEvents + 1
BY RunTypes, OnboardingConstantsOK DEF Events

LEMMA CountRecord ==
  ASSUME TypeOK, NEW r \in Runs, NEW ok \in BOOLEAN, run[r].next <= NumEvents, Count(r, ok)
  PROVE  \E rec : Noted(r, rec, ok)
<1> DEFINE e == run[r].next
<1> DEFINE more == e + 1
<1> DEFINE written == IF ok THEN run[r].written \cup {e} ELSE run[r].written
<1> DEFINE wrong == IF ok THEN run[r].errors ELSE run[r].errors \cup {e}
<1>1. run \in [Runs -> RunRecord] /\ run[r] \in RunRecord
  BY DEF TypeOK
<1>2. more \in 1 .. NumEvents + 1 /\ written \subseteq Events /\ wrong \subseteq Events
  BY NextEvent, RunTypes
<1>3. run' = [run EXCEPT ![r].next = more, ![r].written = written, ![r].errors = wrong]
  BY <1>1 DEF Count
<1>4. more = run[r].next + 1
  OBVIOUS
<1> HIDE DEF more, written, wrong
<1> DEFINE rec == [run[r] EXCEPT !.next = more, !.written = written, !.errors = wrong]
<1>5. run' = [run EXCEPT ![r] = rec]
  BY <1>1, <1>3
<1>6. rec \in RunRecord
  BY <1>1, <1>2 DEF RunRecord
<1>7. /\ rec.tenant = run[r].tenant /\ rec.task = run[r].task
      /\ rec.triggered = run[r].triggered
      /\ rec.next = more /\ rec.written = written /\ rec.errors = wrong
  BY <1>1 DEF RunRecord
<1> HIDE DEF rec
<1> QED
  BY <1>4, <1>5, <1>6, <1>7 DEF Noted, Becomes, written, wrong

\* An event that goes in hangs on nodes of its tenant, and with the constraints it is the
\* first copy, on nodes that are nobody else's.
LEMMA PutGraph ==
  ASSUME TypeOK, Apart, NEW t \in Tenants, NEW e \in Events, PutEvent(t, e),
         constrained' = constrained
  PROVE  /\ owners' \in [Nodes -> SUBSET Tenants] /\ copies' \in [Tenants \X Events -> Nat]
         /\ \A u \in Tenants, f \in Events :
              copies'[<<u, f>>] = IF u = t /\ f = e THEN copies[<<u, f>>] + 1 ELSE copies[<<u, f>>]
         /\ Apart'
<1> DEFINE more == copies[<<t, e>>] + 1
<1>1. /\ copies \in [Tenants \X Events -> Nat] /\ owners \in [Nodes -> SUBSET Tenants]
      /\ NodesOf \in [Tenants \X Events -> SUBSET Nodes]
  BY OnboardingConstantsOK DEF TypeOK
<1>2. more \in Nat /\ more > 0 /\ <<t, e>> \in Tenants \X Events
  BY <1>1
<1>3. copies' = [copies EXCEPT ![<<t, e>>] = more]
  BY DEF PutEvent
<1>4. more = copies[<<t, e>>] + 1
  OBVIOUS
<1> HIDE DEF more
<1>5. copies' \in [Tenants \X Events -> Nat]
  BY <1>1, <1>2, <1>3
<1>6. \A u \in Tenants, f \in Events :
        copies'[<<u, f>>] = IF u = t /\ f = e THEN more ELSE copies[<<u, f>>]
  BY <1>1, <1>2, <1>3
<1>7. owners' = [n \in Nodes |-> IF n \in NodesOf[<<t, e>>] THEN owners[n] \cup {t} ELSE owners[n]]
  BY DEF PutEvent, Merge
<1>8. owners' \in [Nodes -> SUBSET Tenants]
  BY <1>1, <1>7
<1>9. \A n \in Nodes : owners[n] \subseteq owners'[n] /\ (n \in NodesOf[<<t, e>>] => t \in owners'[n])
  BY <1>7
<1>10. ASSUME NEW u \in Tenants, NEW f \in Events, copies'[<<u, f>>] > 0, NEW n \in NodesOf[<<u, f>>]
       PROVE  u \in owners'[n]
  <2>1. n \in Nodes
    BY <1>1
  <2>2. CASE u = t /\ f = e
    BY <2>1, <2>2, <1>9
  <2>3. CASE ~(u = t /\ f = e)
    <3>1. u \in owners[n]
      BY <1>6, <1>10, <2>3 DEF Apart
    <3> QED
      BY <3>1, <2>1, <1>9
  <2> QED
    BY <2>2, <2>3
<1>11. ASSUME constrained
       PROVE  /\ \A n \in Nodes : \A v, w \in owners'[n] : v = w
              /\ \A u \in Tenants, f \in Events : copies'[<<u, f>>] <= 1
  <2>1. copies[<<t, e>>] = 0 /\ \A n \in NodesOf[<<t, e>>] : owners[n] \in {{}, {t}}
    BY <1>1, <1>2, <1>11 DEF PutEvent, Refused
  <2>2. \A n \in Nodes : owners'[n] = owners[n] \/ owners'[n] = {t}
    BY <1>7, <2>1
  <2>3. \A u \in Tenants, f \in Events : copies[<<u, f>>] <= 1
    BY <1>11 DEF Apart
  <2>4. more = 1
    BY <1>4, <2>1
  <2> QED
    BY <1>6, <1>11, <2>2, <2>3, <2>4 DEF Apart
<1> QED
  BY <1>4, <1>5, <1>6, <1>8, <1>10, <1>11 DEF Apart

\* The event's copy takes the place of the attempt that was to write it.
LEMMA WriteCounts ==
  ASSUME TypeOK, Counted, NEW r \in Runs, NEW rec, NEW ok, Noted(r, rec, ok),
         run[r].task = "backfill", run[r].next <= NumEvents, backfills' = backfills,
         \A u \in Tenants, f \in Events :
            \/ copies'[<<u, f>>] = copies[<<u, f>>]
            \/ u = run[r].tenant /\ f = run[r].next /\ copies'[<<u, f>>] = copies[<<u, f>>] + 1
  PROVE  Counted'
<1> SUFFICES ASSUME NEW u \in Tenants, NEW f \in Events
             PROVE  copies'[<<u, f>>] + Cardinality(Pending(u, f)') <= backfills[u]
  BY DEF Counted
<1>1. /\ run' = [run EXCEPT ![r] = rec] /\ rec.tenant = run[r].tenant
      /\ run \in [Runs -> RunRecord] /\ rec.next = run[r].next + 1 /\ rec.task = "backfill"
      /\ run[r].next \in Nat
  BY RunTypes DEF Noted, Becomes, TypeOK
<1> DEFINE p == Cardinality(Pending(u, f))
<1> DEFINE q == Cardinality(Pending(u, f)')
<1> DEFINE k == copies[<<u, f>>]
<1> DEFINE c == copies'[<<u, f>>]
<1> DEFINE b == backfills[u]
<1>2. p \in Nat /\ q \in Nat /\ k \in Nat /\ b \in Nat /\ k + p <= b
  BY PendingFinite DEF Counted, TypeOK
<1>3. Pending(u, f)' \subseteq Pending(u, f)
  <2>1. f \in Nat
    BY OnboardingConstantsOK DEF Events
  <2> QED
    BY <1>1, <2>1 DEF Pending
<1>4. q <= p
  BY <1>3, PendingFinite, FS_Subset
<1>5. CASE c = k
  <2> HIDE DEF p, q, k, c, b
  <2>1. c + q <= b
    BY <1>2, <1>4, <1>5
  <2> QED
    BY <2>1 DEF c, q, b
<1>6. CASE u = run[r].tenant /\ f = run[r].next /\ c = k + 1
  <2>1. r \in Pending(u, f) /\ r \notin Pending(u, f)'
    BY <1>1, <1>6 DEF Pending
  <2>2. Pending(u, f)' \cup {r} \subseteq Pending(u, f)
    BY <1>3, <2>1
  <2>3. IsFiniteSet(Pending(u, f)' \cup {r}) /\ Cardinality(Pending(u, f)' \cup {r}) = q + 1
    BY <2>1, PendingFinite, FS_AddElement
  <2>4. q + 1 <= p
    BY <2>2, <2>3, PendingFinite, FS_Subset
  <2> HIDE DEF p, q, k, c, b
  <2>5. c + q <= b
    BY <1>2, <1>6, <2>4
  <2> QED
    BY <2>5 DEF c, q, b
<1> QED
  BY <1>5, <1>6

LEMMA WriteKeeps ==
  ASSUME OnboardingInv, NEW r \in Runs, WriteEvent(r)
  PROVE  OnboardingInv'
<1> DEFINE t == run[r].tenant
<1> DEFINE e == run[r].next
<1>1. /\ t \in Tenants /\ run[r].task = "backfill" /\ e <= NumEvents
      /\ UNCHANGED <<apiVars, settings, switchOn, attacks, onboarded, backfills>>
  BY WorkingTenant DEF WriteEvent, Working
<1>t. TypeOK /\ Apart /\ Counted /\ RunOK(r)
  BY DEF OnboardingInv
<1>2. e \in Events /\ e \in Nat
  BY <1>1, <1>t, NextEvent, RunTypes
<1>3. faults' \in 0 .. MaxFaults
  BY FaultBound DEF WriteEvent, OnboardingInv, TypeOK, ApiTypeOK
<1>4. Frame
  BY <1>1, <1>3 DEF Frame, OnboardingInv, TypeOK
<1>5. constrained' = constrained /\ dryRun' = dryRun /\ row' = row
  BY <1>1 DEF settings, apiVars
<1>6. /\ owners' \in [Nodes -> SUBSET Tenants] /\ copies' \in [Tenants \X Events -> Nat]
      /\ \A u \in Tenants, f \in Events :
            \/ copies'[<<u, f>>] = copies[<<u, f>>]
            \/ u = t /\ f = e /\ copies'[<<u, f>>] = copies[<<u, f>>] + 1
      /\ Apart'
  <2>1. CASE UNCHANGED graphVars
    BY <2>1, <1>t, <1>5 DEF graphVars, TypeOK, Apart
  <2>2. CASE PutEvent(t, e)
    BY <2>2, <1>1, <1>2, <1>5, <1>t, PutGraph
  <2> QED
    BY <2>1, <2>2 DEF WriteEvent
<1>7. PICK ok \in BOOLEAN : /\ Count(r, ok)
                            /\ ok => dryRun \/ PutEvent(t, e)
  BY DEF WriteEvent
<1>8. PICK rec : Noted(r, rec, ok)
  BY <1>1, <1>7, <1>t, CountRecord
<1>9. \A u \in Tenants, f \in Events : copies[<<u, f>>] > 0 => copies'[<<u, f>>] > 0
  <2> SUFFICES ASSUME NEW u \in Tenants, NEW f \in Events, copies[<<u, f>>] > 0
               PROVE  copies'[<<u, f>>] > 0
    OBVIOUS
  <2> DEFINE k == copies[<<u, f>>]
  <2>1. k \in Nat /\ k > 0 /\ copies'[<<u, f>>] \in {k, k + 1}
    BY <1>6, <1>t DEF TypeOK
  <2> HIDE DEF k
  <2> QED
    BY <2>1
<1>10. PutEvent(t, e) => copies'[<<t, e>>] > 0
  <2> SUFFICES ASSUME PutEvent(t, e) PROVE copies'[<<t, e>>] > 0
    OBVIOUS
  <2> DEFINE k == copies[<<t, e>>]
  <2>1. k \in Nat /\ copies'[<<t, e>>] = k + 1
    BY <1>1, <1>2, <1>5, <1>t, PutGraph DEF TypeOK
  <2> HIDE DEF k
  <2> QED
    BY <2>1
<1>11. Counted'
  BY <1>1, <1>6, <1>8, <1>t, WriteCounts
<1>12. /\ run' \in [Runs -> RunRecord] /\ run'[r] = rec
       /\ \A s \in Runs : s # r => run'[s] = run[s]
  BY <1>8, <1>t DEF Noted, Becomes, TypeOK
<1>13. RunOK(r)'
  <2>1. /\ rec.tenant = t /\ rec.task = "backfill" /\ rec.triggered = run[r].triggered
        /\ rec.next = e + 1
        /\ rec.written = IF ok THEN run[r].written \cup {e} ELSE run[r].written
        /\ rec.errors = IF ok THEN run[r].errors ELSE run[r].errors \cup {e}
    BY <1>1, <1>8 DEF Noted, Becomes
  <2>2. /\ run[r].written \cup run[r].errors = 1 .. e - 1
        /\ run[r].written \cap run[r].errors = {}
        /\ row[t] # "none" /\ t # None
        /\ run[r].triggered => attacks[t] > 0
        /\ ~dryRun => \A f \in run[r].written : copies[<<t, f>>] > 0
        /\ run[r].written \subseteq Events
    BY <1>1, <1>t, RunTypes, ProvisioningConstantsOK DEF RunOK
  <2>3. e \notin run[r].written /\ e \notin run[r].errors
    BY <1>2, <2>2
  <2>4. rec.written \cap rec.errors = {}
    BY <2>1, <2>2, <2>3
  <2>5. rec.written \cup rec.errors = 1 .. rec.next - 1
    <3>1. rec.written \cup rec.errors = (1 .. e - 1) \cup {e}
      BY <2>1, <2>2
    <3>2. e \in Nat /\ e >= 1
      BY <1>t, RunTypes
    <3>3. (1 .. e - 1) \cup {e} = 1 .. e
      BY <3>2
    <3>4. rec.next - 1 = e
      BY <2>1, <3>2
    <3> QED
      BY <3>1, <3>3, <3>4
  <2>6. ~dryRun => \A f \in rec.written : copies'[<<t, f>>] > 0
    BY <1>1, <1>7, <1>9, <1>10, <2>1, <2>2
  <2>7. "backfill" \notin Later /\ attacks' = attacks
    BY <1>1 DEF Later
  <2> QED
    BY <1>5, <1>12, <2>1, <2>2, <2>4, <2>5, <2>6, <2>7 DEF RunOK
<1>14. backfills' \in [Tenants -> Nat]
  BY <1>1, <1>t DEF TypeOK
<1> QED
  BY <1>4, <1>6, <1>9, <1>11, <1>12, <1>13, <1>14, RunStep

----------------------------------------------------------------------------
(* The invariant.                                                           *)

LEMMA OnboardingInvInit == Init => OnboardingInv
<1> SUFFICES ASSUME Init PROVE OnboardingInv
  OBVIOUS
<1>1. ApiTypeOK
  <2>1. 0 \in 0 .. MaxRequests /\ 0 \in 0 .. MaxFaults
    BY ProvisioningConstantsOK
  <2> QED
    BY <2>1 DEF Init, ApiInit, ApiTypeOK, Ats, Answers, Rows
<1>2. ApiInv
  BY DEF Init, ApiInit, ApiInv, AnswersHold, RequestOK, DeletedExisted
<1>3. run \in [Runs -> RunRecord]
  <2>1. \A n \in Nat : 1 \in 1 .. n + 1
    OBVIOUS
  <2>2. 1 \in 1 .. Retries + 1 /\ 1 \in 1 .. NumEvents + 1
    BY <2>1, OnboardingConstantsOK, Zenon
  <2>3. "validate" \in Tasks \cup Ends
    BY DEF Tasks
  <2> DEFINE rec == [tenant |-> None, task |-> "validate", tries |-> 1,
                     next |-> 1, written |-> {}, errors |-> {}, triggered |-> FALSE]
  <2>4. rec \in RunRecord
    BY <2>2, <2>3 DEF RunRecord
  <2>5. run = [r \in Runs |-> rec]
    BY DEF Init
  <2> HIDE DEF rec
  <2> QED
    BY <2>4, <2>5
<1>4. TypeOK
  BY <1>1, <1>3 DEF Init, TypeOK
<1>5. Apart
  BY DEF Init, Apart
<1>6. \A r \in Runs : /\ run[r].tenant = None /\ run[r].task = "validate"
                      /\ ~run[r].triggered /\ run[r].written = {}
  BY DEF Init
<1>7. Counted
  <2> SUFFICES ASSUME NEW t \in Tenants, NEW e \in Events
               PROVE  copies[<<t, e>>] + Cardinality(Pending(t, e)) <= backfills[t]
    BY DEF Counted
  <2>1. Pending(t, e) = {}
    BY <1>6 DEF Pending
  <2>2. Cardinality(Pending(t, e)) = 0
    BY <2>1, FS_EmptySet
  <2>3. copies[<<t, e>>] = 0 /\ backfills[t] = 0
    BY DEF Init
  <2> QED
    BY <2>2, <2>3
<1>8. ASSUME NEW r \in Runs PROVE RunOK(r)
  BY <1>6 DEF RunOK, Later
<1> QED
  BY <1>2, <1>4, <1>5, <1>7, <1>8 DEF OnboardingInv

\* Steps that leave the DAG's runs and what they wrote alone.
LEMMA OutsideKeeps ==
  ASSUME OnboardingInv, ApiTypeOK', ApiInv', switchOn' \in BOOLEAN,
         \A t \in Tenants : row[t] # "none" => row'[t] # "none",
         UNCHANGED <<constrained, dryRun, owners, copies, run, attacks, onboarded, backfills>>
  PROVE  OnboardingInv'
<1>1. TypeOK'
  BY DEF OnboardingInv, TypeOK
<1>2. Apart' /\ Counted'
  BY DEF OnboardingInv, Apart, Counted, Pending
<1>3. ASSUME NEW r \in Runs PROVE RunOK(r)'
  BY RunStays DEF OnboardingInv
<1> QED
  BY <1>1, <1>2, <1>3 DEF OnboardingInv

LEMMA OnboardingInvStep == OnboardingInv /\ [Next]_vars => OnboardingInv'
<1> SUFFICES ASSUME OnboardingInv, [Next]_vars PROVE OnboardingInv'
  OBVIOUS
<1>1. CASE Api
  <2>1. ApiTypeOK' /\ ApiInv' /\ \A t \in Tenants : row[t] # "none" => row'[t] # "none"
    BY <1>1, ApiTypes, ApiKeeps, RowsStay DEF Api, OnboardingInv, TypeOK
  <2>2. /\ UNCHANGED <<constrained, dryRun, owners, copies, run, attacks, onboarded, backfills>>
        /\ switchOn' \in BOOLEAN
    BY <1>1 DEF Api, settings, graphVars, OnboardingInv, TypeOK
  <2> QED
    BY <2>1, <2>2, OutsideKeeps
<1>2. CASE FlipSwitch
  <2>1. faults' \in 0 .. MaxFaults
    BY <1>2, FaultBound DEF FlipSwitch, OnboardingInv, TypeOK, ApiTypeOK
  <2>2. /\ UNCHANGED <<row, flagged, client, at, ready, errors, hit, told, unsure, requests>>
        /\ UNCHANGED <<constrained, dryRun, owners, copies, run, attacks, onboarded, backfills>>
        /\ switchOn' \in BOOLEAN
    BY <1>2 DEF FlipSwitch, apiVars, settings, graphVars, OnboardingInv, TypeOK
  <2>3. ApiTypeOK' /\ ApiInv'
    BY <2>1, <2>2 DEF OnboardingInv, TypeOK, ApiTypeOK, ApiInv, AnswersHold, RequestOK,
                      DeletedExisted
  <2> QED
    BY <2>2, <2>3, OutsideKeeps
<1>3. ASSUME NEW r \in Runs, Trigger(r) \/ TaskWorks(r) \/ Dies(r) PROVE OnboardingInv'
  BY <1>3, TriggerKeeps, ValidateKeeps, WriteKeeps, FinishKeeps, AttackKeeps, WelcomeKeeps,
     DiesKeeps DEF TaskWorks
<1>4. CASE UNCHANGED vars
  <2>1. /\ UNCHANGED <<row, flagged, client, at, ready, errors, hit, told, unsure, requests>>
        /\ UNCHANGED <<constrained, dryRun, owners, copies, run, attacks, onboarded, backfills>>
        /\ switchOn' \in BOOLEAN /\ faults' = faults
    BY <1>4 DEF vars, OnboardingInv, TypeOK
  <2>2. ApiTypeOK' /\ ApiInv'
    BY <2>1 DEF OnboardingInv, TypeOK, ApiTypeOK, ApiInv, AnswersHold, RequestOK, DeletedExisted
  <2> QED
    BY <2>1, <2>2, OutsideKeeps
<1> QED
  BY <1>1, <1>2, <1>3, <1>4 DEF Next

----------------------------------------------------------------------------

\* The invariant the theorems below rest on: besides what they state, a copy of an event is
\* paid for by an attempt that has passed it, and a run knows of each event it has come to
\* whether it is counted as ingested or as an error.
THEOREM OnboardingInvariant == Spec => []OnboardingInv
BY OnboardingInvInit, OnboardingInvStep, PTL DEF Spec

\* Rows, requests, runs and the graph keep their types.
THEOREM OnboardingTypes == Spec => []TypeOK
<1>1. OnboardingInv => TypeOK
  BY DEF OnboardingInv
<1> QED
  BY <1>1, OnboardingInvariant, PTL

\* A tenant the API answered 204 about is inactive until a failed statement or a manual
\* update, and one it answered 201 about has a row, whatever failed on the way.
THEOREM ApiAnswersHold == Spec => []AnswersHold
<1>1. OnboardingInv => AnswersHold
  BY DEF OnboardingInv, ApiInv
<1> QED
  BY <1>1, OnboardingInvariant, PTL

\* The backfills of any tenants, side by side and retried at any point, leave each
\* tenant's history on its own nodes, with at most one copy of an event per attempt.
THEOREM TenantHistoriesApart == Spec => []HistoriesAreApart
<1>1. OnboardingInv => HistoriesAreApart
  <2> SUFFICES ASSUME OnboardingInv, NEW t \in Tenants, NEW e \in Events
               PROVE  copies[<<t, e>>] <= backfills[t]
    BY DEF OnboardingInv, Apart, HistoriesAreApart
  <2> DEFINE p == Cardinality(Pending(t, e))
  <2> DEFINE k == copies[<<t, e>>]
  <2> DEFINE b == backfills[t]
  <2>1. p \in Nat /\ k \in Nat /\ b \in Nat /\ k + p <= b
    BY PendingFinite DEF OnboardingInv, TypeOK, Counted
  <2> HIDE DEF p, k, b
  <2>2. k <= b
    BY <2>1
  <2> QED
    BY <2>2 DEF k, b
<1> QED
  BY <1>1, OnboardingInvariant, PTL

\* send_welcome_notification reports what happened: every event is in one of its two
\* counts, ingested events are in the graph, a triggered attack cycle was created.
THEOREM WelcomeIsTrue == Spec => []WelcomeTellsTrue
<1>1. OnboardingInv => WelcomeTellsTrue
  <2> SUFFICES ASSUME OnboardingInv, NEW r \in Runs, run[r].task \in {"welcome", "finished"}
               PROVE  LET t == run[r].tenant
                      IN
                      /\ run[r].written \cup run[r].errors = Events
                      /\ run[r].written \cap run[r].errors = {}
                      /\ ~dryRun => \A e \in run[r].written : copies[<<t, e>>] > 0
                      /\ run[r].triggered => attacks[t] > 0
                      /\ row[t] # "none"
    BY DEF WelcomeTellsTrue
  <2>1. RunOK(r) /\ run[r].task \in Later
    BY DEF OnboardingInv, Later
  <2> QED
    BY <2>1 DEF RunOK
<1> QED
  BY <1>1, OnboardingInvariant, PTL
=============================================================================

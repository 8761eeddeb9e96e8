-------------------------- MODULE DriftDetectionProofs --------------------------
(***************************************************************************)
(* Theorems about DriftDetection for any jobs, tenants, profiles, retries  *)
(* and faults: no detection uses another tenant's profile, the events      *)
(* about a job match its deliveries, and what an evaluation passes on.     *)
(***************************************************************************)
EXTENDS DriftDetection, FiniteSetTheorems, TLAPS

\* Only customers have a profile, in the index and in the cache.
CustomersOnly ==
  \A k \in Keys : clean[k] # None \/ cache[k] # None => k[2][1] \in Customers

\* The jobs of the evaluation.
Evaluated(j) == \E i \in DOMAIN EvalJobs : EvalJobs[i] = j

\* A record of a delivery of j: its vector is the profile of j's account, a customer, and
\* the verdict on a job of the evaluation rests on suspicious-profiles.
VectorOK(j, rec) ==
  rec.vector # None => rec.vector.for = ProfileKey(j) /\ Account[j] \in Customers

FlagOK(j, rec) == Evaluated(j) /\ rec.flagged => SuspiciousMatch(j)

WorkOK == \A d \in Deliveries : VectorOK(d[1], work[d]) /\ FlagOK(d[1], work[d])

\* The first delivery of a job is always there.
FirstDelivered == \A j \in Jobs : work[<<j, 0>>].at # "unused"

\* A job delivered once has a verdict in the topic only when it is done with.
VerdictLast ==
  \A j \in Jobs : Delivered(j) = {0} /\ verdicts[j] # {} => work[<<j, 0>>].at = "done"

DriftInv ==
  /\ TypeOK
  /\ ProfilesStayApart
  /\ CustomersOnly
  /\ WorkOK
  /\ FirstDelivered
  /\ VerdictLast
  /\ OneEventPerDelivery
  /\ PassedOnPatterns

----------------------------------------------------------------------------
(* Keys.                                                                    *)

LEMMA TokenId ==
  ASSUME NEW a \in Accounts, NEW ns \in Namespaces
  PROVE  <<ns, Token(Raw(a))>> \in Keys /\ <<ns, Token(Raw(a))>>[2][1] = a
<1>1. Token(Raw(a)) = <<a, 1>>
  BY DEF Token, Raw
<1> QED
  BY <1>1 DEF Keys, Ids

LEMMA KeyOfJob ==
  ASSUME NEW j \in Jobs
  PROVE  ProfileKey(j) \in Keys /\ ProfileKey(j)[2][1] = Account[j]
<1>1. Account[j] \in Accounts /\ NamespaceOf(j) \in Namespaces
  BY DetectionConstantsOK DEF NamespaceOf, Namespaces
<1> QED
  BY <1>1, TokenId DEF ProfileKey

LEMMA JobsOfDeliveries ==
  ASSUME NEW d \in Deliveries
  PROVE  d[1] \in Jobs /\ d[2] \in Copies /\ d = <<d[1], d[2]>>
BY DEF Deliveries

LEMMA EvalIsStranger ==
  ASSUME NEW j \in Jobs, Evaluated(j)
  PROVE  Account[j] \notin Customers /\ Mode[j] = "eval"
BY DetectionConstantsOK DEF Evaluated

----------------------------------------------------------------------------
(* The initial state.                                                       *)

LEMMA IndexesType ==
  ASSUME NEW c \in Indexes
  PROVE  /\ c \in [Keys -> Vectors \cup {None}]
         /\ \A k \in Keys : c[k] # None => c[k].for = k /\ k[2][1] \in Customers
<1> DEFINE built == Namespaces \X {Token(Raw(a)) : a \in Customers}
<1>1. PICK shape \in [built -> Shapes \cup {None}] :
        c = [k \in Keys |-> IF k \in built /\ shape[k] # None
                            THEN [for |-> k, shape |-> shape[k]] ELSE None]
  BY DEF Indexes
<1>2. \A k \in built : k[2][1] \in Customers
  BY DEF Token, Raw
<1>3. \A k \in Keys : k \in built /\ shape[k] # None => [for |-> k, shape |-> shape[k]] \in Vectors
  BY DEF Vectors
<1> HIDE DEF built
<1>4. \A k \in Keys : c[k] \in Vectors \cup {None}
  BY <1>1, <1>3
<1>5. c \in [Keys -> Vectors \cup {None}]
  BY <1>1, <1>4
<1>6. \A k \in Keys : c[k] # None => k \in built /\ c[k] = [for |-> k, shape |-> shape[k]]
  BY <1>1
<1> QED
  BY <1>2, <1>5, <1>6

LEMMA DriftInvInit == Init => DriftInv
<1> SUFFICES ASSUME Init PROVE DriftInv
  OBVIOUS
<1> USE DetectionConstantsOK, RefreshConstantsOK
<1>1. /\ clean \in [Keys -> Vectors \cup {None}]
      /\ \A k \in Keys : clean[k] # None => clean[k].for = k /\ k[2][1] \in Customers
  BY IndexesType DEF Init, RefreshInit
<1>2. RefreshTypeOK
  <2>1. RefreshInit
    BY DEF Init
  <2>2. /\ patterns \subseteq Shapes /\ todo \subseteq Candidates /\ rebuilt \subseteq Candidates
        /\ reached \subseteq Candidates
    BY <2>1 DEF RefreshInit
  <2>3. /\ refresh = "idle" /\ inject = "idle" /\ health = "none"
        /\ rebuildErrors = FALSE /\ injectErrors = FALSE /\ builds = 0 /\ faults = 0
    BY <2>1 DEF RefreshInit
  <2>4. builds \in 0 .. MaxBuilds /\ faults \in 0 .. MaxFaults
    BY <2>3
  <2> QED
    BY <1>1, <2>2, <2>3, <2>4, Zenon DEF RefreshTypeOK
<1>3. \A d \in Deliveries : work[d] = Fresh(IF d[2] = 0 THEN FirstStep(d[1]) ELSE "unused")
  BY DEF Init, Deliveries
<1>4. \A d \in Deliveries : /\ work[d] \in Work /\ work[d].vector = None /\ work[d].flagged = FALSE
                            /\ work[d].at # "done"
                            /\ d[2] = 0 => work[d].at # "unused"
                            /\ d[2] # 0 => work[d].at = "unused"
  <2>1. \A at \in Ats : Fresh(at) \in Work /\ Fresh(at).at = at /\ Fresh(at).vector = None
                          /\ Fresh(at).flagged = FALSE
    BY DEF Work, Fresh
  <2>2. \A j \in Jobs : FirstStep(j) \in {"lookup", "embed"}
    BY DEF FirstStep
  <2>3. {"lookup", "embed", "unused"} \subseteq Ats
    BY DEF Ats
  <2> SUFFICES ASSUME NEW d \in Deliveries
               PROVE  /\ work[d] \in Work /\ work[d].vector = None /\ work[d].flagged = FALSE
                      /\ work[d].at # "done"
                      /\ d[2] = 0 => work[d].at # "unused"
                      /\ d[2] # 0 => work[d].at = "unused"
    OBVIOUS
  <2>4. d[1] \in Jobs
    BY JobsOfDeliveries
  <2>5. CASE d[2] = 0
    <3>1. work[d] = Fresh(FirstStep(d[1]))
      BY <2>5, <1>3
    <3> QED
      BY <2>1, <2>2, <2>3, <2>4, <2>5, <3>1
  <2>6. CASE d[2] # 0
    <3>1. work[d] = Fresh("unused")
      BY <2>6, <1>3
    <3> QED
      BY <2>1, <2>3, <2>6, <3>1
  <2> QED
    BY <2>5, <2>6
<1>5. work \in [Jobs \X Copies -> Work]
  BY <1>4 DEF Init, Deliveries
<1>6. TypeOK
  <2>1. cache \in [Keys -> Vectors \cup {None}]
    BY DEF Init
  <2>2. sent \in [Jobs -> Nat] /\ verdicts \in [Jobs -> SUBSET BOOLEAN]
    BY DEF Init
  <2>3. turn \in 1 .. Len(EvalJobs) + 1 /\ passed \in BOOLEAN
    <3>1. Len(EvalJobs) \in Nat
      OBVIOUS
    <3>2. turn = 1 /\ passed = FALSE
      BY DEF Init
    <3>3. \A n \in Nat : 1 \in 1 .. n + 1
      OBVIOUS
    <3>4. turn \in 1 .. Len(EvalJobs) + 1
      BY <3>1, <3>2, <3>3, Zenon
    <3> QED
      BY <3>2, <3>4
  <2> QED
    BY <1>2, <1>5, <2>1, <2>2, <2>3 DEF TypeOK
<1>7. ProfilesStayApart /\ CustomersOnly
  BY <1>1, <1>4 DEF Init, ProfilesStayApart, CustomersOnly
<1>8. WorkOK
  BY <1>4 DEF WorkOK, VectorOK, FlagOK
<1>9. FirstDelivered
  <2> SUFFICES ASSUME NEW j \in Jobs PROVE work[<<j, 0>>].at # "unused"
    BY DEF FirstDelivered
  <2>1. <<j, 0>> \in Deliveries
    BY DEF Deliveries
  <2> QED
    BY <2>1, <1>4
<1>10. VerdictLast /\ OneEventPerDelivery
  <2> SUFFICES ASSUME NEW j \in Jobs
               PROVE  /\ verdicts[j] = {}
                      /\ sent[j] <= Cardinality({c \in Delivered(j) : work[<<j, c>>].at = "done"})
    BY DEF VerdictLast, OneEventPerDelivery
  <2>1. verdicts[j] = {} /\ sent[j] = 0
    BY DEF Init
  <2>2. {c \in Delivered(j) : work[<<j, c>>].at = "done"} = {}
    <3>1. \A c \in Copies : <<j, c>> \in Deliveries
      BY DEF Deliveries
    <3> QED
      BY <1>4, <3>1 DEF Delivered
  <2>3. Cardinality({c \in Delivered(j) : work[<<j, c>>].at = "done"}) = 0
    BY <2>2, FS_EmptySet
  <2> QED
    BY <2>1, <2>3
<1>11. PassedOnPatterns
  BY DEF Init, PassedOnPatterns
<1> QED
  BY <1>6, <1>7, <1>8, <1>9, <1>10, <1>11 DEF DriftInv

----------------------------------------------------------------------------
(* A step of a delivery.                                                    *)

Running == {"embed", "lookup", "fetch", "fill", "judge", "publish"}

\* What a second delivery of d's task starts from.
Again(d) == [work[d] EXCEPT !.at = TaskOf(@), !.vector = None]

Sound(d, rec) ==
  /\ rec \in Work
  /\ rec.at # "unused"
  /\ VectorOK(d[1], rec)
  /\ FlagOK(d[1], rec)

\* d's record becomes rec, and its task may be delivered again.
Moved(d, rec) ==
  \/ work' = [work EXCEPT ![d] = rec]
  \/ \E c \in Copies :
       /\ work[<<d[1], c>>].at = "unused"
       /\ work' = [work EXCEPT ![d] = rec, ![<<d[1], c>>] = Again(d)]

Done(j) == {c \in Delivered(j) : work[<<j, c>>].at = "done"}

LEMMA AgainSound ==
  ASSUME DriftInv, NEW d \in Deliveries, work[d].at \in Running
  PROVE  /\ Sound(d, Again(d))
         /\ Again(d).at \in {"embed", "lookup", "publish"}
         /\ Again(d).vector = None
<1>1. work[d] \in Work
  BY DEF DriftInv, TypeOK, Deliveries
<1>2. TaskOf(work[d].at) \in {"embed", "lookup", "publish"}
  BY DEF TaskOf, Running
<1>3. {"embed", "lookup", "publish"} \subseteq Ats /\ "unused" \notin {"embed", "lookup", "publish"}
  BY DEF Ats
<1>4. /\ Again(d) \in Work /\ Again(d).at = TaskOf(work[d].at) /\ Again(d).vector = None
      /\ Again(d).flagged = work[d].flagged
  BY <1>1, <1>2, <1>3 DEF Again, Work
<1>5. FlagOK(d[1], work[d])
  BY DEF DriftInv, WorkOK
<1> QED
  BY <1>2, <1>3, <1>4, <1>5 DEF Sound, VectorOK, FlagOK

LEMMA MovedPointwise ==
  ASSUME DriftInv, NEW d \in Deliveries, work[d].at \in Running,
         NEW rec, Sound(d, rec), Moved(d, rec)
  PROVE  /\ work' \in [Deliveries -> Work]
         /\ work'[d] = rec
         /\ \A e \in Deliveries :
              \/ work'[e] = work[e]
              \/ e = d
              \/ e[1] = d[1] /\ work[e].at = "unused" /\ work'[e] = Again(d)
<1>1. work \in [Deliveries -> Work] /\ rec \in Work /\ Again(d) \in Work
  BY AgainSound DEF DriftInv, TypeOK, Deliveries, Sound
<1>2. work[d].at # "unused"
  BY DEF Running
<1>3. CASE work' = [work EXCEPT ![d] = rec]
  BY <1>1, <1>3
<1>4. ASSUME NEW c \in Copies, work[<<d[1], c>>].at = "unused",
             work' = [work EXCEPT ![d] = rec, ![<<d[1], c>>] = Again(d)]
      PROVE  /\ work' \in [Deliveries -> Work]
             /\ work'[d] = rec
             /\ \A e \in Deliveries :
                  \/ work'[e] = work[e]
                  \/ e = d
                  \/ e[1] = d[1] /\ work[e].at = "unused" /\ work'[e] = Again(d)
  <2> DEFINE b == <<d[1], c>>
  <2>1. b \in Deliveries /\ b # d /\ b[1] = d[1] /\ work[b].at = "unused"
    BY <1>2, <1>4, JobsOfDeliveries DEF Deliveries
  <2>2. work' = [work EXCEPT ![d] = rec, ![b] = Again(d)]
    BY <1>4
  <2> HIDE DEF b
  <2> QED
    BY <1>1, <2>1, <2>2
<1> QED
  BY <1>3, <1>4 DEF Moved

\* Deliveries only ever begin and end, and what is done stays as it is.
LEMMA MovedKeeps ==
  ASSUME DriftInv, NEW d \in Deliveries, work[d].at \in Running,
         NEW rec, Sound(d, rec), Moved(d, rec), patterns' = patterns
  PROVE  /\ WorkOK'
         /\ FirstDelivered'
         /\ \A j \in Jobs : Delivered(j) \subseteq Delivered(j)' /\ Done(j) \subseteq Done(j)'
         /\ \A e \in Deliveries : work[e].at = "done" => work'[e] = work[e]
<1>1. /\ work'[d] = rec
      /\ \A e \in Deliveries :
           \/ work'[e] = work[e]
           \/ e = d
           \/ e[1] = d[1] /\ work[e].at = "unused" /\ work'[e] = Again(d)
  BY MovedPointwise
<1>2. Sound(d, Again(d))
  BY AgainSound
<1>4. WorkOK'
  <2> SUFFICES ASSUME NEW e \in Deliveries
               PROVE  /\ work'[e].vector # None =>
                            work'[e].vector.for = ProfileKey(e[1]) /\ Account[e[1]] \in Customers
                      /\ Evaluated(e[1]) /\ work'[e].flagged => SuspiciousMatch(e[1])
    BY DEF WorkOK, FlagOK, VectorOK, SuspiciousMatch
  <2>1. CASE work'[e] = work[e]
    BY <2>1 DEF DriftInv, WorkOK, FlagOK, VectorOK
  <2>2. CASE e = d
    BY <2>2, <1>1 DEF Sound, FlagOK, VectorOK
  <2>3. CASE e[1] = d[1] /\ work'[e] = Again(d)
    BY <2>3, <1>2 DEF Sound, FlagOK, VectorOK
  <2> QED
    BY <2>1, <2>2, <2>3, <1>1
<1>5. \A e \in Deliveries : work[e].at # "unused" => work'[e].at # "unused"
  BY <1>1 DEF Sound
<1>6. \A e \in Deliveries : work[e].at = "done" => work'[e] = work[e]
  BY <1>1 DEF Running
<1>7. \A j \in Jobs, c \in Copies : <<j, c>> \in Deliveries
  BY DEF Deliveries
<1>8. FirstDelivered'
  <2>1. 0 \in Copies
    BY DetectionConstantsOK
  <2> QED
    BY <2>1, <1>5, <1>7 DEF DriftInv, FirstDelivered
<1>9. \A j \in Jobs : Delivered(j) \subseteq Delivered(j)' /\ Done(j) \subseteq Done(j)'
  BY <1>5, <1>6, <1>7 DEF Delivered, Done
<1> QED
  BY <1>4, <1>6, <1>8, <1>9

LEMMA DoneFinite ==
  ASSUME NEW j \in Jobs
  PROVE  /\ IsFiniteSet(Done(j)) /\ Cardinality(Done(j)) \in Nat
         /\ IsFiniteSet(Done(j)') /\ Cardinality(Done(j)') \in Nat
<1>1. Done(j) \in SUBSET Copies /\ Done(j)' \in SUBSET Copies
  BY DEF Done, Delivered
<1> QED
  BY <1>1, FS_Subset, FS_CardinalityType, DetectionConstantsOK

\* A step that sends nothing keeps what is known of the events.
LEMMA EventsKept ==
  ASSUME DriftInv, NEW d \in Deliveries, work[d].at \in Running,
         NEW rec, Sound(d, rec), Moved(d, rec), UNCHANGED <<patterns, sent, verdicts>>
  PROVE  VerdictLast' /\ OneEventPerDelivery'
<1>1. /\ \A j \in Jobs : Delivered(j) \subseteq Delivered(j)' /\ Done(j) \subseteq Done(j)'
      /\ \A e \in Deliveries : work[e].at = "done" => work'[e] = work[e]
  BY MovedKeeps
<1> SUFFICES ASSUME NEW j \in Jobs
             PROVE  /\ Delivered(j)' = {0} /\ verdicts[j] # {} =>
                         work'[<<j, 0>>].at = "done" /\ verdicts[j] = {work'[<<j, 0>>].flagged}
                    /\ sent[j] <= Cardinality(Done(j)')
  BY DEF VerdictLast, OneEventPerDelivery, Done
<1>2. ASSUME Delivered(j)' = {0}, verdicts[j] # {}
      PROVE  work'[<<j, 0>>].at = "done" /\ verdicts[j] = {work'[<<j, 0>>].flagged}
  <2>1. 0 \in Delivered(j)
    BY DetectionConstantsOK DEF DriftInv, FirstDelivered, Delivered
  <2>2. Delivered(j) = {0}
    BY <2>1, <1>1, <1>2
  <2>3. work[<<j, 0>>].at = "done" /\ verdicts[j] = {work[<<j, 0>>].flagged}
    BY <2>2, <1>2 DEF DriftInv, VerdictLast, OneEventPerDelivery
  <2>4. <<j, 0>> \in Deliveries
    BY DetectionConstantsOK DEF Deliveries
  <2> QED
    BY <2>3, <2>4, <1>1
<1>3. sent[j] <= Cardinality(Done(j)')
  <2>1. sent[j] <= Cardinality(Done(j)) /\ sent[j] \in Nat
    BY DEF DriftInv, OneEventPerDelivery, Done, TypeOK
  <2>2. Cardinality(Done(j)) <= Cardinality(Done(j)')
    BY <1>1, DoneFinite, FS_Subset
  <2> QED
    BY <2>1, <2>2, DoneFinite
<1> QED
  BY <1>2, <1>3

LEMMA RaisesMoves ==
  ASSUME DriftInv, NEW d \in Deliveries, work[d].at \in Running, Raises(d)
  PROVE  \E rec : Sound(d, rec) /\ Moved(d, rec)
<1>1. work[d] \in Work /\ FlagOK(d[1], work[d])
  BY DEF DriftInv, TypeOK, WorkOK, Deliveries
<1>2. TaskOf(work[d].at) \in Ats \ {"unused"} /\ "failed" \in Ats \ {"unused"}
  BY DEF TaskOf, Running, Ats
<1>3. CASE Mode[d[1]] = "chain" /\ MayRetry(d)
  <2> DEFINE rec == [work[d] EXCEPT !.at = TaskOf(@), !.tries = @ + 1, !.vector = None]
  <2>1. work[d].tries \in 0 .. MaxRetries /\ work[d].tries < MaxRetries
    BY <1>1, <1>3 DEF Work, MayRetry
  <2>2. work[d].tries + 1 \in 0 .. MaxRetries
    BY <2>1, DetectionConstantsOK
  <2>3. rec \in Work
    BY <1>1, <1>2, <2>2 DEF Work
  <2>4. rec.at # "unused" /\ rec.vector = None /\ rec.flagged = work[d].flagged
    BY <1>1, <1>2 DEF Work
  <2>5. Moved(d, rec)
    BY <1>3 DEF Raises, Goes, Moved
  <2> HIDE DEF rec
  <2>6. Sound(d, rec)
    BY <1>1, <2>3, <2>4 DEF Sound, VectorOK, FlagOK
  <2> QED
    BY <2>5, <2>6
<1>4. CASE ~(Mode[d[1]] = "chain" /\ MayRetry(d))
  <2> DEFINE rec == [work[d] EXCEPT !.at = "failed", !.vector = None]
  <2>1. rec \in Work
    BY <1>1, <1>2 DEF Work
  <2>2. rec.at # "unused" /\ rec.vector = None /\ rec.flagged = work[d].flagged
    BY <1>1, <1>2 DEF Work
  <2>3. Moved(d, rec)
    BY <1>4 DEF Raises, Goes, Moved
  <2> HIDE DEF rec
  <2>4. Sound(d, rec)
    BY <1>1, <2>1, <2>2 DEF Sound, VectorOK, FlagOK
  <2> QED
    BY <2>3, <2>4
<1> QED
  BY <1>3, <1>4

\* What every step of a delivery that sends nothing comes to.
LEMMA QuietStep ==
  ASSUME DriftInv, NEW d \in Deliveries, work[d].at \in Running,
         \E rec : Sound(d, rec) /\ Moved(d, rec),
         UNCHANGED <<refreshVars, sent, verdicts, turn, passed>>,
         faults' \in 0 .. MaxFaults,
         cache' \in [Keys -> Vectors \cup {None}],
         \A k \in Keys : cache'[k] # None => cache'[k].for = k /\ k[2][1] \in Customers
  PROVE  DriftInv'
<1>1. PICK rec : Sound(d, rec) /\ Moved(d, rec)
  OBVIOUS
<1>u. UNCHANGED <<clean, patterns, refresh, todo, rebuilt, rebuildErrors, inject,
                  injectErrors, health, reached, builds>>
  BY DEF refreshVars
<1>2. work' \in [Jobs \X Copies -> Work]
  BY <1>1, MovedPointwise DEF Deliveries
<1>3. RefreshTypeOK'
  BY <1>u DEF DriftInv, TypeOK, RefreshTypeOK
<1>4. TypeOK'
  BY <1>2, <1>3 DEF DriftInv, TypeOK
<1>5. WorkOK' /\ FirstDelivered'
  BY <1>1, <1>u, MovedKeeps
<1>6. ProfilesStayApart' /\ CustomersOnly'
  <2>1. \A e \in Deliveries : work'[e].vector # None => work'[e].vector.for = ProfileKey(e[1])
    BY <1>5 DEF WorkOK, VectorOK
  <2> QED
    BY <2>1, <1>u DEF DriftInv, ProfilesStayApart, CustomersOnly
<1>7. VerdictLast' /\ OneEventPerDelivery'
  BY <1>1, <1>u, EventsKept
<1>8. PassedOnPatterns'
  BY <1>u DEF DriftInv, PassedOnPatterns, SuspiciousMatch
<1> QED
  BY <1>4, <1>5, <1>6, <1>7, <1>8 DEF DriftInv

\* Facts about a record and the cache that the steps share.
LEMMA Standing ==
  ASSUME DriftInv, NEW d \in Deliveries
  PROVE  /\ work[d] \in Work
         /\ VectorOK(d[1], work[d])
         /\ FlagOK(d[1], work[d])
         /\ faults \in 0 .. MaxFaults
         /\ cache \in [Keys -> Vectors \cup {None}]
         /\ \A k \in Keys : cache[k] # None => cache[k].for = k /\ k[2][1] \in Customers
         /\ clean \in [Keys -> Vectors \cup {None}]
         /\ \A k \in Keys : clean[k] # None => clean[k].for = k /\ k[2][1] \in Customers
         /\ d[1] \in Jobs
         /\ ProfileKey(d[1]) \in Keys /\ ProfileKey(d[1])[2][1] = Account[d[1]]
<1>1. d[1] \in Jobs
  BY JobsOfDeliveries
<1>2. ProfileKey(d[1]) \in Keys /\ ProfileKey(d[1])[2][1] = Account[d[1]]
  BY <1>1, KeyOfJob
<1>3. work[d] \in Work
  BY DEF DriftInv, TypeOK, Deliveries
<1> QED
  BY <1>1, <1>2, <1>3 DEF DriftInv, TypeOK, RefreshTypeOK, WorkOK, ProfilesStayApart, CustomersOnly

LEMMA FaultBound ==
  ASSUME faults \in 0 .. MaxFaults, Fault
  PROVE  faults' \in 0 .. MaxFaults
BY RefreshConstantsOK DEF Fault

\* A record with another place, vector and verdict.
LEMMA RecordSound ==
  ASSUME NEW d \in Deliveries, NEW rec \in Work, NEW at \in Ats \ {"unused"},
         NEW v \in Vectors \cup {None}, NEW new,
         new = [rec EXCEPT !.at = at, !.vector = v], FlagOK(d[1], rec),
         v # None => v.for = ProfileKey(d[1]) /\ Account[d[1]] \in Customers
  PROVE  Sound(d, new)
<1>1. new \in Work /\ new.at = at /\ new.vector = v /\ new.flagged = rec.flagged
  BY DEF Work
<1> QED
  BY <1>1 DEF Sound, VectorOK, FlagOK

LEMMA SameVector ==
  ASSUME NEW rec \in Work, NEW at
  PROVE  [rec EXCEPT !.at = at] = [rec EXCEPT !.at = at, !.vector = rec.vector]
BY DEF Work

LEMMA EmbedKeeps ==
  ASSUME DriftInv, NEW d \in Deliveries, EmbedTransaction(d)
  PROVE  DriftInv'
<1>1. work[d].at \in Running /\ UNCHANGED <<refreshVars, cache, sent, verdicts, turn, passed>>
  BY DEF EmbedTransaction, At, Running
<1>2. faults' \in 0 .. MaxFaults
  BY Standing, FaultBound DEF EmbedTransaction, MovesOn, Raises
<1>3. \E rec : Sound(d, rec) /\ Moved(d, rec)
  <2>1. CASE MovesOn(d, Fresh("lookup"))
    <3>1. /\ Fresh("lookup") \in Work /\ Fresh("lookup").at = "lookup"
          /\ Fresh("lookup").vector = None /\ Fresh("lookup").flagged = FALSE
      BY DetectionConstantsOK DEF Fresh, Work, Ats
    <3>2. Sound(d, Fresh("lookup"))
      BY <3>1 DEF Sound, VectorOK, FlagOK
    <3>3. Moved(d, Fresh("lookup"))
      BY <2>1 DEF MovesOn, Goes, Moved, Again
    <3> QED
      BY <3>2, <3>3
  <2>2. CASE Raises(d)
    BY <2>2, <1>1, RaisesMoves
  <2> QED
    BY <2>1, <2>2 DEF EmbedTransaction
<1> QED
  BY <1>1, <1>2, <1>3, Standing, QuietStep

\* The steps that write only the record, and perhaps the cache.
LEMMA RecordStep ==
  ASSUME DriftInv, NEW d \in Deliveries, work[d].at \in Running,
         NEW at \in Ats \ {"unused"}, NEW v \in Vectors \cup {None},
         v # None => v.for = ProfileKey(d[1]) /\ Account[d[1]] \in Customers,
         Goes(d, [work[d] EXCEPT !.at = at, !.vector = v])
  PROVE  \E rec : Sound(d, rec) /\ Moved(d, rec)
<1> DEFINE new == [work[d] EXCEPT !.at = at, !.vector = v]
<1>1. work[d] \in Work /\ FlagOK(d[1], work[d])
  BY Standing
<1>2. Moved(d, new)
  BY DEF Goes, Moved
<1>3. new = [work[d] EXCEPT !.at = at, !.vector = v]
  OBVIOUS
<1> HIDE DEF new
<1>4. Sound(d, new)
  BY <1>1, <1>3, RecordSound
<1> QED
  BY <1>2, <1>4

LEMMA LookUpKeeps ==
  ASSUME DriftInv, NEW d \in Deliveries, LookUpCache(d)
  PROVE  DriftInv'
<1> DEFINE cached == cache[CacheKey(d[1])]
<1>1. /\ work[d].at = "lookup" /\ work[d].at \in Running
      /\ UNCHANGED <<refreshVars, cache, sent, verdicts, turn, passed>>
  BY DEF LookUpCache, At, Running
<1>2. faults' \in 0 .. MaxFaults
  BY Standing, FaultBound DEF LookUpCache
<1>3. cached \in Vectors \cup {None}
      /\ (cached # None => cached.for = ProfileKey(d[1]) /\ Account[d[1]] \in Customers)
  <2>1. CacheKey(d[1]) = ProfileKey(d[1])
    BY DEF CacheKey
  <2> QED
    BY <2>1, Standing
<1>4. work[d] \in Work /\ VectorOK(d[1], work[d])
  BY Standing
<1>5. \/ Goes(d, [work[d] EXCEPT !.at = "judge", !.vector = cached])
      \/ Goes(d, [work[d] EXCEPT !.at = "fetch"])
  BY DEF LookUpCache
<1> HIDE DEF cached
<1>6. {"judge", "fetch"} \subseteq Ats \ {"unused"}
  BY DEF Ats
<1>7. \E rec : Sound(d, rec) /\ Moved(d, rec)
  <2>1. CASE Goes(d, [work[d] EXCEPT !.at = "judge", !.vector = cached])
    BY <2>1, <1>1, <1>3, <1>6, RecordStep
  <2>2. CASE Goes(d, [work[d] EXCEPT !.at = "fetch"])
    <3>1. Goes(d, [work[d] EXCEPT !.at = "fetch", !.vector = work[d].vector])
      BY <2>2, <1>4, SameVector DEF Goes
    <3>2. work[d].vector \in Vectors \cup {None}
      BY <1>4 DEF Work
    <3> QED
      BY <3>1, <3>2, <1>1, <1>4, <1>6, RecordStep DEF VectorOK
  <2> QED
    BY <2>1, <2>2, <1>5
<1> QED
  BY <1>1, <1>2, <1>7, Standing, QuietStep

LEMMA FetchKeeps ==
  ASSUME DriftInv, NEW d \in Deliveries, FetchProfile(d)
  PROVE  DriftInv'
<1> DEFINE found == clean[ProfileKey(d[1])]
<1>1. /\ work[d].at = "fetch" /\ work[d].at \in Running
      /\ UNCHANGED <<refreshVars, cache, sent, verdicts, turn, passed>>
  BY DEF FetchProfile, At, Running
<1>2. faults' \in 0 .. MaxFaults
  BY Standing, FaultBound DEF FetchProfile
<1>3. found \in Vectors \cup {None}
      /\ (found # None => found.for = ProfileKey(d[1]) /\ Account[d[1]] \in Customers)
  BY Standing
<1>4. work[d] \in Work /\ VectorOK(d[1], work[d])
  BY Standing
<1>5. \/ Goes(d, [work[d] EXCEPT !.at = "fill", !.vector = found])
      \/ Goes(d, [work[d] EXCEPT !.at = "judge"])
  BY DEF FetchProfile
<1> HIDE DEF found
<1>6. {"judge", "fill"} \subseteq Ats \ {"unused"}
  BY DEF Ats
<1>7. \E rec : Sound(d, rec) /\ Moved(d, rec)
  <2>1. CASE Goes(d, [work[d] EXCEPT !.at = "fill", !.vector = found])
    BY <2>1, <1>1, <1>3, <1>6, RecordStep
  <2>2. CASE Goes(d, [work[d] EXCEPT !.at = "judge"])
    <3>1. Goes(d, [work[d] EXCEPT !.at = "judge", !.vector = work[d].vector])
      BY <2>2, <1>4, SameVector DEF Goes
    <3>2. work[d].vector \in Vectors \cup {None}
      BY <1>4 DEF Work
    <3> QED
      BY <3>1, <3>2, <1>1, <1>4, <1>6, RecordStep DEF VectorOK
  <2> QED
    BY <2>1, <2>2, <1>5
<1> QED
  BY <1>1, <1>2, <1>7, Standing, QuietStep

\* The cache takes the vector in flight under the key of its own profile.
LEMMA FillKeeps ==
  ASSUME DriftInv, NEW d \in Deliveries, FillCache(d)
  PROVE  DriftInv'
<1>1. /\ work[d].at = "fill" /\ work[d].at \in Running
      /\ UNCHANGED <<refreshVars, sent, verdicts, turn, passed>>
  BY DEF FillCache, At, Running
<1>2. faults' \in 0 .. MaxFaults
  BY Standing, FaultBound DEF FillCache
<1>3. work[d] \in Work /\ VectorOK(d[1], work[d]) /\ work[d].vector \in Vectors \cup {None}
  BY Standing DEF Work
<1>4. cache' = cache \/ cache' = [cache EXCEPT ![ProfileKey(d[1])] = work[d].vector]
  BY DEF FillCache, CacheKey
<1>5. /\ cache' \in [Keys -> Vectors \cup {None}]
      /\ \A k \in Keys : cache'[k] # None => cache'[k].for = k /\ k[2][1] \in Customers
  BY <1>3, <1>4, Standing DEF VectorOK
<1>6. Goes(d, [work[d] EXCEPT !.at = "judge", !.vector = work[d].vector])
  BY <1>3, SameVector DEF FillCache, Goes
<1>7. \E rec : Sound(d, rec) /\ Moved(d, rec)
  BY <1>1, <1>3, <1>6, RecordStep DEF VectorOK, Ats
<1> QED
  BY <1>1, <1>2, <1>5, <1>7, QuietStep

\* An account without a profile is flagged for what suspicious-profiles holds only.
LEMMA JudgeKeeps ==
  ASSUME DriftInv, NEW d \in Deliveries, Judge(d)
  PROVE  DriftInv'
<1> DEFINE j == d[1]
<1> DEFINE flagged == PersonalDrift(j, work[d].vector) \/ SuspiciousMatch(j)
<1> DEFINE next == IF Mode[j] = "call" THEN "done" ELSE "publish"
<1> DEFINE rec == [at |-> next, tries |-> 0, vector |-> None, flagged |-> flagged]
<1>1. /\ work[d].at = "judge" /\ work[d].at \in Running
      /\ UNCHANGED <<refreshVars, cache, sent, verdicts, turn, passed>>
  BY DEF Judge, At, Running
<1>2. faults' \in 0 .. MaxFaults
  BY Standing, FaultBound DEF Judge, MovesOn, Raises
<1>3. MovesOn(d, rec) \/ Raises(d)
  BY DEF Judge
<1>4. flagged \in BOOLEAN /\ next \in Ats \ {"unused"}
  BY DEF PersonalDrift, SuspiciousMatch, Ats
<1>5. Evaluated(j) /\ flagged => SuspiciousMatch(j)
  <2> SUFFICES ASSUME Evaluated(j) PROVE ~PersonalDrift(j, work[d].vector)
    OBVIOUS
  <2>1. work[d].vector = None
    BY Standing, EvalIsStranger DEF VectorOK
  <2> QED
    BY <2>1 DEF PersonalDrift, Score
<1>6. /\ rec.at = next /\ rec.vector = None /\ rec.flagged = flagged
      /\ rec = [at |-> next, tries |-> 0, vector |-> None, flagged |-> flagged]
  OBVIOUS
<1>7. ASSUME MovesOn(d, rec) PROVE Moved(d, rec)
  BY <1>7 DEF MovesOn, Goes, Moved, Again
<1> HIDE DEF flagged, next, rec
<1>8. rec \in Work
  BY <1>4, <1>6, DetectionConstantsOK DEF Work
<1>9. Sound(d, rec)
  BY <1>4, <1>5, <1>6, <1>8 DEF Sound, VectorOK, FlagOK
<1>10. \E r : Sound(d, r) /\ Moved(d, r)
  BY <1>1, <1>3, <1>7, <1>9, RaisesMoves
<1> QED
  BY <1>1, <1>2, <1>10, Standing, QuietStep

LEMMA WorkerDiesKeeps ==
  ASSUME DriftInv, NEW d \in Deliveries, WorkerDies(d)
  PROVE  DriftInv'
<1>1. /\ work[d].at \in Running
      /\ UNCHANGED <<refreshVars, cache, sent, verdicts, turn, passed>>
  BY DEF WorkerDies, Running
<1>2. faults' \in 0 .. MaxFaults
  BY Standing, FaultBound DEF WorkerDies
<1>3. PICK at \in {TaskOf(work[d].at), "lost"} :
        Goes(d, [work[d] EXCEPT !.at = at, !.vector = None])
  BY DEF WorkerDies
<1>4. at \in Ats \ {"unused"}
  BY <1>1 DEF TaskOf, Running, Ats
<1>5. \E rec : Sound(d, rec) /\ Moved(d, rec)
  BY <1>1, <1>3, <1>4, RecordStep
<1> QED
  BY <1>1, <1>2, <1>5, Standing, QuietStep

\* One more event, one more delivery that is done.
LEMMA PublishKeeps ==
  ASSUME DriftInv, NEW d \in Deliveries, PublishResult(d)
  PROVE  DriftInv'
<1> DEFINE j == d[1]
<1> DEFINE rec == [work[d] EXCEPT !.at = "done"]
<1>1. /\ work[d].at = "publish" /\ work[d].at \in Running
      /\ UNCHANGED <<refreshVars, cache, turn, passed>>
  BY DEF PublishResult, At, Running
<1>2. faults' \in 0 .. MaxFaults
  BY Standing, FaultBound DEF PublishResult, MovesOn
<1>3. work[d] \in Work /\ VectorOK(j, work[d]) /\ FlagOK(j, work[d]) /\ j \in Jobs
  BY Standing
<1>4. rec = [work[d] EXCEPT !.at = "done", !.vector = work[d].vector]
      /\ rec.at = "done" /\ rec.flagged = work[d].flagged
  BY <1>3 DEF Work
<1>5. Sound(d, rec)
  <2>1. work[d].vector \in Vectors \cup {None} /\ "done" \in Ats \ {"unused"}
    BY <1>3 DEF Work, Ats
  <2> HIDE DEF rec
  <2> QED
    BY <2>1, <1>3, <1>4, RecordSound DEF VectorOK
<1>6. Moved(d, rec)
  BY DEF PublishResult, MovesOn, Goes, Moved, Again
<1>7. CASE UNCHANGED <<sent, verdicts>>
  BY <1>1, <1>2, <1>5, <1>6, <1>7, Standing, QuietStep
<1>8. CASE /\ sent' = [sent EXCEPT ![j] = @ + 1]
           /\ verdicts' = [verdicts EXCEPT ![j] = @ \cup {work[d].flagged}]
  <2> HIDE DEF rec
  <2>u. UNCHANGED <<clean, patterns, refresh, todo, rebuilt, rebuildErrors, inject,
                    injectErrors, health, reached, builds>>
    BY <1>1 DEF refreshVars
  <2>1. work' \in [Jobs \X Copies -> Work] /\ work'[d] = rec
    BY <1>1, <1>5, <1>6, MovedPointwise DEF Deliveries
  <2>2. /\ WorkOK' /\ FirstDelivered'
        /\ \A i \in Jobs : Delivered(i) \subseteq Delivered(i)' /\ Done(i) \subseteq Done(i)'
        /\ \A e \in Deliveries : work[e].at = "done" => work'[e] = work[e]
    BY <1>1, <1>5, <1>6, <2>u, MovedKeeps
  <2>3. RefreshTypeOK'
    BY <2>u, <1>2 DEF DriftInv, TypeOK, RefreshTypeOK
  <2>4. TypeOK'
    <3>1. sent' \in [Jobs -> Nat]
      <4> DEFINE next == sent[j] + 1
      <4>1. sent \in [Jobs -> Nat]
        BY DEF DriftInv, TypeOK
      <4>2. next \in Nat
        BY <4>1, <1>3
      <4>3. sent' = [sent EXCEPT ![j] = next]
        BY <1>8
      <4> HIDE DEF next
      <4> QED
        BY <4>1, <4>2, <4>3
    <3>2. work[d].flagged \in BOOLEAN
      BY <1>3 DEF Work
    <3>3. verdicts' \in [Jobs -> SUBSET BOOLEAN]
      BY <1>8, <3>2 DEF DriftInv, TypeOK
    <3>4. /\ cache' \in [Keys -> Vectors \cup {None}]
          /\ turn' \in 1 .. Len(EvalJobs) + 1 /\ passed' \in BOOLEAN
      BY <1>1 DEF DriftInv, TypeOK
    <3> QED
      BY <2>1, <2>3, <3>1, <3>3, <3>4 DEF TypeOK
  <2>5. ProfilesStayApart' /\ CustomersOnly'
    <3>1. \A e \in Deliveries : work'[e].vector # None => work'[e].vector.for = ProfileKey(e[1])
      BY <2>2 DEF WorkOK, VectorOK
    <3> QED
      BY <3>1, <2>u, <1>1 DEF DriftInv, ProfilesStayApart, CustomersOnly
  <2>6. PassedOnPatterns'
    BY <2>u, <1>1 DEF DriftInv, PassedOnPatterns, SuspiciousMatch
  <2>7. d = <<j, d[2]>> /\ d[2] \in Copies
    BY JobsOfDeliveries
  <2>8. d[2] \in Delivered(j) /\ d[2] \notin Done(j) /\ d[2] \in Done(j)'
    <3>1. d[2] \in Delivered(j) /\ d[2] \notin Done(j)
      BY <2>7, <1>1 DEF Delivered, Done
    <3>2. d[2] \in Done(j)'
      BY <2>7, <2>1, <1>4 DEF Delivered, Done
    <3> QED
      BY <3>1, <3>2
  <2>9. ASSUME NEW i \in Jobs
        PROVE  /\ Delivered(i)' = {0} /\ verdicts'[i] # {} =>
                    work'[<<i, 0>>].at = "done" /\ verdicts'[i] = {work'[<<i, 0>>].flagged}
               /\ sent'[i] <= Cardinality(Done(i)')
    <3>0. <<i, 0>> \in Deliveries /\ 0 \in Delivered(i)
      BY DetectionConstantsOK DEF DriftInv, FirstDelivered, Delivered, Deliveries
    <3>t. /\ sent \in [Jobs -> Nat] /\ verdicts \in [Jobs -> SUBSET BOOLEAN]
          /\ sent[i] <= Cardinality(Done(i))
          /\ Delivered(i) = {0} /\ verdicts[i] # {} =>
               work[<<i, 0>>].at = "done" /\ verdicts[i] = {work[<<i, 0>>].flagged}
      BY DEF DriftInv, TypeOK, OneEventPerDelivery, Done, VerdictLast
    <3>1. CASE i # j
      <4>1. sent'[i] = sent[i] /\ verdicts'[i] = verdicts[i]
        BY <3>1, <3>t, <1>8
      <4>2. Cardinality(Done(i)) <= Cardinality(Done(i)')
        BY <2>2, DoneFinite, FS_Subset
      <4>3. sent[i] <= Cardinality(Done(i)')
        BY <4>2, <3>t, DoneFinite
      <4>4. Delivered(i)' = {0} => Delivered(i) = {0}
        BY <2>2, <3>0
      <4> QED
        BY <4>1, <4>3, <4>4, <3>0, <3>t, <2>2
    <3>2. CASE i = j
      <4>1. sent'[i] = sent[i] + 1 /\ verdicts'[i] = verdicts[i] \cup {work[d].flagged}
        BY <3>2, <3>t, <1>3, <1>8
      <4>2. Done(i) \cup {d[2]} \subseteq Done(i)'
        BY <3>2, <2>2, <2>8
      <4>3. Cardinality(Done(i) \cup {d[2]}) = Cardinality(Done(i)) + 1
        BY <3>2, <2>8, DoneFinite, FS_AddElement
      <4>4. Cardinality(Done(i) \cup {d[2]}) <= Cardinality(Done(i)')
        BY <4>2, DoneFinite, FS_Subset
      <4>5. sent'[i] <= Cardinality(Done(i)')
        <5> DEFINE n == Cardinality(Done(i))
        <5> DEFINE m == Cardinality(Done(i)')
        <5>1. n \in Nat /\ m \in Nat /\ sent[i] \in Nat /\ sent[i] <= n /\ n + 1 <= m
          BY <4>3, <4>4, <3>t, DoneFinite
        <5> HIDE DEF n, m
        <5>2. sent[i] + 1 <= m
          BY <5>1
        <5> QED
          BY <5>2, <4>1 DEF m
      <4>6. ASSUME Delivered(i)' = {0}
            PROVE  work'[<<i, 0>>].at = "done" /\ verdicts'[i] = {work'[<<i, 0>>].flagged}
        <5>1. Delivered(i) = {0} /\ d[2] = 0
          BY <4>6, <3>0, <3>2, <2>2, <2>8
        <5>2. d = <<i, 0>>
          BY <5>1, <3>2, <2>7
        <5>3. verdicts[i] = {}
          BY <5>1, <5>2, <3>t, <1>1
        <5> QED
          BY <5>2, <5>3, <4>1, <2>1, <1>4
      <4> QED
        BY <4>5, <4>6
    <3> QED
      BY <3>1, <3>2
  <2>10. VerdictLast' /\ OneEventPerDelivery'
    BY <2>9 DEF VerdictLast, OneEventPerDelivery, Done
  <2> QED
    BY <2>2, <2>4, <2>5, <2>6, <2>10 DEF DriftInv
<1> QED
  BY <1>7, <1>8 DEF PublishResult

----------------------------------------------------------------------------
(* The other actions.                                                       *)

\* The indices of the jobs that match a pattern.
Matches == {i \in DOMAIN EvalJobs : SuspiciousMatch(EvalJobs[i])}

LEMMA MatchesFinite ==
  /\ IsFiniteSet(DOMAIN EvalJobs)
  /\ IsFiniteSet(Matches) /\ Cardinality(Matches) \in Nat
  /\ IsFiniteSet(Matches') /\ Cardinality(Matches') \in Nat
<1>1. DOMAIN EvalJobs = 1 .. Len(EvalJobs) /\ Len(EvalJobs) \in Nat
  BY DetectionConstantsOK
<1>2. IsFiniteSet(DOMAIN EvalJobs)
  BY <1>1, FS_Interval
<1>3. Matches \in SUBSET DOMAIN EvalJobs /\ Matches' \in SUBSET DOMAIN EvalJobs
  BY DEF Matches
<1> QED
  BY <1>2, <1>3, FS_Subset, FS_CardinalityType

\* Patterns are only ever added.
LEMMA PassedStays ==
  ASSUME PassedOnPatterns, patterns \subseteq patterns', passed' = passed
  PROVE  PassedOnPatterns'
<1> SUFFICES ASSUME passed
             PROVE  10 * Cardinality(Matches') >= 9 * Len(EvalJobs)
  BY DEF PassedOnPatterns, Matches
<1>1. 10 * Cardinality(Matches) >= 9 * Len(EvalJobs)
  BY DEF PassedOnPatterns, Matches
<1>2. Matches \subseteq Matches'
  BY DEF Matches, SuspiciousMatch
<1>3. Cardinality(Matches) <= Cardinality(Matches')
  BY <1>2, MatchesFinite, FS_Subset
<1>4. Len(EvalJobs) \in Nat
  BY DetectionConstantsOK
<1> DEFINE n == Cardinality(Matches)
<1> DEFINE m == Cardinality(Matches')
<1>5. n \in Nat /\ m \in Nat /\ n <= m /\ 10 * n >= 9 * Len(EvalJobs)
  BY <1>1, <1>3, MatchesFinite
<1> HIDE DEF n, m
<1>6. 10 * m >= 9 * Len(EvalJobs)
  BY <1>4, <1>5
<1> QED
  BY <1>6 DEF m

LEMMA EvalKeeps ==
  ASSUME DriftInv, EvalNext
  PROVE  DriftInv'
<1>u. UNCHANGED <<refreshVars, faults, cache, work, sent, verdicts>>
  BY DEF EvalNext
<1>v. UNCHANGED <<clean, patterns, refresh, todo, rebuilt, rebuildErrors, inject,
                  injectErrors, health, reached, builds>>
  BY <1>u DEF refreshVars
<1>1. TypeOK'
  <2>1. RefreshTypeOK'
    BY <1>u, <1>v DEF DriftInv, TypeOK, RefreshTypeOK
  <2>2. turn' \in 1 .. Len(EvalJobs) + 1
    BY DetectionConstantsOK DEF EvalNext
  <2>3. passed' \in BOOLEAN
    BY DEF EvalNext
  <2> QED
    BY <1>u, <2>1, <2>2, <2>3 DEF DriftInv, TypeOK
<1>2. ProfilesStayApart' /\ CustomersOnly' /\ WorkOK' /\ FirstDelivered' /\ VerdictLast'
      /\ OneEventPerDelivery'
  BY <1>u, <1>v DEF DriftInv, ProfilesStayApart, CustomersOnly, WorkOK, VectorOK, FlagOK,
                    SuspiciousMatch, FirstDelivered, VerdictLast, OneEventPerDelivery, Delivered
<1>3. PassedOnPatterns'
  <2> SUFFICES ASSUME passed'
               PROVE  10 * Cardinality(Matches) >= 9 * Len(EvalJobs)
    BY <1>v DEF PassedOnPatterns, Matches, SuspiciousMatch
  <2>1. 10 * Cardinality(Hits) >= 9 * Len(EvalJobs)
    BY DEF EvalNext, Recall90
  <2>2. Hits \subseteq Matches
    <3> SUFFICES ASSUME NEW i \in Hits PROVE SuspiciousMatch(EvalJobs[i]) /\ i \in DOMAIN EvalJobs
      BY DEF Matches
    <3>1. i \in DOMAIN EvalJobs /\ work[<<EvalJobs[i], 0>>].flagged
      BY DEF Hits
    <3>2. EvalJobs[i] \in Jobs
      BY <3>1, DetectionConstantsOK
    <3>3. <<EvalJobs[i], 0>> \in Deliveries
      BY <3>2, DetectionConstantsOK DEF Deliveries
    <3>4. FlagOK(EvalJobs[i], work[<<EvalJobs[i], 0>>])
      BY <3>3 DEF DriftInv, WorkOK
    <3> QED
      BY <3>1, <3>4 DEF FlagOK, Evaluated
  <2>3. Cardinality(Hits) <= Cardinality(Matches) /\ Cardinality(Hits) \in Nat
    BY <2>2, MatchesFinite, FS_Subset, FS_CardinalityType
  <2>4. Len(EvalJobs) \in Nat
    BY DetectionConstantsOK
  <2> DEFINE n == Cardinality(Hits)
  <2> DEFINE m == Cardinality(Matches)
  <2>5. n \in Nat /\ m \in Nat /\ n <= m /\ 10 * n >= 9 * Len(EvalJobs)
    BY <2>1, <2>3, MatchesFinite
  <2> HIDE DEF n, m
  <2>6. 10 * m >= 9 * Len(EvalJobs)
    BY <2>4, <2>5
  <2> QED
    BY <2>6 DEF m
<1> QED
  BY <1>1, <1>2, <1>3 DEF DriftInv

LEMMA ExpiryKeeps ==
  ASSUME DriftInv, CacheExpires
  PROVE  DriftInv'
<1>u. UNCHANGED <<refreshVars, faults, work, sent, verdicts, turn, passed>>
  BY DEF CacheExpires
<1>v. UNCHANGED <<clean, patterns, refresh, todo, rebuilt, rebuildErrors, inject,
                  injectErrors, health, reached, builds>>
  BY <1>u DEF refreshVars
<1>1. PICK k \in Keys : cache' = [cache EXCEPT ![k] = None]
  BY DEF CacheExpires
<1>2. /\ cache' \in [Keys -> Vectors \cup {None}]
      /\ \A i \in Keys : cache'[i] # None => cache'[i] = cache[i]
  BY <1>1 DEF DriftInv, TypeOK
<1>3. TypeOK'
  <2>1. RefreshTypeOK'
    BY <1>u, <1>v DEF DriftInv, TypeOK, RefreshTypeOK
  <2> QED
    BY <2>1, <1>u, <1>2 DEF DriftInv, TypeOK
<1>4. ProfilesStayApart' /\ CustomersOnly'
  BY <1>u, <1>v, <1>2 DEF DriftInv, ProfilesStayApart, CustomersOnly
<1>5. WorkOK' /\ FirstDelivered' /\ VerdictLast' /\ OneEventPerDelivery' /\ PassedOnPatterns'
  BY <1>u, <1>v DEF DriftInv, WorkOK, VectorOK, FlagOK, SuspiciousMatch, FirstDelivered,
                    VerdictLast, OneEventPerDelivery, Delivered, PassedOnPatterns
<1> QED
  BY <1>3, <1>4, <1>5 DEF DriftInv

\* A step that leaves the detections alone and writes profiles of customers, or patterns.
LEMMA RefreshStep ==
  ASSUME DriftInv, RefreshTypeOK', UNCHANGED detectVars, patterns \subseteq patterns',
         \A k \in Keys : clean'[k] # None => clean'[k].for = k /\ k[2][1] \in Customers
  PROVE  DriftInv'
<1>u. UNCHANGED <<cache, work, sent, verdicts, turn, passed>>
  BY DEF detectVars
<1>1. TypeOK'
  BY <1>u DEF DriftInv, TypeOK
<1>2. ProfilesStayApart' /\ CustomersOnly'
  BY <1>u DEF DriftInv, ProfilesStayApart, CustomersOnly
<1>3. WorkOK'
  <2>1. \A j \in Jobs : SuspiciousMatch(j) => SuspiciousMatch(j)'
    BY DEF SuspiciousMatch
  <2> SUFFICES ASSUME NEW d \in Deliveries
               PROVE  (VectorOK(d[1], work[d]) /\ FlagOK(d[1], work[d]))'
    BY DEF WorkOK
  <2>2. d[1] \in Jobs /\ VectorOK(d[1], work[d]) /\ FlagOK(d[1], work[d])
    BY JobsOfDeliveries DEF DriftInv, WorkOK
  <2> QED
    BY <1>u, <2>1, <2>2 DEF VectorOK, FlagOK
<1>4. FirstDelivered' /\ VerdictLast' /\ OneEventPerDelivery'
  BY <1>u DEF DriftInv, FirstDelivered, VerdictLast, OneEventPerDelivery, Delivered
<1>5. PassedOnPatterns'
  BY <1>u, PassedStays DEF DriftInv
<1> QED
  BY <1>1, <1>2, <1>3, <1>4, <1>5 DEF DriftInv

LEMMA RefreshTypes ==
  ASSUME DriftInv
  PROVE  /\ RefreshTypeOK
         /\ \A k \in Keys : clean[k] # None => clean[k].for = k /\ k[2][1] \in Customers
BY DEF DriftInv, TypeOK, ProfilesStayApart, CustomersOnly

\* An upsert writes a profile under the key it was built for.
LEMMA UpsertsOwn ==
  ASSUME DriftInv, NEW ns \in Namespaces, NEW id, NEW s \in Shapes, Upserts(ns, id, s),
         <<ns, Token(id)>> \in Keys, <<ns, Token(id)>>[2][1] \in Customers
  PROVE  /\ clean' \in [Keys -> Vectors \cup {None}]
         /\ \A k \in Keys : clean'[k] # None => clean'[k].for = k /\ k[2][1] \in Customers
<1> DEFINE key == <<ns, Token(id)>>
<1> DEFINE v == [for |-> key, shape |-> s]
<1>1. clean' = [clean EXCEPT ![key] = v]
  BY DEF Upserts
<1>2. key \in Keys /\ key[2][1] \in Customers
  OBVIOUS
<1> HIDE DEF key
<1>3. v \in Vectors /\ v.for = key
  BY <1>2 DEF Vectors
<1> HIDE DEF v
<1>4. /\ clean \in [Keys -> Vectors \cup {None}]
      /\ \A k \in Keys : clean[k] # None => clean[k].for = k /\ k[2][1] \in Customers
  BY RefreshTypes DEF RefreshTypeOK
<1> QED
  BY <1>1, <1>2, <1>3, <1>4

LEMMA BuildBound ==
  ASSUME builds \in 0 .. MaxBuilds, Build
  PROVE  builds' \in 0 .. MaxBuilds
BY RefreshConstantsOK DEF Build

LEMMA TokenOfToken ==
  ASSUME NEW a \in Accounts, NEW ns \in Namespaces
  PROVE  <<ns, Token(CandidateId(a))>> \in Keys /\ <<ns, Token(CandidateId(a))>>[2][1] = a
<1>1. Token(CandidateId(a)) = <<a, 2>>
  BY DEF CandidateId, Token, Raw
<1> QED
  BY <1>1 DEF Keys, Ids

LEMMA BuildProfileKeeps ==
  ASSUME DriftInv, BuildProfile, UNCHANGED detectVars
  PROVE  DriftInv'
<1>1. PICK ns \in Namespaces, a \in Customers, s \in Shapes : Upserts(ns, Raw(a), s)
  BY DEF BuildProfile
<1>2. a \in Accounts
  BY RefreshConstantsOK
<1>3. /\ clean' \in [Keys -> Vectors \cup {None}]
      /\ \A k \in Keys : clean'[k] # None => clean'[k].for = k /\ k[2][1] \in Customers
  <2>1. <<ns, Token(Raw(a))>> \in Keys /\ <<ns, Token(Raw(a))>>[2][1] = a
    BY <1>2, TokenId
  <2> QED
    BY <1>1, <2>1, UpsertsOwn
<1>4. builds' \in 0 .. MaxBuilds
  BY BuildBound, RefreshTypes DEF BuildProfile, RefreshTypeOK
<1>5. RefreshTypeOK' /\ patterns' = patterns
  BY <1>3, <1>4, RefreshTypes DEF BuildProfile, RefreshTypeOK, rebuildVars, injectVars
<1> QED
  BY <1>3, <1>5, RefreshStep

LEMMA RebuildProfileKeeps ==
  ASSUME DriftInv, NEW a \in Candidates, RebuildProfile(a), UNCHANGED detectVars
  PROVE  DriftInv'
<1>1. a \in Accounts /\ a \in Customers /\ "default" \in Namespaces /\ StubHistory \in Shapes
  BY RefreshConstantsOK DEF Namespaces
<1>2. clean' = clean \/ Upserts("default", CandidateId(a), StubHistory)
  BY DEF RebuildProfile
<1>3. /\ clean' \in [Keys -> Vectors \cup {None}]
      /\ \A k \in Keys : clean'[k] # None => clean'[k].for = k /\ k[2][1] \in Customers
  <2>1. CASE clean' = clean
    BY <2>1, RefreshTypes DEF RefreshTypeOK
  <2>2. CASE Upserts("default", CandidateId(a), StubHistory)
    <3>1. <<"default", Token(CandidateId(a))>> \in Keys
          /\ <<"default", Token(CandidateId(a))>>[2][1] = a
      BY <1>1, TokenOfToken
    <3> QED
      BY <1>1, <2>2, <3>1, UpsertsOwn
  <2> QED
    BY <1>2, <2>1, <2>2
<1>4. faults' \in 0 .. MaxFaults
  BY FaultBound, RefreshTypes DEF RebuildProfile, RefreshTypeOK
<1>5. /\ todo' \subseteq Candidates /\ rebuilt' \subseteq Candidates /\ reached' \subseteq Candidates
      /\ rebuildErrors' \in BOOLEAN
  BY RefreshTypes DEF RebuildProfile, RefreshTypeOK
<1>6. UNCHANGED <<patterns, refresh, inject, injectErrors, health, builds>>
  BY DEF RebuildProfile, injectVars
<1>7. RefreshTypeOK'
  BY <1>3, <1>4, <1>5, <1>6, RefreshTypes DEF RefreshTypeOK
<1> QED
  BY <1>3, <1>6, <1>7, RefreshStep

\* The actions of the DAG that leave clean-profiles alone.
LEMMA DagKeeps ==
  ASSUME DriftInv, StartRefresh \/ FinishRebuild \/ RebuildDies \/ ReportProfileHealth,
         UNCHANGED detectVars
  PROVE  DriftInv'
<1>1. UNCHANGED <<clean, patterns>>
  BY DEF StartRefresh, FinishRebuild, RebuildDies, ReportProfileHealth, indexVars
<1>2. /\ todo' \subseteq Candidates /\ rebuilt' \subseteq Candidates /\ reached' \subseteq Candidates
      /\ rebuildErrors' \in BOOLEAN /\ injectErrors' \in BOOLEAN
  BY RefreshTypes DEF StartRefresh, FinishRebuild, RebuildDies, ReportProfileHealth,
                      RefreshTypeOK, injectVars
<1>3. /\ refresh' \in {"idle", "rebuilding", "done"} /\ inject' \in {"idle", "injecting", "done"}
      /\ health' \in {"none", "healthy", "degraded"}
  BY RefreshTypes DEF StartRefresh, FinishRebuild, RebuildDies, ReportProfileHealth,
                      RefreshTypeOK, injectVars
<1>4. builds' \in 0 .. MaxBuilds
  BY BuildBound, RefreshTypes DEF StartRefresh, FinishRebuild, RebuildDies, ReportProfileHealth,
                                  RefreshTypeOK
<1>5. faults' \in 0 .. MaxFaults
  BY FaultBound, RefreshTypes DEF StartRefresh, FinishRebuild, RebuildDies, ReportProfileHealth,
                                  RefreshTypeOK
<1>6. RefreshTypeOK'
  BY <1>1, <1>2, <1>3, <1>4, <1>5, RefreshTypes DEF RefreshTypeOK
<1> QED
  BY <1>1, <1>6, RefreshTypes, RefreshStep

LEMMA InjectKeeps ==
  ASSUME DriftInv, InjectProfiles, UNCHANGED detectVars
  PROVE  DriftInv'
<1>1. PICK new \in SUBSET StubPatterns : patterns' = patterns \cup new
  BY DEF InjectProfiles
<1>2. patterns' \subseteq Shapes /\ patterns \subseteq patterns'
  BY <1>1, RefreshTypes, RefreshConstantsOK DEF RefreshTypeOK
<1>3. inject' \in {"idle", "injecting", "done"} /\ injectErrors' \in BOOLEAN
  BY RefreshTypes DEF InjectProfiles, RefreshTypeOK, injectVars
<1>4. faults' \in 0 .. MaxFaults
  BY FaultBound, RefreshTypes DEF InjectProfiles, RefreshTypeOK
<1>5. UNCHANGED <<clean, refresh, todo, rebuilt, rebuildErrors, reached, health, builds>>
  BY DEF InjectProfiles, rebuildVars
<1>6. RefreshTypeOK'
  BY <1>2, <1>3, <1>4, <1>5, RefreshTypes DEF RefreshTypeOK
<1> QED
  BY <1>2, <1>5, <1>6, RefreshTypes, RefreshStep

LEMMA DriftInvStep == DriftInv /\ [Next]_vars => DriftInv'
<1> SUFFICES ASSUME DriftInv, [Next]_vars PROVE DriftInv'
  OBVIOUS
<1>1. ASSUME RefreshNext, UNCHANGED detectVars PROVE DriftInv'
  BY <1>1, BuildProfileKeeps, RebuildProfileKeeps, DagKeeps, InjectKeeps DEF RefreshNext, DagWorks
<1>2. ASSUME NEW d \in Deliveries, Steps(d) \/ WorkerDies(d) PROVE DriftInv'
  BY <1>2, EmbedKeeps, LookUpKeeps, FetchKeeps, FillKeeps, JudgeKeeps, PublishKeeps,
     WorkerDiesKeeps DEF Steps
<1>3. CASE CacheExpires
  BY <1>3, ExpiryKeeps
<1>4. CASE EvalNext
  BY <1>4, EvalKeeps
<1>5. CASE UNCHANGED vars
  <2>1. UNCHANGED detectVars
    BY <1>5 DEF vars, detectVars
  <2>2. UNCHANGED <<clean, patterns>> /\ RefreshTypeOK'
    BY <1>5, RefreshTypes DEF vars, RefreshTypeOK
  <2> QED
    BY <2>1, <2>2, RefreshTypes, RefreshStep
<1> QED
  BY <1>1, <1>2, <1>3, <1>4, <1>5 DEF Next

----------------------------------------------------------------------------

\* The invariant the theorems below rest on: besides what they state, only customers have
\* profiles, a job of the evaluation is flagged for a pattern alone, and a job delivered
\* once has its event in the topic only when it is done with.
THEOREM DriftInvariant == Spec => []DriftInv
BY DriftInvInit, DriftInvStep, PTL DEF Spec

\* Indexes, cache, deliveries and counters keep their types.
THEOREM DriftTypes == Spec => []TypeOK
<1>1. DriftInv => TypeOK
  BY DEF DriftInv
<1> QED
  BY <1>1, DriftInvariant, PTL

\* DriftDetector never compares a transaction with a profile built for another account or
\* in another tenant's namespace, be it read from the index or from the Redis cache.
THEOREM TenantsStayApart == Spec => []ProfilesStayApart
<1>1. DriftInv => ProfilesStayApart
  BY DEF DriftInv
<1> QED
  BY <1>1, DriftInvariant, PTL

\* The events about a transaction are at most its finished deliveries, whatever workers
\* die and whatever the broker delivers again.
THEOREM EventsMatchDeliveries == Spec => []OneEventPerDelivery
<1>1. DriftInv => OneEventPerDelivery
  BY DEF DriftInv
<1> QED
  BY <1>1, DriftInvariant, PTL

\* run_scenario_detection_eval reports hard_rule_6_passed only if nine in ten of its jobs
\* match an injected profile: personal drift never helps an eval account.
THEOREM EvaluationNeedsPatterns == Spec => []PassedOnPatterns
<1>1. DriftInv => PassedOnPatterns
  BY DEF DriftInv
<1> QED
  BY <1>1, DriftInvariant, PTL
================================================================================

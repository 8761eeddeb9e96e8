---------------------------- MODULE DriftDetection ----------------------------
(***************************************************************************)
(* Drift detection on the profiles of ProfileRefresh: the detector with    *)
(* its Redis cache of clean vectors, run by a Celery chain of three tasks  *)
(* per transaction, by the synchronous evaluation of a red-team scenario,  *)
(* or as a library call.  The chain's tasks are acknowledged late: one     *)
(* whose worker dies, even after it has sent its successor, runs again.    *)
(***************************************************************************)
EXTENDS ProfileRefresh, Sequences, FiniteSets

CONSTANTS
  Jobs,          \* transactions to evaluate
  Mode,          \* "chain", "eval" or "call", a function
  Account,       \* the account a job is about, a function
  Tenant,        \* the tenant a call names, a function
  Behaviour,     \* the shape of the transaction's embedding, a function
  EvalJobs,      \* the jobs of the evaluation, a sequence
  Similarity,    \* cosine of two shapes, in hundredths, a function
  Threshold,     \* drift threshold of a job's segment, a function
  Suspicion,     \* threshold of a match with suspicious-profiles
  Copies,        \* deliveries of a job, numbered from 0
  MaxRetries     \* max_retries of embed_transaction and detect_drift

ASSUME DetectionConstantsOK ==
  /\ Mode \in [Jobs -> {"chain", "eval", "call"}]
  /\ Account \in [Jobs -> Accounts]
  /\ Tenant \in [Jobs -> Namespaces]
  /\ Behaviour \in [Jobs -> Shapes]
  /\ Similarity \in [Shapes \X Shapes -> Int]
  /\ Threshold \in [Jobs -> Nat]
  /\ Suspicion \in Nat
  /\ IsFiniteSet(Copies) /\ Copies \subseteq Nat /\ 0 \in Copies
  /\ MaxRetries \in Nat
  /\ EvalJobs \in Seq(Jobs)
  /\ \A i \in DOMAIN EvalJobs :
       /\ Mode[EvalJobs[i]] = "eval"
       /\ Account[EvalJobs[i]] \notin Customers   \* eval_<scenario>_account_<i>

VARIABLES
  cache,     \* drift_profile:... keys in Redis
  work,      \* where each delivery of a job is
  sent,      \* how many events about a job reached detection_results
  verdicts,  \* what they say: flagged or not
  turn,      \* the evaluation's next job
  passed     \* hard_rule_6_passed of the finished evaluation

detectVars == <<cache, work, sent, verdicts, turn, passed>>
vars == <<clean, patterns, refresh, todo, rebuilt, rebuildErrors, inject, injectErrors, health,
          reached, builds, faults, cache, work, sent, verdicts, turn, passed>>

Ats == {"unused", "embed", "lookup", "fetch", "fill", "judge", "publish", "done", "failed", "lost"}

Work == [at : Ats, tries : 0 .. MaxRetries, vector : Vectors \cup {None}, flagged : BOOLEAN]

TypeOK ==
  /\ RefreshTypeOK
  /\ cache \in [Keys -> Vectors \cup {None}]
  /\ work \in [Jobs \X Copies -> Work]
  /\ sent \in [Jobs -> Nat]
  /\ verdicts \in [Jobs -> SUBSET BOOLEAN]
  /\ turn \in 1 .. Len(EvalJobs) + 1
  /\ passed \in BOOLEAN

Fresh(at) == [at |-> at, tries |-> 0, vector |-> None, flagged |-> FALSE]

FirstStep(j) == IF Mode[j] = "call" THEN "lookup" ELSE "embed"

Init ==
  /\ RefreshInit
  /\ cache = [k \in Keys |-> None]
  /\ work = [d \in Jobs \X Copies |->
               Fresh(IF d[2] = 0 THEN FirstStep(d[1]) ELSE "unused")]
  /\ sent = [j \in Jobs |-> 0]
  /\ verdicts = [j \in Jobs |-> {}]
  /\ turn = 1
  /\ passed = FALSE

----------------------------------------------------------------------------
(* Running a step of a delivery d = <<job, copy>>.                          *)

\* The evaluation takes its jobs one after the other.
May(d) ==
  Mode[d[1]] = "eval" => turn \in DOMAIN EvalJobs /\ EvalJobs[turn] = d[1]

At(d, at) == work[d].at = at /\ May(d)

\* detect_drift names no tenant, so the chain and the evaluation use the default one.
NamespaceOf(j) == IF Mode[j] = "call" THEN Tenant[j] ELSE "default"

ProfileKey(j) == <<NamespaceOf(j), Token(Raw(Account[j]))>>

\* Mutant: the cache key leaves the namespace out.
CacheKey_TokenOnly(j) == <<"default", Token(Raw(Account[j]))>>

CacheKey(j) == ProfileKey(j)

Goes(d, rec) == work' = [work EXCEPT ![d] = rec]

TaskOf(at) == CASE at = "embed" -> "embed"
                [] at \in {"lookup", "fetch", "fill", "judge"} -> "lookup"
                [] at = "publish" -> "publish"

\* A task of the chain ends and its successor is sent.  Only then is it acknowledged:
\* the broker delivers it a second time if the worker dies in between.
MovesOn(d, rec) ==
  \/ Goes(d, rec) /\ UNCHANGED faults
  \/ /\ Mode[d[1]] = "chain"
     /\ \E c \in Copies :
          /\ work[<<d[1], c>>].at = "unused"
          /\ work' = [work EXCEPT ![d] = rec,
                                  ![<<d[1], c>>] = [work[d] EXCEPT !.at = TaskOf(@), !.vector = None]]
     /\ Fault

\* Mutant: the exception is not handed to retry().
MayRetry_Never(d) == FALSE

\* Mutant: the limit is compared off by one.
MayRetry_OneMore(d) == work[d].tries <= MaxRetries

MayRetry(d) == work[d].tries < MaxRetries

\* retry() of a task run by Celery; called directly, it raises the exception itself.
Raises(d) ==
  /\ IF Mode[d[1]] = "chain" /\ MayRetry(d)
     THEN Goes(d, [work[d] EXCEPT !.at = TaskOf(@), !.tries = @ + 1, !.vector = None])
     ELSE Goes(d, [work[d] EXCEPT !.at = "failed", !.vector = None])
  /\ Fault

EmbedTransaction(d) ==
  /\ At(d, "embed")
  /\ \/ MovesOn(d, Fresh("lookup"))
     \/ Raises(d)
  /\ UNCHANGED <<refreshVars, cache, sent, verdicts, turn, passed>>

\* An unreachable Redis is a miss.
LookUpCache(d) ==
  LET cached == cache[CacheKey(d[1])]
  IN
  /\ At(d, "lookup")
  /\ \/ /\ cached # None
        /\ Goes(d, [work[d] EXCEPT !.at = "judge", !.vector = cached])
        /\ UNCHANGED faults
     \/ cached = None /\ Goes(d, [work[d] EXCEPT !.at = "fetch"]) /\ UNCHANGED faults
     \/ cached # None /\ Goes(d, [work[d] EXCEPT !.at = "fetch"]) /\ Fault
  /\ UNCHANGED <<refreshVars, cache, sent, verdicts, turn, passed>>

\* An unreachable Pinecone is a missing profile.
FetchProfile(d) ==
  LET found == clean[ProfileKey(d[1])]
  IN
  /\ At(d, "fetch")
  /\ \/ /\ found # None
        /\ Goes(d, [work[d] EXCEPT !.at = "fill", !.vector = found])
        /\ UNCHANGED faults
     \/ found = None /\ Goes(d, [work[d] EXCEPT !.at = "judge"]) /\ UNCHANGED faults
     \/ found # None /\ Goes(d, [work[d] EXCEPT !.at = "judge"]) /\ Fault
  /\ UNCHANGED <<refreshVars, cache, sent, verdicts, turn, passed>>

FillCache(d) ==
  /\ At(d, "fill")
  /\ \/ cache' = [cache EXCEPT ![CacheKey(d[1])] = work[d].vector] /\ UNCHANGED faults
     \/ UNCHANGED cache /\ Fault
  /\ Goes(d, [work[d] EXCEPT !.at = "judge"])
  /\ UNCHANGED <<refreshVars, sent, verdicts, turn, passed>>

\* 0 stands for no profile as well, and a score of 0 or less for none.
Score(j, vector) == IF vector = None THEN 0 ELSE Similarity[Behaviour[j], vector.shape]

PersonalDrift(j, vector) ==
  LET score == Score(j, vector) IN score > 0 /\ score < Threshold[j]

\* Nothing is ever written to a tenant's namespace of suspicious-profiles.
SuspiciousMatch(j) ==
  /\ NamespaceOf(j) = "default"
  /\ \E p \in patterns : Similarity[Behaviour[j], p] >= Suspicion

\* The queries to both indexes; either may raise.
Judge(d) ==
  LET j == d[1]
      flagged == PersonalDrift(j, work[d].vector) \/ SuspiciousMatch(j)
      next == IF Mode[j] = "call" THEN "done" ELSE "publish"
  IN
  /\ At(d, "judge")
  /\ \/ MovesOn(d, [at |-> next, tries |-> 0, vector |-> None, flagged |-> flagged])
     \/ Raises(d)
  /\ UNCHANGED <<refreshVars, cache, sent, verdicts, turn, passed>>

\* Mutant: what goes wrong after produce() is raised, and publish_detection_result retries.
PublishResult_Raises(d) ==
  LET j == d[1]
  IN
  /\ At(d, "publish")
  /\ sent' = [sent EXCEPT ![j] = @ + 1]
  /\ verdicts' = [verdicts EXCEPT ![j] = @ \cup {work[d].flagged}]
  /\ \/ MovesOn(d, [work[d] EXCEPT !.at = "done"])
     \/ UNCHANGED work /\ Fault
  /\ UNCHANGED <<refreshVars, cache, turn, passed>>

\* _publish_detection_result swallows every exception and does not ask whether the
\* event was delivered: the task succeeds whatever became of it.
PublishResult(d) ==
  LET j == d[1]
  IN
  /\ At(d, "publish")
  /\ \/ /\ sent' = [sent EXCEPT ![j] = @ + 1]
        /\ verdicts' = [verdicts EXCEPT ![j] = @ \cup {work[d].flagged}]
        /\ MovesOn(d, [work[d] EXCEPT !.at = "done"])
     \/ /\ UNCHANGED <<sent, verdicts>>
        /\ Goes(d, [work[d] EXCEPT !.at = "done"])
        /\ Fault
  /\ UNCHANGED <<refreshVars, cache, turn, passed>>

\* The worker dies within a task: it is delivered again, from its beginning.  If only
\* the process that ran it dies, Celery acknowledges the task and marks it failed.
WorkerDies(d) ==
  /\ Mode[d[1]] = "chain"
  /\ work[d].at \in {"embed", "lookup", "fetch", "fill", "judge", "publish"}
  /\ \E at \in {TaskOf(work[d].at), "lost"} : Goes(d, [work[d] EXCEPT !.at = at, !.vector = None])
  /\ Fault
  /\ UNCHANGED <<refreshVars, cache, sent, verdicts, turn, passed>>

CacheExpires ==
  /\ \E k \in Keys : cache[k] # None /\ cache' = [cache EXCEPT ![k] = None]
  /\ UNCHANGED <<refreshVars, faults, work, sent, verdicts, turn, passed>>

----------------------------------------------------------------------------
(* run_scenario_detection_eval.                                             *)

Ended(d) == work[d].at \in {"done", "failed"}

\* A job that raised counts as not flagged.
Hits == {i \in DOMAIN EvalJobs :
           work[<<EvalJobs[i], 0>>].at = "done" /\ work[<<EvalJobs[i], 0>>].flagged}

\* Mutant: the recall is taken over the jobs that did not raise.
Recall90_OfAnswered ==
  LET answered == {i \in DOMAIN EvalJobs : work[<<EvalJobs[i], 0>>].at = "done"}
  IN 10 * Cardinality(Hits) >= 9 * Cardinality(answered)

Recall90 ==
  /\ EvalJobs # <<>>
  /\ 10 * Cardinality(Hits) >= 9 * Len(EvalJobs)

EvalNext ==
  /\ turn \in DOMAIN EvalJobs
  /\ Ended(<<EvalJobs[turn], 0>>)
  /\ turn' = turn + 1
  /\ passed' = (turn + 1 \notin DOMAIN EvalJobs /\ Recall90)
  /\ UNCHANGED <<refreshVars, faults, cache, work, sent, verdicts>>

----------------------------------------------------------------------------

Deliveries == Jobs \X Copies

Steps(d) ==
  \/ EmbedTransaction(d) \/ LookUpCache(d) \/ FetchProfile(d) \/ FillCache(d)
  \/ Judge(d) \/ PublishResult(d)

Next ==
  \/ RefreshNext /\ UNCHANGED detectVars
  \/ \E d \in Deliveries : Steps(d) \/ WorkerDies(d)
  \/ CacheExpires
  \/ EvalNext

Spec == Init /\ [][Next]_vars

Chained == {d \in Deliveries : Mode[d[1]] = "chain"}

\* A Celery worker is running; what it takes on next is its own choice.
Fairness == WF_vars(\E d \in Chained : Steps(d))

FairSpec == Spec /\ Fairness

----------------------------------------------------------------------------
(* Properties.                                                              *)

\* Whatever a detection compares with was built for the job's account in the namespace
\* it looks in: neither the index, nor the cache, nor a vector in flight mixes tenants.
ProfilesStayApart ==
  /\ \A k \in Keys : clean[k] # None => clean[k].for = k
  /\ \A k \in Keys : cache[k] # None => cache[k].for = k
  /\ \A d \in Deliveries : work[d].vector # None => work[d].vector.for = ProfileKey(d[1])

\* A transaction has at most one event per delivery of its job, and two that disagree
\* only if a task was delivered again; a job that has events was judged.
Delivered(j) == {c \in Copies : work[<<j, c>>].at # "unused"}

OneEventPerDelivery ==
  \A j \in Jobs :
    /\ sent[j] <= Cardinality({c \in Delivered(j) : work[<<j, c>>].at = "done"})
    /\ Delivered(j) = {0} /\ verdicts[j] # {} => verdicts[j] = {work[<<j, 0>>].flagged}

\* An evaluation passes only on what suspicious-profiles holds: at least nine jobs in ten
\* behave like a pattern, for none of them is about an account with a profile.
PassedOnPatterns ==
  passed =>
    10 * Cardinality({i \in DOMAIN EvalJobs : SuspiciousMatch(EvalJobs[i])})
      >= 9 * Len(EvalJobs)

\* Every delivery of a chain ends: the verdict was handed over, a task used up its
\* retries, or its process was lost; a repeated failure never stops it earlier.
ChainsEnd ==
  \A d \in Chained :
    work[d].at # "unused"
      ~> \/ work[d].at \in {"done", "lost"}
         \/ work[d].at = "failed" /\ work[d].tries = MaxRetries
=============================================================================

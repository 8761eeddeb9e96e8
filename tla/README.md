# Fraud Immunity Lab: specifications, model checks and proofs

This directory models the Fraud Immunity Lab (`src/`) in TLA+.  The lab attacks
its own fraud detection: an Airflow DAG has an LLM agent write a fraud scenario,
injects synthetic events for it into Kafka, and measures whether the detection
layer finds them.  An API serves the resulting Immunity Score.  The modules are
translated from the source code.  Where a doc or a comment says something else
than the code does, the code is modelled and the disagreement is a run that
violates the documented property (see *Disagreements*).

## 1. Inventory

| Component | State it keeps | Operations | What is hard |
|---|---|---|---|
| Attack orchestrator DAG (`red_team/dags/attack_orchestrator.py`, `shared/dag_utils.py`) | task states, tries, XComs (Airflow); Variable `RED_TEAM_ENABLED` | seven tasks, kill-switch checks, retries | every attempt is a process that may die; the switch flips between tasks; retries repeat side effects |
| Attacker agents (`red_team/agents/`) | uuid, attempts, cost of one call | `generate_scenario`, `generate_batch` | up to three attempts, each to be audited; switch read from the environment |
| Validation (`validators.py`) | none | schema, PII scan, redaction | redaction may rewrite the scenario id |
| Audit producer (`audit.py`) | a librdkafka queue | `append`, `flush` | the queue dies with the process |
| Injector, synthetic producer | a librdkafka queue, counters | `inject_scenario`, `produce_*` | counts what was never sent; no flush |
| Ingestion consumers (`ingestion/consumers/`) | group offset, dead-letter topic | `run`, `process`, `_send_to_dlq` | crash between process and commit, rebalance in the midst of an event, commit refused |
| Graph ingestion (`ml/graph/graph_ingestion.py`) | group offsets of two topics, the Neo4j graph | `run`, `write_transaction`, `write_login` | commit covers both topics; failed writes; uniqueness across tenants |
| Batch backfill loader (same file) | a driver | `load_segment`, `load_all_segments` | threads, lazy driver |
| Immunity score (`api/services/score_calculator.py`) | Redis keys with TTLs, cached score, history table | `get_score`, `invalidate_cache`, `record_scenario_run` | computed from many reads, cached by one process while another invalidates |
| Admin seed and reset (`api/routers/admin.py`) | the same keys | `seed`, `reset` | key by key, partial failure |
| Tenant provisioning (`api/services/tenant_provisioner.py`) | PostgreSQL row, Redis flag | `POST` and `DELETE /tenants` | five steps, no rollback; repeated for existing and deleted tenants |
| Onboarding DAG (`red_team/dags/onboarding_dag.py`) | XComs, the graph of all tenants, profiles, score | six tasks, two retries | repeated writes, runs side by side, the tenant checked once |
| Community detection and its DAG | one named GDS projection, rings, alerts | project, run, persist, drop, publish | a failed detection leaves its projection to the next; swallowed failures; two publishers of one alert |
| Profiles and refresh DAG (`ml/embeddings/`, `profile_refresh_dag.py`) | two Pinecone indexes | build, refresh, inject | ids tokenized twice; tasks side by side |
| Detection pipeline (`ml/anomaly/`) | five-minute profile cache, `detection_results` | embed, detect, publish, evaluate | late acknowledgement, swallowed errors, namespaces |
| Scenario generator (`scenario_generator.py`, `scenarios/schema.py`) | scenario files | audit, generate, write, report | budget per attempt; a file that does not load; names made of the attempt's date and a part of the id |
| Coverage and retraining DAGs | a gap list no code reads back | read, log | none for a model |
| Rate limiter (`api/middleware/rate_limit.py`) | a Redis sorted set per client and bucket | `dispatch` | added before counted, removed by a separate command |
| Cost tracker | cost rows | `log_cost` (no caller) | none |
| Reports, API shell, schemas, dashboard, infrastructure | nothing that outlives a request | rendering, reads | none for a model |

**How they interact.**  The orchestrator's tasks call the agent, the injector and
the audit producer, each in the process of the task attempt.  Injected events go
to the topics `transactions`, `logins` and `devices`, read by the ingestion
consumers and by the graph consumer.  Detection writes recalls to Redis, from
which the score is computed.  The API is a single uvicorn process whose handlers
block its event loop, so it runs one request at a time.  Airflow tasks are
processes of their own, so between two Redis commands of one process another
process may run.

**What makes each component correct** is what its module's properties say
(section 4); the `hazards` of `PROJECT.json` say at which line what can go wrong.

## 2. Plan

Done, in this order: the attack cycle with its abstract ledger and its Kafka
delivery; the score cache; the ingestion consumers; the graph consumer; community
detection; tenants and their onboarding; profiles and drift detection; the rate
limiter; the scenario library with the agents' budget; the abstract log both
consumers implement.  Every component has a proved inductive invariant, and every
safety and action property a passing run checks is a theorem.

Left: larger compositions (onboarding with the indexes it fills, detection with the
recalls the score is computed from), and the descent that `RunsRunDown` proves for the
scenario library, for onboarding and for the Celery chains.

## 3. Modules and their correspondence to the code

| Module | Models |
|---|---|
| `AttackOrchestrator` | the DAG, its tasks, the agent, the injector and the audit log |
| `AttackOrchestratorInv`, `AttackOrchestratorProofs` | its inductive invariants; its theorems and those of `RedTeamDelivery` |
| `RedTeamLedger` | abstract: approve, publish, close, audit of a scenario |
| `RedTeamDelivery` | `AttackOrchestrator` composed with the queues of both Kafka producers |
| `ScoreCache` | the score of one tenant between API and DAG processes |
| `EventLog` | abstract: answer and commit the events of one topic |
| `TopicConsumer`, `TopicConsumerProofs` | `BaseConsumer.run` in a consumer group; its theorems |
| `GraphIngestion`, `GraphIngestionProofs` | `GraphIngestionConsumer.run`; its theorems |
| `CommunityDetection`, `CommunityDetectionProofs` | `community_detection_dag` and `CommunityDetector.detect`; its theorems |
| `TenantProvisioning` | the tenants API and its five provisioning steps |
| `TenantOnboarding`, `TenantOnboardingProofs` | `onboarding_dag` beside that API; theorems about both |
| `ProfileRefresh` | the two Pinecone indexes and who writes them |
| `DriftDetection`, `DriftDetectionProofs` | the detector, its cache, the Celery chain and the evaluation on those indexes; theorems about both |
| `RateLimit` | the sliding window of `rate_limit.py` |
| `ApiRedisProofs` | theorems about what the API keeps in Redis: `ScoreCache` and `RateLimit` |
| `ScenarioLibrary`, `ScenarioLibraryProofs` | `scenario_generator`, the agents' budget, the directory of files; its theorems |
| `MC...` | constants and initial states for TLC only |

**AttackOrchestrator.**  `Begin`, `Skip`, `Propagate`, `Fails` and `NewRun` are
what Airflow does (`all_success` trigger rule, `retries = 1`, `max_active_runs =
1`); `Wiring` is the TaskFlow calls at the end of the DAG function, `Guarded` the
tasks that begin with the kill-switch check.  Each task body is one action per
step another process could see: `StartGeneration`, `CallModel`, `RecordAttempt`
(repeated up to `MaxAttempts`), `FinishGeneration`; `ProduceEvent` per event, then
`FinishInjection`; `AppendInjectionRecord`, then `FinishAudit`.  A `Fault` may
fall between any two of them.  The switch is read twice over: the gate and the
guarded tasks ask the Variable, and the environment when the metastore is out
(`SwitchOn`); the agent asks the environment alone (`env`, in `StartGeneration`
and `GenerationRaises`).  XComs are per run; the agent's `draft` and the
injector's `sent` are lost with the attempt (`ProcessEnds`).  `SanitizedId` models
`strip_pii`, which can redact part of a uuid; ids compare equal across the attempt
record and the events only by the underlying uuid.  A reply is `accepted`,
`refused` (it passes `validate_and_sanitize`, `ScenarioConfig` raises; the attempt
is recorded with `validation_passed=True`) or `rejected`.

**RedTeamDelivery** adds what `produce()` really does: queue.  `AttemptEnds` drops
the queues, `Lose` is a refused or timed-out delivery.  `AuditProducer.flush` waits
ten seconds and its result is ignored, so it guarantees nothing and needs no action.
What is left of a guarantee: an event reaches its topic while its attempt runs, or
never (`DeliveriesEndWithAttempt`).

**ScoreCache.**  Each Redis command of `get_score` is a step (`Lookup`,
`ReadRecall` per type, `ReadTested`, `Store`, `Persist`); pipelines are one step.
Keys carry the time left and `Tick` expires them.  The two score components read
from keys only seed and reset write are left out.  `epoch`, `asOf` and `racing` are
ghosts that date scores against invalidations; `torn` and `worn` mark computations and a
cached score with figures that a failed read or an unannounced change spoilt.

**TopicConsumer.**  One partition, its group offset and the members.  `Poll`,
`Handle`, `Commit`, `DeadLetter`, `CommitDead` are the statements of the loop;
`Rebalance` takes the partition away in the midst of an event; a dropped member's
commit may be refused or come late.  `EventLog` is what is left when all that is
abstracted: an event, once answered, stays so, and the offset stands only where
everything below it was.  It may move back, so events may be answered again.

**GraphIngestion.**  Two topics and one consumer per tenant.  `CommitsAll` is
`commit()` without a message: both topics as far as read.  `Blocked` is a refusal
by `constraints.cypher`, whose uniqueness is across tenants.  A message is an
event, malformed (`JSONDecodeError`: skipped and committed) or unusable (any other
exception: logged).  Each topic implements `EventLog`; there a write that was seen to fail
answers its event, as the commit past it treats it.

**CommunityDetection.**  A group is a set of accounts that trade with one another;
since `ring_id` is a hash of the members it also names its ring.  What the signals
query can return for a group is a `Profile`; the graph changes under a detection
at any step (`GraphChanges`).  `catalog` is the one GDS projection, lost with Neo4j
(`Neo4jRestarts`) and kept by a failed drop.  `ProjectGraph`, `RunLouvain`,
`SkipCommunity`/`DetectRing`, `PersistRing`, `PublishAlert` and `FinishDetection`
are the statements of `detect()`; `DetectionRaises` is any of its queries refused,
which the task turns into an empty summary; `DetectorDies` an attempt without
return.  `cluster_signals.cypher` matches an IP address and a device without
OPTIONAL, so accounts that never logged in have no row and count as without any
signal (`HasRow`).  Scores are in ten-thousandths, ratios in percent.  Louvain's
own result is abstract: one community per group of the projection, in any order.
The evaluation task has no effect of its own, so its retries are left out.

**TenantProvisioning.**  The handlers do not yield, so the API works on one request
at a time (`client`, `at`).  `Create` goes through `ProvisionPostgres`,
`ProvisionRedis`, `VerifyServices` (steps 3 to 5: they change nothing of the tenant) and
`AnswerCreate`, which reads the row back; a step that fails is noted and the next
runs all the same.  `Delete` goes through `Deactivate` and `RemoveFlag`.  A failed
statement may have taken effect or not; a failed commit can leave `deactivated` TRUE
with the row as it was.  `ApiDies` drops the request anywhere, `FlagExpires` is the
flag's TTL, `Reactivate` the manual update the docs prescribe.

**TenantOnboarding** extends it.  A run of the DAG is a record: tenant, task,
attempts, and for `historical_backfill` the next event and what the attempt has
written or seen fail.  `Attempt` starts a task's attempt afresh; `Dies` ends one
anywhere.  `WriteEvent` is one `write_transaction`: into the graph, into the graph
with an error reported, refused by the constraints (`Refused`), failed, or a dry run.
The graph is who owns a node of an id and how often an event is in it; whether
`constraints.cypher` was ever applied is an initial choice, since no code calls
`apply_constraints`.  Profiles and baseline score are one step here: what they write
is in `ProfileRefresh` (`BuildProfile`) and `ScoreCache` (`StartBaseline`).  Event ids
are distinct: the six random digits of the bootstrap ids are abstracted.

**ProfileRefresh.**  The HMAC is injective and nothing undoes it, so an id is an
account with the number of times it was hashed.  `Upserts` hashes whatever it is
given, as `build_profile` does: onboarding gives it the raw id, the refresh DAG a
token.  The rebuild task goes candidate by candidate (`RebuildProfile`) beside
the injection task (`InjectProfiles`); `ReportProfileHealth` judges both.

**DriftDetection** extends it.  A delivery of a job goes through `EmbedTransaction`,
`LookUpCache`, `FetchProfile`, `FillCache`, `Judge` and `PublishResult`, each a call
to another service.  The tasks of the Celery chain are acknowledged late: `MovesOn`
may send the successor and leave the task itself to be delivered again, as another
copy.  `Raises` is `retry()`, which only Celery repeats.  `EvalNext` is the loop of
`run_scenario_detection_eval`.  Vectors carry whom they were built for, so that a
property can tell a wrong one; similarities are a table in hundredths.

**RateLimit.**  A request is a process: `Receive` reads the clock, `RunPipeline` is
the transaction (remove the old, count, add, expire), `Refuse` the later `zrem`.
The two are separate commands, so other requests come in between.  A failing
Redis lets requests through (`PipelineFails`, `RefuseFails`).

**ScenarioLibrary.**  The four tasks with their attempts.  `CallRaises`,
`AnswerIsInvalid` and `AnswerIsValid` are the calls of `generate_scenario`, with the
budget checked before the first of them only.  What the scenarios are is drawn when
`generate_variants` returns (`FinishGenerate`): an attack type, and whether `strip_pii`
rewrote the first group of the id.  A file is known by its name (`Name`): the date its
attempt read (`ReadDate`, once per attempt; `NextDay` may come at any step), the type
and the first eight characters of the id.  Those of two ids are taken to differ,
except that all rewritten ids begin with the placeholder and share them: two such
variants of a type and a day, of one run or of two, share a file.  Files are absent,
cut off by a dying worker, or whole; whole ones load only if the attack type is one
`ScenarioYamlConfig` accepts, which the validators do not ask.  A retry overwrites what
it names again and leaves everything else of the earlier attempt in place.  When a run
ends its files become numbers (`library`, `broken`), but for those another run may
overwrite.  `load_all_scenarios` raises on the first file that does not load (`Loads`);
`OperatorCleans` removes them.

## 4. Runs

| Run | What it shows |
|---|---|
| `attack_cycle` | `OneScenarioPerRun`, `AuditedInjectionIsComplete`, `SkippedRunIsInert`, `EveryAttemptIsAudited` (trails of model calls without a gap, and who may break one off), `NothingWithoutEnv` (no event and no record where the environment is off, whatever the gate reads); `InjectionIsAudited` (liveness); `LedgerKept` (refinement, with `EventsWereApproved`) |
| `score_cache` | `OnlyRacesReviveScores`, `StaleScoresHaveACause` (why a cached score may disagree with its keys), `TestedOutlivesRecall` (step property) |
| `topic_consumer` | `EveryEventIsHandled` (liveness); `LogKept` (refinement, with `CommittedIsHandled`) |
| `graph_ingestion` | `EventsAreReached` (liveness); `LogsKept` (refinement, per topic, with `OnlyFailuresAreSkipped`) |
| `community_detection` | `OnlyInjectedRingsAreAlerted`, `OnlyLiveRingsFailTheRule`, `TagsAreTrue`, `DetectableIsStored` (liveness) |
| `tenant_onboarding` | `AnswersHold` (what the API last said of a tenant holds), `HistoriesAreApart` (no tenant's events on another's nodes, copies counted), `WelcomeTellsTrue`, `ValidatedIsWelcomed` (liveness) |
| `drift_detection` | `ProfilesStayApart` (no other tenant's vector, cached ones included), `OneEventPerDelivery`, `PassedOnPatterns`, `ChainsEnd` (liveness) |
| `scenario_library` | `SpendBounded` (what a run costs, retries included), `ReportAddsUp` (between which bounds the reported total grows), `RunsRunDown` (step properties), `RunsEnd` (liveness) |
| `rate_limit` | `WindowHolds`, `RefusedLeaveNoTrace` |
| `audit_before_events`, `healthy_means_refreshed`, `refused_for_its_tenant` | documented claims the code does not keep (section 7) |

Each passing run but `rate_limit` checks its module's `TypeOK` as well.  Where a
refinement contains an invariant, the run checks the refinement; that it does
contain it is a theorem (`LedgerMeansApproval`, `LogMeansHandled`, `LogsMeanAnswered`).

**Bounds.**  *attack_cycle*: two runs (a run and its successor: everything that
outlives a run is in XComs, events and records), two events (a partial injection
exists), two attempts per call (a failed one and its repetition), one retry as in
the code, one crash at any step, two uuids of which one is rewritten.  The switch
and the metastore flip without bound.  The code's `_MAX_RETRIES` is three; the
third attempt repeats the second's step.  *score_cache*: one API and one DAG
process (the smallest race), two types, a cache life of two ticks (a racing store can
renew a score before it expires) and a window of three, three calls (about 6.6 million
states), one outage.  *topic_consumer*: two members, three messages, each
valid or malformed in every combination, three faults.  *graph_ingestion*: two
transactions and one login of every form, two entities, two faults, runs with and
without a limit of one.  *community_detection*: one live and one injected group
(whatever happens between groups happens between these two), each quiet, fully
suspicious, at the alert threshold exactly, or without logins; one retry (the
code's second repeats the first's step); days, failures, restarts and changes
without bound.  *audit_before_events* needs one run, one event and one attempt.
*tenant_onboarding* (740 376 states): two tenants whose histories share a merchant,
two events each, two runs, about the same tenant or different ones; one tenant
exists, active or deleted, the other may not; one request, one fault, one retry.
*drift_detection* (365 621 states): a chained job, a library call and an evaluation of
one job about two accounts in two namespaces; two copies of a delivery, one retry,
one profile build or refresh, two faults.  *scenario_library* (1 783 725 states): two
runs (what the first leaves broken the second meets), two agents with two variants,
two calls each; a budget of three with calls that cost up to two, so that an agent
overdraws it before its second variant; two dates (an attempt before midnight and its
retry after) and one dying worker, besides the attempts that raise.  *rate_limit* (234 955
states): four requests on one sorted set with a limit of two, so that two are admitted
and others refused while they are in flight; a window of two in four ticks, so that
members leave it and keys expire; one fault; the three requests of one tenant are
symmetric.  All bounds are constants; the proofs hold for every value of them.

**Deadlock** is not checked where the system really stops: when `MaxRuns` runs
are over or the drawn uuids are used up (attack cycle and delivery), when the
topics have been read to their end (both consumers), when the requests and runs
are over (`tenant_onboarding`, `scenario_library`), when every job is done with
(`drift_detection`) and when the clock is at its bound (`rate_limit`).  ScoreCache's
clock never stops, nor do the days of community detection: there it is checked.

## 5. Fairness

- Attack cycle: weak fairness of the scheduler's steps and of the tasks' steps.
  The Airflow scheduler keeps examining an active run, and an attempt that runs
  either goes on or is found dead, which `Fault` models.  Faults, switch flips and
  new runs have none.
- Topic consumer: weak fairness of each running member's loop, and of the group
  assigning a free partition to some member.  Nothing restarts a member, so
  `EveryEventIsHandled` assumes some member runs again and again.
- Graph consumer: weak fairness of the loop.  `EventsAreReached` assumes that an
  unlimited run is under way again and again.
- Community detection: weak fairness of the scheduler (a run every day) and of the
  reporting tasks, strong fairness of each call of `detect()` succeeding: Neo4j does
  not refuse the same query for ever, nor does the worker die there for ever.  This
  is an assumption on the environment; without it no detection need ever finish.
  Failures may still come at any of the calls, infinitely often.
- Onboarding: weak fairness of each run's task steps, for the same reason as in the
  attack cycle.  Triggers, requests, faults and the switch have none.
- Drift detection: weak fairness of *some* step of *some* chained delivery: a Celery
  worker is running.  Which task it takes next is left open; `ChainsEnd` holds all the
  same because deliveries and their retries are finitely many.  Library calls,
  evaluations, refreshes and expiry have none.
- Scenario library: weak fairness of the running task.  Dying workers, the switch, new
  runs and the operator have none.

## 6. Proofs

All theorems are machine-checked and assume only the named `ASSUME`s on the
constants (`ConstantsOK`, `TopicConstantsOK`, `GraphConstantsOK`, the
`DetectionConstantsOK` of community detection and that of drift detection,
`CacheConstantsOK`, `ProvisioningConstantsOK`, `OnboardingConstantsOK`,
`RefreshConstantsOK`, `RateLimitConstantsOK`, `LibraryConstantsOK`): bounds are
naturals, at least one attempt is made, limits and windows are positive, nobody is
no consumer, requests, runs, copies, attack types and API and DAG processes are
finitely many, and an evaluation's accounts are nobody's customers (the code makes
them up, as `eval_<scenario>_account_<i>`).  TLC evaluates them on each instance.

**Attack cycle.**  None of its safety properties is inductive.  That an event has
an approval depends on the event carrying what the run validated (`EventsOfRun`),
that on the XComs agreeing along the chain (`XComChain`) and existing only after
success (`XComOfSuccess`), that on the agent returning only approved drafts
(`ReturnsAreApproved`) with a uuid of its own (`Drafting`, `UuidsDiffer`).  That a
skipped run is inert needs that a started task's upstreams succeeded and stay so
(`Ordered`, with `TriesLeft` and `NothingBeforeRuns` to see that a task never
starts twice beside a success).  That the audited injection is complete needs the
running count to agree with the events (`Progress`).  `CycleInv` is their
conjunction; `CycleInvariant` proves it, one lemma per part, each by cases on the
actions.  From it follow `TypeCorrect`, `ApprovalPrecedesInjection`,
`RunsInjectOneScenario`, `AuditTrailIsTrue` and `GateHolds`;
`CycleImplementsLedger` shows that every step of the cycle is a step of
`RedTeamLedger` or a stutter under the mapping at the end of `AttackOrchestrator`.

`NothingRunsWithoutEnv` is about the agent's check alone: where it refuses, no uuid is
ever drawn (`NoEnvInv`), so no run has an XCom of a scenario (`NoUuidNoScenario`), and
by `Ordered` no task that would produce or record anything is ever started.

That no attempt is missing from the trail (`EveryAttemptIsAudited`) needs the draft
under way to have exactly the records of its attempts so far (`TrailOfDraft`) and no
record about a call not yet made (`RecordsOfCalls`).  A call without its last or an
approving record then was either just cut off by a fault, or was so before: the
proof counts such calls against faults, which are at most one per cut.

**Delivery.**  `DeliveryInv` extends `CycleInv` to the queues: what is queued was
produced by the injection that is running, and what is on a topic was produced
(`DeliveryInvariant`).  `TopicsHoldApproved` and `NothingTricklesIn` follow.
These two and `LimiterTypeOK` are proved, and in no run.
`AuditTopicPrecedesEvents`, which would need the audit record there too, is false
(section 7).

**Score cache.**  `CacheInv`.  `OnlyRacesReviveScores` is not inductive: a score is
cached by a computation, which must itself be among those overtaken if the epoch moved
under it (`OnlyRacesFallBehind`).  The type of the epoch needs the invalidations still
under way counted with those returned (`EpochsWereCalled`, on cardinalities), the type of
what is covered that each recall is counted once (`CountsWhatItRead`).
`TestedOutlivesRecall` follows from the set's life being at least that of any recall of a
type in it (`TestedIsRenewed`), and from only the API resetting (`OnlyApiResets`).
`StaleScoresAreExplained` has an invariant of its own beside `CacheInv` (`FitInv`): the
figures of each computation, as far as it has read, and of the cached score are what the
keys say (`FiguresFit`, `ScoreFits`), unless an invalidation is to come or has overtaken
them, or they are marked `torn` or `worn`; one lemma per kind of step.

**Consumers.**  `GroupInv` strengthens `CommittedIsHandled` by what each member
holds (`HandsFull`), has read past (`ReadsOn`) and is about to commit
(`CommitsHandled`): a late commit by a member that lost the partition is harmless
because everything below its hand was handled when it read it.  `GraphInv`
does the same for `OnlyFailuresAreSkipped` (`HandIsRead`, `ReadsOn`).  Both contain
their module's `TypeOK`, a theorem of its own, as in all the modules below.  Both
implement `EventLog` (`GroupImplementsLog`, `TopicsImplementLogs`): each step of the
loop maps to an answer, a commit or a stutter, the commit's guard being what the
invariant says of the hand; for the graph consumer per topic, since one of its
commits moves both.

**Community detection.**  `DetectionInv` says that rings under way are truthful
(`RingsTruthful`: the tag and, for live accounts, a score of at most 0.80, by
`ScoreBounds`), that the loop has alerted on every high-risk ring it found but the
one in hand (`LoopAlerts`), and that a summary's rings have been through the loop
and the tasks that are done (`TasksDone`).  That the alert threshold exceeds 0.80
is a premise of `OnlyInjectedRingsAreAlerted`, not an assumption: with a lower one
the statement is void.

**Tenants and onboarding.**  `OnboardingInv`.  That answers hold needs what the
request in hand has found out: a `hit` was about a row, which is inactive unless the
commit failed (`RequestOK`), and rows are never removed (`DeletedExisted`).  That an event
is in the graph at most once per attempt is not inductive as it stands: an attempt
that has not come to the event yet will add a copy, so those are counted too
(`Counted`: copies and pending attempts together are at most the attempts begun).
That the welcome tells the truth follows from `RunOK`: the events an attempt has
answered are exactly those below its `next`, apart, and the written ones are in the
graph.

**Detection.**  `DriftInv`.  Vectors stay with their key from the index through the
cache into a delivery (`ProfilesStayApart` with `VectorOK`).  Only customers have
profiles (`CustomersOnly`), so a job of the evaluation has no vector and its verdict
rests on the patterns (`FlagOK`), which are never removed; from that
`PassedOnPatterns` follows by comparing two finite sets.  Events are counted against
finished deliveries, and a job delivered once has a verdict only when it is done
(`VerdictLast`, `FirstDelivered`).

**Rate limiter.**  `WindowInv`.  Promptly admitted requests are in their sorted set as
long as they count (`PromptArePresent`): nothing removes them, because a stamp is never
ahead of the clock (`StampsArePast`), and their key outlives them (`KeysOutlive`).
So whoever is counted in has counted them, and the window's bound is kept.
The arithmetic is on cardinalities of finite sets.

**Scenario library.**  `LibraryInv`.  The loops make at most one scenario per pass and
spend no more than the calls since the last check allow (`LoopsOK`); what was billed is
bounded by the attempts begun, agent by agent (`SpendBounded`, with the
multiplication lemmas `TimesNext` and `TimesGrows`).  A report follows only files
that all load, and all names of some date that was read are then whole (`FilesOK`).  What
the directory holds is what the audit counted (`Accounts`), and the names of this run's
variants: at least one for each id of its own, at most one for each variant and date,
whence `ReportAddsUp` as an action property (`ReportsAddUp`), on cardinalities.
`RunsGoDown` is the safety half of `RunsEnd`: within a run every step descends in the
lexicographic order of tasks to go, attempts left and passes left in the attempt, so a
run has finitely many; that each of them is taken is left to fairness, and to TLC.

**Model-checked only.**  Liveness (`InjectionIsAudited`,
`EveryEventIsHandled`, `EventsAreReached`, `DetectableIsStored`, `ValidatedIsWelcomed`,
`ChainsEnd`, `RunsEnd`), which, like `ENABLED`, is beyond the prover, and the three
violations, which are about one instance.  No module that is proved about declares a recursive
operator, and nothing is proved by induction over data.

## 7. Disagreements between the code and its docs

Each has a run whose counterexample shows it:

1. `audit_before_events`: `audit.py:7` and `README.md:336` put the audit record
   before injection; the record is only queued and may be lost with the process.
2. `healthy_means_refreshed`: the refresh DAG is there to keep profiles fresh
   (`profile_refresh_dag.py:43`); it hands tokens to a builder that tokenizes again
   (`:158`), so the entries the detector reads stay as they were while it reports
   healthy.  The comment at `:155` takes the HMAC for idempotent.
3. `refused_for_its_tenant`: `rate_limit.py:2` limits per tenant; the tenant is read
   from an attribute nobody sets (`:96`), so tenants behind one address share a window.

Met while reading and not given a run:

- `log_to_audit` always runs, says its docstring (`attack_orchestrator.py:275`); it has
  the default trigger rule.
- The next request after an invalidation recomputes (`score_calculator.py:502`, `:548`,
  `immunity_score.py:221`); a computation under way stores the old score after it
  (`OnlyRacesReviveScores` says what is left of the claim).
- Scenarios tested within 30 days count (`score_calculator.py:209`); the set's expiry is
  renewed for all members at once.
- Offsets are committed after the write (`graph_ingestion.py:76`); a commit covers
  failed writes, and this consumer has no dead-letter topic.
- `louvain_project.cypher:4` and `louvain_drop.cypher:2` drop the projection before
  projecting; a detection that raises never drops, and the next takes "already exists"
  for success.
- The Hard Rule 6 check (`community_detection_dag.py:57`) is of precision among what
  was detected, and passes when nothing was.
- `PLAN.md:69` speaks of exactly-once processing; the ingestion loop processes,
  then commits, so an event may be processed again after a crash.
- `GET /fraud-rings` calls `run_query` without its driver argument: the call raises
  and the endpoint answers with its stub rings even when Neo4j is available
  (`fraud_rings.py:69`).  It also asks for `detected_at_ms`, which
  `upsert_fraud_ring.cypher` stores as `detected_at`.
- `PLAN.md:210` alerts on new rings; every detection alerts on each high-risk ring
  again, and twice.
- `community_detection.py:13` wants a cluster larger than the minimum; the code
  accepts one of that size.
- `community_detection_dag.py:14` has `check_kill_switch` and `persist_fraud_rings`
  tasks and an on-demand trigger; none exists.
- `PLAN.md:82` has the dead-letter topic capture every malformed event;
  `_send_to_dlq` does not ask whether its message was delivered.
- `SyntheticProducer` writes the registry's Avro format, `GraphIngestionConsumer`
  reads JSON: it skips every event the injector produces.
- The agent's kill-switch and the producers' dry-run flag read the environment
  only, not the Airflow Variable.  So a Variable set to true starts nothing where the
  environment is off (`NothingWithoutEnv`).
- `RED_TEAM_ENABLED = false` stops all activity, says `attack_orchestrator.py:64`; while
  the metastore does not answer, `dag_utils.py:20` takes the environment for it, and with
  that on the tasks start.  No property claims more than the code's own reading.
- `record_scenario_run` and `POST /cache/invalidate` are documented as called by
  the attack orchestrator, and are called by no DAG.
- Constraints on `account_id`, `merchant_id` and `device_id` alone contradict the
  upserts' `MERGE` on id and tenant: with them, a second tenant's bootstrap is refused
  event by event, and the tenant welcomed with the errors counted.  Nothing calls
  `apply_constraints`.
- `verify_connectivity()` is called without its driver (`tenant_provisioner.py:158`,
  `ml/graph/schema.py:127`), so `fully_provisioned` is never true.
- `DELETE` answers 204 although the commit failed (`tenant_provisioner.py:245`), and a
  repeated `POST` sets the Redis flag of a deleted tenant, which nothing reads.
- The attack cycle onboarding triggers is handed a tenant it never looks at.
- `detect_drift` always uses the default namespace, and nothing writes a tenant's part
  of `suspicious-profiles`.
- `publish_detection_result` declares retries, but what it calls swallows every
  exception.
- Dry-run profiles count as rebuilt in the refresh DAG's health.
- The "per-DAG-run LLM budget" (`dag_utils.py:58`) is a share per agent and per task
  attempt, checked before up to three calls: `SpendBounded` has what it amounts to.
- The validators accept attack types `ScenarioYamlConfig` refuses: one such answer
  fails every later run of the generator until somebody removes the file.
- `write_new_configs` dates the files anew in each attempt: one retried after midnight
  UTC leaves a second set.  An id whose first group `strip_pii` rewrote gives its file a
  name it shares with others.  The total of a report then grows by more, or less, than
  the files it names as new (`ReportAddsUp` has the bounds).
- The welcome says "no (kill-switch off)" also when the trigger of the attack cycle
  failed (`onboarding_dag.py:479`).
- `report_coverage` names gaps only among the types present (`scenario_generator.py:206`).
- `scenario_coverage_dag` documents keys it does not write.
- `log_cost` has no caller, so the alert at 80% of the budget (`CUSTOMER_GUIDE.md:140`)
  never fires.
- Bootstrap transaction ids are six random digits, account ids carry four letters of
  the tenant's id: either may collide.
- The rate limiter is exact only for pipelines that run in the second they were
  stamped; later ones may be counted in beyond the limit.

## 8. Not modelled, and why

Data (prompts, regular expressions, event mixes, Avro encoding, score weights,
vectors) is abstracted to what the properties tell apart.  Rendering, logging,
authentication and read-only queries keep no state that could go wrong between
two steps: the reports and their weekly DAG, the API shell, the event schemas, the
dashboard and the infrastructure files are left out for that reason.

- The batch backfill loader, `detect_for_scenario`, `check_staleness`,
  `delete_scenario_profile`, `generate_batch` and the cost tracker are called by nothing, or by
  tests only.
- The coverage and retraining DAGs read what others wrote and log recommendations; the
  gap list one of them stores is read by no code.
- The Neo4j parts of seed and reset are left out of `ScoreCache`: the score does not
  read the graph.
- The in-process rate limiter of the agents only delays a call.
- The reads of the history and scenario-coverage endpoints change nothing.

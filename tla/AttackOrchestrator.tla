------------------------- MODULE AttackOrchestrator -------------------------
(***************************************************************************)
(* The attack_orchestrator DAG with everything its tasks call: the attacker *)
(* agent (generation attempts, validation, audit records), the Kafka        *)
(* injector with its SyntheticProducer, and the AuditProducer.              *)
(*                                                                          *)
(* Airflow starts a task when all its upstreams succeeded, skips it when    *)
(* one was skipped, gives it up when one failed, and runs a failed task     *)
(* again once (retries = 1).  Each task attempt is an operating-system      *)
(* process: it may raise or be killed between any two of its steps.         *)
(* What becomes of the events and records handed to the Kafka producers is  *)
(* the subject of RedTeamDelivery, which composes this module with them.    *)
(***************************************************************************)
EXTENDS Integers, FiniteSets

CONSTANTS
  MaxRuns,          \* bound: DAG runs explored, one after the other
  NumEvents,        \* events one injection produces
  MaxAttempts,      \* _MAX_RETRIES of the agent
  Retries,          \* default_args["retries"] of the DAG
  MaxFaults,        \* bound: task attempts that die of something unforeseen
  MaxUuid,          \* bound: uuids the agents can draw
  PiiIds            \* scenario uuids strip_pii takes for an account number

ASSUME ConstantsOK ==
  /\ MaxRuns \in Nat
  /\ NumEvents \in Nat
  /\ MaxAttempts \in Nat \ {0}
  /\ Retries \in Nat
  /\ MaxFaults \in Nat
  /\ MaxUuid \in Nat
  /\ PiiIds \subseteq Nat

Runs == 1 .. MaxRuns

Uuids == 1 .. MaxUuid

Tasks == {"check_kill_switch", "select_scenario", "generate_synthetic_fraud",
          "validate_output", "inject_to_kafka", "log_to_audit",
          "trigger_detection_eval"}

\* Mutant: log_to_audit checks the switch too.
Guarded_Audit == Tasks \ {"trigger_detection_eval"}

\* The tasks that begin with a kill-switch check.
Guarded == Tasks \ {"log_to_audit", "trigger_detection_eval"}

TaskStates == {"none", "running", "up_for_retry", "success", "failed",
               "upstream_failed", "skipped"}

VARIABLES
  variable,     \* the Airflow Variable RED_TEAM_ENABLED
  readable,     \* whether Variable.get answers (it raises when the metastore is out)
  env,          \* whether the worker's environment has RED_TEAM_ENABLED=true
  dryRun,       \* whether it has SYNTHETIC_INJECTION_DRY_RUN=true
  run,          \* the DAG run under way (max_active_runs = 1); 0 before the first
  task,         \* the state of each task instance of that run
  tries,        \* how often each of them was started
  faults,       \* task attempts that have died of something unforeseen
  lastId,       \* the last uuid an agent drew
  draft,        \* the agent's generate_scenario call in progress
  generation,   \* XCom of generate_synthetic_fraud, per run
  validated,    \* XCom of validate_output, per run
  injection,    \* XCom of inject_to_kafka, per run
  evaluation,   \* XCom of trigger_detection_eval, per run
  sent,         \* events the running injection has handed to its producer
  emitted,      \* every event ever handed to a producer that publishes
  auditLog      \* every audit record ever appended (the structured log)

switchVars == <<variable, readable, env, dryRun>>
dagVars == <<run, task, tries, faults>>
xcomVars == <<generation, validated, injection, evaluation>>
agentVars == <<lastId, draft>>
eventVars == <<sent, emitted>>
vars == <<variable, readable, env, dryRun, run, task, tries, faults, lastId,
          draft, generation, validated, injection, evaluation, sent, emitted,
          auditLog>>

----------------------------------------------------------------------------
(* Data.                                                                    *)

\* A scenario id as the pipeline carries it: strip_pii rewrites part of some
\* uuids, and from then on the scenario goes by the rewritten text.
ScenarioId == [uuid : Nat, redacted : BOOLEAN]

None == [uuid |-> 0, redacted |-> FALSE]

RawId(u) == [uuid |-> u, redacted |-> FALSE]

SanitizedId(u) == [uuid |-> u, redacted |-> u \in PiiIds]

\* An event is known by the task attempt that produced it, so the events of a
\* retried injection are different events with the same scenario and place.
Event == [run : Nat, try : Nat, id : ScenarioId, n : Nat]

AuditRecord == [kind : {"attempt", "injection"}, run : Nat, try : Nat,
                id : ScenarioId, attempt : Nat, passed : BOOLEAN]

\* The answers to a model call.
Replies == {"accepted", "refused", "rejected"}

Phases == Replies \cup {"idle", "calling", "approved", "exhausted"}

Draft == [uuid : Nat, attempt : Nat, phase : Phases]

NoDraft == [uuid |-> 0, attempt |-> 0, phase |-> "idle"]

EvalStatus == {"none", "passed", "violated", "unavailable"}

TypeOK ==
  /\ variable \in {"unset", "true", "false"}
  /\ readable \in BOOLEAN
  /\ env \in BOOLEAN
  /\ dryRun \in BOOLEAN
  /\ run \in 0 .. MaxRuns
  /\ task \in [Tasks -> TaskStates]
  /\ tries \in [Tasks -> 0 .. Retries + 1]
  /\ faults \in 0 .. MaxFaults
  /\ lastId \in 0 .. MaxUuid
  /\ draft \in Draft
  /\ generation \in [Runs -> ScenarioId]
  /\ validated \in [Runs -> ScenarioId]
  /\ injection \in [Runs -> ScenarioId]
  /\ evaluation \in [Runs -> EvalStatus]
  /\ sent \in 0 .. NumEvents
  /\ emitted \subseteq Event
  /\ auditLog \subseteq AuditRecord

Init ==
  /\ variable \in {"unset", "true", "false"}
  /\ readable \in BOOLEAN
  /\ env \in BOOLEAN
  /\ dryRun \in BOOLEAN
  /\ run = 0
  /\ task = [t \in Tasks |-> "none"]
  /\ tries = [t \in Tasks |-> 0]
  /\ faults = 0
  /\ lastId = 0
  /\ draft = NoDraft
  /\ generation = [r \in Runs |-> None]
  /\ validated = [r \in Runs |-> None]
  /\ injection = [r \in Runs |-> None]
  /\ evaluation = [r \in Runs |-> "none"]
  /\ sent = 0
  /\ emitted = {}
  /\ auditLog = {}

----------------------------------------------------------------------------
(* The kill-switch.                                                         *)

\* get_red_team_enabled: the Variable if it is set, the environment if it is
\* not, and the environment again if reading the Variable raises.
SwitchOn == IF readable /\ variable # "unset" THEN variable = "true" ELSE env

\* Operations flips the Variable while anything is under way.
FlipSwitch ==
  /\ variable' \in {"true", "false"} \ {variable}
  /\ UNCHANGED <<readable, env, dryRun, dagVars, xcomVars, agentVars, eventVars,
                 auditLog>>

\* The metastore goes out of reach and comes back.
FlipMetastore ==
  /\ readable' = ~readable
  /\ UNCHANGED <<variable, env, dryRun, dagVars, xcomVars, agentVars, eventVars,
                 auditLog>>

----------------------------------------------------------------------------
(* Airflow: what starts, ends, retries and propagates a task instance.      *)

\* Mutant: the generation no longer takes the gate task's dag_run_id.
Wiring_NoGate ==
  {<<"select_scenario", "generate_synthetic_fraud">>,
   <<"generate_synthetic_fraud", "validate_output">>,
   <<"validate_output", "inject_to_kafka">>,
   <<"inject_to_kafka", "log_to_audit">>,
   <<"log_to_audit", "trigger_detection_eval">>}

Wiring ==
  {<<"check_kill_switch", "generate_synthetic_fraud">>,
   <<"select_scenario", "generate_synthetic_fraud">>,
   <<"generate_synthetic_fraud", "validate_output">>,
   <<"validate_output", "inject_to_kafka">>,
   <<"check_kill_switch", "inject_to_kafka">>,
   <<"inject_to_kafka", "log_to_audit">>,
   <<"generate_synthetic_fraud", "log_to_audit">>,
   <<"check_kill_switch", "log_to_audit">>,
   <<"log_to_audit", "trigger_detection_eval">>}

Upstream(t) == {u \in Tasks : <<u, t>> \in Wiring}

Ready(t) ==
  /\ run # 0
  /\ task[t] \in {"none", "up_for_retry"}
  /\ \A u \in Upstream(t) : task[u] = "success"

\* A worker starts an attempt; a guarded task has passed its check.
Begin(t) ==
  /\ Ready(t)
  /\ t \in Guarded => SwitchOn
  /\ task' = [task EXCEPT ![t] = "running"]
  /\ tries' = [tries EXCEPT ![t] = @ + 1]
  /\ UNCHANGED <<switchVars, run, faults, xcomVars, agentVars, eventVars, auditLog>>

\* A guarded task finds the switch off and raises AirflowSkipException, which
\* is never retried.
Skip(t) ==
  /\ t \in Guarded
  /\ Ready(t)
  /\ ~SwitchOn
  /\ task' = [task EXCEPT ![t] = "skipped"]
  /\ tries' = [tries EXCEPT ![t] = @ + 1]
  /\ UNCHANGED <<switchVars, run, faults, xcomVars, agentVars, eventVars, auditLog>>

Failed == {"failed", "upstream_failed"}

\* The scheduler settles a task that cannot run any more.
Propagate(t) ==
  /\ run # 0
  /\ task[t] = "none"
  /\ \/ /\ \E u \in Upstream(t) : task[u] \in Failed
        /\ task' = [task EXCEPT ![t] = "upstream_failed"]
     \/ /\ \A u \in Upstream(t) : task[u] \notin Failed
        /\ \E u \in Upstream(t) : task[u] = "skipped"
        /\ task' = [task EXCEPT ![t] = "skipped"]
  /\ UNCHANGED <<switchVars, run, tries, faults, xcomVars, agentVars, eventVars, auditLog>>

\* The attempt's process ends, and its local state with it.
ProcessEnds ==
  /\ draft' = NoDraft
  /\ sent' = 0
  /\ UNCHANGED <<switchVars, run, tries, lastId, emitted, auditLog>>

Succeeds(t) ==
  /\ task' = [task EXCEPT ![t] = "success"]
  /\ ProcessEnds
  /\ UNCHANGED faults

\* Mutant: one retry too many.
RetryLeft_OneMore(t) == tries[t] <= Retries + 1

RetryLeft(t) == tries[t] <= Retries

\* The attempt ends in an exception: Airflow schedules another, or gives up.
Fails(t) ==
  /\ task[t] = "running"
  /\ task' = [task EXCEPT ![t] = IF RetryLeft(t) THEN "up_for_retry"
                                                  ELSE "failed"]
  /\ ProcessEnds
  /\ UNCHANGED xcomVars

\* A killed worker, an unreachable service, a missing file: at any point.
Fault(t) ==
  /\ faults < MaxFaults
  /\ faults' = faults + 1
  /\ Fails(t)

Settled == {"success", "failed", "upstream_failed", "skipped"}

Finished == \A t \in Tasks : task[t] \in Settled

\* The schedule or an operator starts the next run, once the last one is over.
NewRun ==
  /\ run = 0 \/ Finished
  /\ run < MaxRuns
  /\ run' = run + 1
  /\ task' = [t \in Tasks |-> "none"]
  /\ tries' = [t \in Tasks |-> 0]
  /\ UNCHANGED <<switchVars, faults, xcomVars, agentVars, eventVars, auditLog>>

----------------------------------------------------------------------------
(* The tasks.                                                               *)

\* check_kill_switch and select_scenario keep nothing but their success.
CheckKillSwitch ==
  /\ task["check_kill_switch"] = "running"
  /\ Succeeds("check_kill_switch")
  /\ UNCHANGED xcomVars

SelectScenario ==
  /\ task["select_scenario"] = "running"
  /\ Succeeds("select_scenario")
  /\ UNCHANGED xcomVars

\* Mutant: a seeded generator draws the same uuid in every process.
NewUuid_Seeded == 1

NewUuid == lastId + 1

\* Mutant: the agent's check is gone, the gate's is thought enough.
StartGeneration_Undecorated ==
  /\ task["generate_synthetic_fraud"] = "running"
  /\ draft = NoDraft
  /\ lastId < MaxUuid
  /\ lastId' = NewUuid
  /\ draft' = [uuid |-> NewUuid, attempt |-> 1, phase |-> "calling"]
  /\ UNCHANGED <<switchVars, dagVars, xcomVars, eventVars, auditLog>>

\* generate_scenario is entered.  Its decorator reads the environment alone.
StartGeneration ==
  /\ task["generate_synthetic_fraud"] = "running"
  /\ draft = NoDraft
  /\ env
  /\ lastId < MaxUuid
  /\ lastId' = NewUuid
  /\ draft' = [uuid |-> NewUuid, attempt |-> 1, phase |-> "calling"]
  /\ UNCHANGED <<switchVars, dagVars, xcomVars, eventVars, auditLog>>

\* The model answers with a scenario, or with one that passes validate_and_sanitize
\* and that ScenarioConfig refuses, or the attempt fails before (no answer, not
\* JSON, invalid, or ruined by strip_pii).
CallModel ==
  /\ draft.phase = "calling"
  /\ \E reply \in Replies : draft' = [draft EXCEPT !.phase = reply]
  /\ UNCHANGED <<switchVars, dagVars, xcomVars, lastId, eventVars, auditLog>>

AttemptRecord ==
  [kind |-> "attempt", run |-> run, try |-> tries["generate_synthetic_fraud"],
   id |-> RawId(draft.uuid), attempt |-> draft.attempt,
   passed |-> draft.phase # "rejected"]

\* Mutant: only an attempt that passed is audited.
RecordAttempt_OnlyPassed ==
  /\ draft.phase \in Replies
  /\ auditLog' = IF draft.phase = "rejected" THEN auditLog ELSE auditLog \cup {AttemptRecord}
  /\ draft' =
       IF draft.phase = "accepted" THEN [draft EXCEPT !.phase = "approved"]
       ELSE IF draft.attempt < MaxAttempts
              THEN [draft EXCEPT !.attempt = @ + 1, !.phase = "calling"]
              ELSE [draft EXCEPT !.phase = "exhausted"]
  /\ UNCHANGED <<switchVars, dagVars, xcomVars, lastId, eventVars>>

\* Every attempt is audited; a failed one is repeated up to MaxAttempts times.
RecordAttempt ==
  /\ draft.phase \in Replies
  /\ auditLog' = auditLog \cup {AttemptRecord}
  /\ draft' =
       IF draft.phase = "accepted" THEN [draft EXCEPT !.phase = "approved"]
       ELSE IF draft.attempt < MaxAttempts
              THEN [uuid |-> draft.uuid, attempt |-> draft.attempt + 1,
                    phase |-> "calling"]
              ELSE [draft EXCEPT !.phase = "exhausted"]
  /\ UNCHANGED <<switchVars, dagVars, xcomVars, lastId, eventVars>>

\* The call raises: its decorator found the environment's switch off, or its
\* attempts are used up.
GenerationRaises ==
  /\ task["generate_synthetic_fraud"] = "running"
  /\ (draft = NoDraft /\ ~env) \/ draft.phase = "exhausted"
  /\ Fails("generate_synthetic_fraud")
  /\ UNCHANGED faults

\* Mutant: a call that used up its attempts returns its last reply.
GenerationDone_Exhausted == draft.phase \in {"approved", "exhausted"}

GenerationDone == draft.phase = "approved"

FinishGeneration ==
  /\ task["generate_synthetic_fraud"] = "running"
  /\ GenerationDone
  /\ generation' = [generation EXCEPT ![run] = SanitizedId(draft.uuid)]
  /\ Succeeds("generate_synthetic_fraud")
  /\ UNCHANGED <<validated, injection, evaluation>>

\* A scenario already sanitized passes the same pipeline again unchanged.
ValidateOutput ==
  /\ task["validate_output"] = "running"
  /\ validated' = [validated EXCEPT ![run] = generation[run]]
  /\ Succeeds("validate_output")
  /\ UNCHANGED <<generation, injection, evaluation>>

NextEvent ==
  [run |-> run, try |-> tries["inject_to_kafka"], id |-> validated[run],
   n |-> sent + 1]

\* One _publish call of the injector.  The injector counts the event whether
\* or not produce() raised, and a dry-run producer publishes nothing.
ProduceEvent ==
  /\ task["inject_to_kafka"] = "running"
  /\ sent < NumEvents
  /\ sent' = sent + 1
  /\ emitted' = IF dryRun THEN emitted ELSE emitted \cup {NextEvent}
  /\ UNCHANGED <<switchVars, dagVars, xcomVars, agentVars, auditLog>>

\* Mutant: the summary is returned before the last event is produced.
InjectionDone_Early == sent + 1 >= NumEvents

InjectionDone == sent = NumEvents

FinishInjection ==
  /\ task["inject_to_kafka"] = "running"
  /\ InjectionDone
  /\ injection' = [injection EXCEPT ![run] = validated[run]]
  /\ Succeeds("inject_to_kafka")
  /\ UNCHANGED <<generation, validated, evaluation>>

InjectionRecord ==
  [kind |-> "injection", run |-> run, try |-> tries["log_to_audit"],
   id |-> injection[run], attempt |-> 0, passed |-> TRUE]

\* log_to_audit appends, then flushes (for ten seconds at most, its result
\* ignored) and returns.
AppendInjectionRecord ==
  /\ task["log_to_audit"] = "running"
  /\ InjectionRecord \notin auditLog
  /\ auditLog' = auditLog \cup {InjectionRecord}
  /\ UNCHANGED <<switchVars, dagVars, xcomVars, agentVars, eventVars>>

FinishAudit ==
  /\ task["log_to_audit"] = "running"
  /\ InjectionRecord \in auditLog
  /\ Succeeds("log_to_audit")
  /\ UNCHANGED xcomVars

\* The evaluation's verdict is reported and changes nothing else; whatever it
\* raises is reported as unavailable.
EvaluateDetection ==
  /\ task["trigger_detection_eval"] = "running"
  /\ \E verdict \in EvalStatus \ {"none"} :
       evaluation' = [evaluation EXCEPT ![run] = verdict]
  /\ Succeeds("trigger_detection_eval")
  /\ UNCHANGED <<generation, validated, injection>>

Scheduler == \E t \in Tasks : Begin(t) \/ Skip(t) \/ Propagate(t)

TaskStep ==
  \/ CheckKillSwitch
  \/ SelectScenario
  \/ StartGeneration
  \/ CallModel
  \/ RecordAttempt
  \/ GenerationRaises
  \/ FinishGeneration
  \/ ValidateOutput
  \/ ProduceEvent
  \/ FinishInjection
  \/ AppendInjectionRecord
  \/ FinishAudit
  \/ EvaluateDetection

Faults == \E t \in Tasks : Fault(t)

Next == FlipSwitch \/ FlipMetastore \/ NewRun \/ Scheduler \/ TaskStep \/ Faults

Spec == Init /\ [][Next]_vars

\* The Airflow scheduler loop keeps examining the active run, and a started
\* attempt gets on with it; a killed one is found dead and failed (Fault).
FairSpec == Spec /\ WF_vars(Scheduler) /\ WF_vars(TaskStep)

----------------------------------------------------------------------------
(* Properties.                                                              *)

\* The records of attempts that passed validation.
Approvals == {r \in auditLog : r.kind = "attempt" /\ r.passed}

InjectionRecords == {r \in auditLog : r.kind = "injection"}

\* No event is ever produced for a scenario that has no recorded attempt that
\* passed validation, whatever was retried, crashed or flipped in between
\* (audit.py: one record "BEFORE any downstream injection occurs").
EventsWereApproved ==
  \A e \in emitted : \E r \in Approvals : r.id.uuid = e.id.uuid

\* A DAG run injects at most one scenario, and no scenario is injected by two
\* runs, although a retried generation draws a new scenario and a retried
\* injection produces its events again.
OneScenarioPerRun ==
  \A e, f \in emitted : e.run = f.run <=> e.id = f.id

\* The injection record on the audit trail is about the scenario the run
\* injected, and when it exists every event of that scenario was produced.
AuditedInjectionIsComplete ==
  \A r \in InjectionRecords :
    /\ injection[r.run] = r.id
    /\ dryRun \/ \A n \in 1 .. NumEvents :
                    \E e \in emitted : e.run = r.run /\ e.id = r.id /\ e.n = n

\* A run whose gate found the switch off does nothing, even if the switch is
\* turned on again while the run is still being settled.
SkippedRunIsInert ==
  task["check_kill_switch"] = "skipped" =>
    /\ \A e \in emitted : e.run # run
    /\ \A r \in auditLog : r.run # run

AttemptRecords == {r \in auditLog : r.kind = "attempt"}

Attempts(u) == {r.attempt : r \in {q \in AttemptRecords : q.id.uuid = u}}

\* The trail of a call ends neither with its last attempt nor with one that passed.
CutOff(u) ==
  /\ MaxAttempts \notin Attempts(u)
  /\ \A r \in Approvals : r.id.uuid = u => r.attempt + 1 \in Attempts(u)

\* The calls cut off, the one under way aside.
LeftOpen == {u \in 1 .. lastId \ {draft.uuid} : CutOff(u)}

\* generate_scenario leaves one record for each of its attempts, from the first on and
\* without a gap, all of one task attempt; and but for the call under way, a trail that
\* ends before the call did has a task attempt that died to show for it.
EveryAttemptIsAudited ==
  /\ \A u \in 1 .. lastId : \E k \in 0 .. MaxAttempts : Attempts(u) = 1 .. k
  /\ \A r, q \in AttemptRecords :
       r.id = q.id => /\ r.run = q.run /\ r.try = q.try
                      /\ r.attempt = q.attempt => r = q
  /\ Cardinality(LeftOpen) <= faults

\* Where the workers' environment has the switch off, nothing is produced and nothing
\* recorded in any run, although the gate reads the Variable, or, when the metastore
\* is out, the environment: every attempt at a generation is refused by the agent's own
\* check, the retried ones too, and no later task gets to start without its scenario.
NothingWithoutEnv == ~env => emitted = {} /\ auditLog = {}

\* An injection that ran to its end gets its audit task, which no kill-switch
\* can skip: it ends in success or, both attempts having failed, in failure.
InjectionIsAudited ==
  \A r \in Runs :
    (run = r /\ injection[r] # None)
      ~> (run = r /\ task["log_to_audit"] \in {"success", "failed"})

\* The pipeline keeps the ledger's promise.
Ledger == INSTANCE RedTeamLedger WITH
  Scenario <- Uuids,
  approved <- {r.id.uuid : r \in Approvals},
  published <- {e.id.uuid : e \in emitted},
  closed <- {injection[r].uuid : r \in {q \in Runs : injection[q] # None}},
  audited <- {r.id.uuid : r \in InjectionRecords}

LedgerKept == Ledger!Spec

=============================================================================

---------------------- MODULE AttackOrchestratorProofs ----------------------
(***************************************************************************)
(* Theorems about AttackOrchestrator, and about RedTeamDelivery, which     *)
(* composes it with the producers' queues, for every value of their        *)
(* constants.                                                              *)
(***************************************************************************)
EXTENDS AttackOrchestratorInv, RedTeamDelivery, FiniteSetTheorems, TLAPS

\* The state a step of the cycle leaves alone is listed in these tuples; the
\* answers of the model are three.
USE DEF switchVars, dagVars, xcomVars, agentVars, eventVars, Replies

\* One step keeps every variable in its type, the tries within their bound
\* among them.
LEMMA TypeStep ==
  TypeOK /\ TriesLeft /\ NothingBeforeRuns /\ [Next]_vars => TypeOK'
<1> SUFFICES ASSUME TypeOK, TriesLeft, NothingBeforeRuns, [Next]_vars
             PROVE  TypeOK'
  OBVIOUS
<1> USE ConstantsOK DEF TypeOK, TaskStates
<1>1. CASE FlipSwitch
  BY <1>1 DEF FlipSwitch
<1>2. CASE FlipMetastore
  BY <1>2 DEF FlipMetastore
<1>3. CASE NewRun
  BY <1>3 DEF NewRun
<1>4. ASSUME NEW t \in Tasks, Begin(t) PROVE TypeOK'
  BY <1>4 DEF Begin, Ready, TriesLeft
<1>5. ASSUME NEW t \in Tasks, Skip(t) PROVE TypeOK'
  BY <1>5 DEF Skip, Ready, TriesLeft
<1>6. ASSUME NEW t \in Tasks, Propagate(t) PROVE TypeOK'
  BY <1>6 DEF Propagate
<1>7. ASSUME NEW t \in Tasks, Fault(t) PROVE TypeOK'
  BY <1>7 DEF Fault, Fails, ProcessEnds, NoDraft, Draft, Phases
<1>8. CASE CheckKillSwitch
  BY <1>8 DEF CheckKillSwitch, Succeeds, ProcessEnds, NoDraft, Draft, Phases, Tasks
<1>9. CASE SelectScenario
  BY <1>9 DEF SelectScenario, Succeeds, ProcessEnds, NoDraft, Draft, Phases, Tasks
<1>10. CASE StartGeneration
  BY <1>10 DEF StartGeneration, NewUuid, NoDraft, Draft, Phases
<1>11. CASE CallModel
  BY <1>11 DEF CallModel, Draft, Phases
<1>12. CASE RecordAttempt
  <2>1. AttemptRecord \in AuditRecord
    <3>1. (draft.phase # "rejected") \in BOOLEAN
      OBVIOUS
    <3>2. run \in Nat /\ tries["generate_synthetic_fraud"] \in Nat
      BY DEF Tasks
    <3>3. draft.uuid \in Nat /\ draft.attempt \in Nat
      BY DEF Draft
    <3> QED
      BY <3>1, <3>2, <3>3 DEF AttemptRecord, AuditRecord, RawId, ScenarioId
  <2>2. draft' \in Draft
    <3>1. [draft EXCEPT !.phase = "approved"] \in Draft
      BY DEF Draft, Phases
    <3>2. [uuid |-> draft.uuid, attempt |-> draft.attempt + 1,
            phase |-> "calling"] \in Draft
      BY DEF Draft, Phases
    <3>3. [draft EXCEPT !.phase = "exhausted"] \in Draft
      BY DEF Draft, Phases
    <3> QED
      BY <1>12, <3>1, <3>2, <3>3 DEF RecordAttempt
  <2> QED
    BY <1>12, <2>1, <2>2 DEF RecordAttempt
<1>13. CASE GenerationRaises
  BY <1>13 DEF GenerationRaises, Fails, ProcessEnds, NoDraft, Draft, Phases, Tasks
<1>14. CASE FinishGeneration
  <2>1. SanitizedId(draft.uuid) \in ScenarioId
    <3>1. (draft.uuid \in PiiIds) \in BOOLEAN
      OBVIOUS
    <3> QED
      BY <3>1 DEF SanitizedId, ScenarioId, Draft
  <2>2. generation' \in [Runs -> ScenarioId]
    BY <1>14, <2>1 DEF FinishGeneration
  <2> QED
    BY <1>14, <2>2 DEF FinishGeneration, Succeeds, ProcessEnds, NoDraft, Draft,
                       Phases, Tasks
<1>15. CASE ValidateOutput
  <2>1. run \in Runs
    BY <1>15 DEF ValidateOutput, NothingBeforeRuns, Runs, Tasks
  <2> QED
    BY <1>15, <2>1 DEF ValidateOutput, Succeeds, ProcessEnds, NoDraft, Draft, Phases,
                     Tasks
<1>16. CASE ProduceEvent
  <2>1. run \in Nat /\ tries["inject_to_kafka"] \in Nat /\ sent + 1 \in 0 .. NumEvents
    BY <1>16 DEF ProduceEvent, Tasks
  <2>2. NextEvent \in Event
    <3>1. run \in Runs
      BY <1>16 DEF ProduceEvent, NothingBeforeRuns, Runs, Tasks
    <3> QED
      BY <2>1, <3>1 DEF NextEvent, Event
  <2> QED
    BY <1>16, <2>1, <2>2 DEF ProduceEvent
<1>17. CASE FinishInjection
  <2>1. run \in Runs
    BY <1>17 DEF FinishInjection, NothingBeforeRuns, Runs, Tasks
  <2> QED
    BY <1>17, <2>1 DEF FinishInjection, Succeeds, ProcessEnds, NoDraft, Draft, Phases,
                     Tasks
<1>18. CASE AppendInjectionRecord
  <2>1. InjectionRecord \in AuditRecord
    <3>1. run \in Runs
      BY <1>18 DEF AppendInjectionRecord, NothingBeforeRuns, Runs, Tasks
    <3>2. run \in Nat /\ tries["log_to_audit"] \in Nat
      BY DEF Tasks
    <3> QED
      BY <3>1, <3>2 DEF InjectionRecord, AuditRecord
  <2> QED
    BY <1>18, <2>1 DEF AppendInjectionRecord
<1>19. CASE FinishAudit
  BY <1>19 DEF FinishAudit, Succeeds, ProcessEnds, NoDraft, Draft, Phases, Tasks
<1>20. CASE EvaluateDetection
  <2>1. evaluation' \in [Runs -> EvalStatus]
    BY <1>20 DEF EvaluateDetection
  <2> QED
    BY <1>20, <2>1 DEF EvaluateDetection, Succeeds, ProcessEnds, NoDraft, Draft,
                       Phases, Tasks
<1>21. CASE UNCHANGED vars
  BY <1>21 DEF vars
<1> QED
  BY <1>1, <1>2, <1>3, <1>4, <1>5, <1>6, <1>7, <1>8, <1>9, <1>10, <1>11, <1>12,
     <1>13, <1>14, <1>15, <1>16, <1>17, <1>18, <1>19, <1>20, <1>21
     DEF Next, Scheduler, TaskStep, Faults

\* The changes of state only one action can make.
LEMMA Frame ==
  ASSUME [Next]_vars
  PROVE  /\ dryRun' = dryRun
         /\ run' = run \/ NewRun
         /\ generation' = generation \/ FinishGeneration
         /\ validated' = validated \/ ValidateOutput
         /\ injection' = injection \/ FinishInjection
         /\ emitted' = emitted \/ ProduceEvent
         /\ auditLog' = auditLog \/ RecordAttempt \/ AppendInjectionRecord
         /\ lastId' = lastId \/ StartGeneration
<1> USE DEF Succeeds, Fails, ProcessEnds
<1> QED
  BY DEF Next, Scheduler, TaskStep, Faults, vars, FlipSwitch, FlipMetastore, NewRun,
     Begin, Skip, Propagate, Fault, CheckKillSwitch, SelectScenario, StartGeneration,
     CallModel, RecordAttempt, GenerationRaises, FinishGeneration, ValidateOutput,
     ProduceEvent, FinishInjection, AppendInjectionRecord, FinishAudit,
     EvaluateDetection

\* The ways the scheduler and the workers change the state of one task.
Move(t) ==
  /\ task' = [task EXCEPT ![t] = task'[t]]
  /\ \/ Ready(t) /\ task'[t] \in {"running", "skipped"}
     \/ run # 0 /\ task[t] = "none" /\ task'[t] \in {"upstream_failed", "skipped"}
     \/ task[t] = "running" /\ task'[t] \in {"success", "failed", "up_for_retry"}

\* A step starts a run, leaves every task alone, or moves one of them.
LEMMA TaskMoves ==
  ASSUME TypeOK, [Next]_vars
  PROVE  \/ NewRun
         \/ run' = run /\ task' = task
         \/ run' = run /\ \E t \in Tasks : Move(t)
<1> USE DEF TypeOK, Succeeds, Fails, ProcessEnds
<1> QED
  BY DEF Next, Scheduler, TaskStep, Faults, vars, FlipSwitch, FlipMetastore, Tasks,
     Begin, Skip, Propagate, Fault, CheckKillSwitch, SelectScenario, StartGeneration,
     CallModel, RecordAttempt, GenerationRaises, FinishGeneration, ValidateOutput,
     ProduceEvent, FinishInjection, AppendInjectionRecord, FinishAudit,
     EvaluateDetection, Move, Ready

\* No step uses a try a task does not have: the bound on retries is kept.
LEMMA TriesStep ==
  ASSUME TypeOK, TriesLeft, [Next]_vars
  PROVE  TriesLeft'
<1> USE ConstantsOK DEF TypeOK, TriesLeft
<1>1. CASE NewRun
  BY <1>1 DEF NewRun
<1>2. ASSUME NEW t \in Tasks, Begin(t) \/ Skip(t) \/ Propagate(t) PROVE TriesLeft'
  BY <1>2 DEF Begin, Skip, Propagate, Ready
<1>3. ASSUME NEW t \in Tasks, Fails(t) PROVE TriesLeft'
  BY <1>3 DEF Fails, RetryLeft, ProcessEnds
<1>4. ASSUME NEW t \in Tasks, Succeeds(t) PROVE TriesLeft'
  BY <1>4 DEF Succeeds, ProcessEnds
<1>5. CASE UNCHANGED <<task, tries>>
  BY <1>5
<1> QED
  BY <1>1, <1>2, <1>3, <1>4, <1>5
     DEF Next, Scheduler, TaskStep, Faults, vars, FlipSwitch, FlipMetastore, Tasks,
     Fault, CheckKillSwitch, SelectScenario, StartGeneration, CallModel,
     RecordAttempt, GenerationRaises, FinishGeneration, ValidateOutput,
     ProduceEvent, FinishInjection, AppendInjectionRecord, FinishAudit,
     EvaluateDetection

\* Nothing is started before the first run.
LEMMA BeforeRunsStep ==
  ASSUME TypeOK, NothingBeforeRuns, [Next]_vars
  PROVE  NothingBeforeRuns'
<1>1. CASE NewRun
  BY <1>1 DEF NewRun, NothingBeforeRuns
<1>2. CASE run' = run /\ task' = task
  BY <1>2 DEF NothingBeforeRuns
<1>3. ASSUME run' = run, NEW t \in Tasks, Move(t) PROVE NothingBeforeRuns'
  BY <1>3 DEF NothingBeforeRuns, Move, Ready
<1> QED
  BY <1>1, <1>2, <1>3, TaskMoves

\* No upstream of a task that was started is ever started again.
LEMMA OrderedStep ==
  ASSUME TypeOK, Ordered, [Next]_vars
  PROVE  Ordered'
<1>1. CASE NewRun
  BY <1>1 DEF NewRun, Ordered, Started
<1>2. CASE task' = task
  BY <1>2 DEF Ordered
<1>3. ASSUME NEW t \in Tasks, Move(t) PROVE Ordered'
  <2> SUFFICES ASSUME NEW s \in Tasks, task'[s] \in Started, NEW u \in Upstream(s)
               PROVE  task'[u] = "success"
    BY DEF Ordered
  <2>1. u \in Tasks
    BY DEF Upstream
  <2>2. \A x \in Tasks : x # t => task'[x] = task[x]
    BY <1>3 DEF Move, TypeOK
  <2>3. task[u] = "success"
    BY <1>3, <2>2 DEF Move, Ready, Ordered, Started
  <2> QED
    BY <1>3, <2>1, <2>2, <2>3 DEF Move, Ready, TypeOK
<1> QED
  BY <1>1, <1>2, <1>3, TaskMoves

\* Within a run a success stays a success.
LEMMA SuccessIsFinal ==
  ASSUME TypeOK, [Next]_vars, ~NewRun, NEW t \in Tasks, task[t] = "success"
  PROVE  task'[t] = "success"
BY TaskMoves DEF Move, Ready, TypeOK

\* A task becomes a success by its own last step.
LEMMA SuccessComesFrom ==
  ASSUME TypeOK, [Next]_vars
  PROVE  /\ task'["generate_synthetic_fraud"] = "success" =>
              task["generate_synthetic_fraud"] = "success" \/ FinishGeneration
         /\ task'["validate_output"] = "success" =>
              task["validate_output"] = "success" \/ ValidateOutput
         /\ task'["inject_to_kafka"] = "success" =>
              task["inject_to_kafka"] = "success" \/ FinishInjection
<1> USE DEF TypeOK
<1>1. CASE NewRun
  BY <1>1 DEF NewRun, Tasks
<1>2. CASE task' = task
  BY <1>2
<1>3. ASSUME NEW t \in Tasks, Begin(t) \/ Skip(t) \/ Propagate(t) \/ Fails(t)
      PROVE  \A s \in Tasks : task'[s] = "success" => task[s] = "success"
  BY <1>3 DEF Begin, Skip, Propagate, Fails
<1>4. CASE \/ CheckKillSwitch \/ SelectScenario \/ FinishAudit \/ EvaluateDetection
  BY <1>4 DEF CheckKillSwitch, SelectScenario, FinishAudit, EvaluateDetection,
              Succeeds, Tasks
<1>5. CASE FinishGeneration \/ ValidateOutput \/ FinishInjection
  BY <1>5 DEF FinishGeneration, ValidateOutput, FinishInjection, Succeeds, Tasks
<1> HIDE DEF TypeOK
<1>6. \/ task' = task \/ NewRun
      \/ \E t \in Tasks : Begin(t) \/ Skip(t) \/ Propagate(t) \/ Fails(t)
      \/ CheckKillSwitch \/ SelectScenario \/ FinishAudit \/ EvaluateDetection
      \/ FinishGeneration \/ ValidateOutput \/ FinishInjection
  BY DEF Next, Scheduler, TaskStep, Faults, vars, FlipSwitch, FlipMetastore, Tasks,
         Fault, StartGeneration, CallModel, RecordAttempt, GenerationRaises,
         ProduceEvent, AppendInjectionRecord
<1>7. \A s \in {"generate_synthetic_fraud", "validate_output", "inject_to_kafka"} :
        s \in Tasks
  BY DEF Tasks
<1> QED
  BY <1>1, <1>2, <1>3, <1>4, <1>5, <1>6, <1>7

\* The upstreams of the tasks the pipeline's data passes through.
LEMMA UpstreamTasks ==
  /\ "check_kill_switch" \in Upstream("generate_synthetic_fraud")
  /\ "generate_synthetic_fraud" \in Upstream("validate_output")
  /\ "validate_output" \in Upstream("inject_to_kafka")
  /\ "check_kill_switch" \in Upstream("inject_to_kafka")
  /\ "inject_to_kafka" \in Upstream("log_to_audit")
  /\ "check_kill_switch" \in Upstream("log_to_audit")
BY DEF Upstream, Wiring, Tasks

\* Only a run under way has a task that runs, and so only it emits and records.
LEMMA RunningNow ==
  ASSUME TypeOK, NothingBeforeRuns, NEW t \in Tasks, task[t] = "running"
  PROVE  run \in Runs
BY DEF TypeOK, NothingBeforeRuns, Runs

\* A step that adds to the audit trail belongs to the run under way.
LEMMA RecordsAdded ==
  ASSUME TypeOK, NothingBeforeRuns, Ordered, Drafting, [Next]_vars
  PROVE  \A r \in auditLog' :
           \/ r \in auditLog
           \/ /\ run' = run
              /\ task' = task
              /\ run \in Runs
              /\ r.run = run
              /\ task["check_kill_switch"] = "success"
              /\ \/ RecordAttempt /\ r = AttemptRecord
                 \/ AppendInjectionRecord /\ r = InjectionRecord
<1>1. CASE RecordAttempt
  <2>1. task["generate_synthetic_fraud"] = "running"
    BY <1>1 DEF RecordAttempt, Drafting, NoDraft
  <2>2. run \in Runs /\ task["check_kill_switch"] = "success"
    BY <2>1, RunningNow, UpstreamTasks DEF Tasks, Ordered, Started
  <2> QED
    BY <1>1, <2>2 DEF RecordAttempt, AttemptRecord
<1>2. CASE AppendInjectionRecord
  <2>1. task["log_to_audit"] = "running"
    BY <1>2 DEF AppendInjectionRecord
  <2>2. run \in Runs /\ task["check_kill_switch"] = "success"
    BY <2>1, RunningNow, UpstreamTasks DEF Tasks, Ordered, Started
  <2> QED
    BY <1>2, <2>2 DEF AppendInjectionRecord, InjectionRecord
<1> QED
  BY <1>1, <1>2, Frame

\* So does a step that produces an event, and the event is the next one of the
\* scenario validate_output passed on.
LEMMA EventsAdded ==
  ASSUME TypeOK, NothingBeforeRuns, Ordered, [Next]_vars
  PROVE  \A e \in emitted' :
           \/ e \in emitted
           \/ /\ ProduceEvent
              /\ e = NextEvent
              /\ run \in Runs
              /\ task["validate_output"] = "success"
              /\ task["check_kill_switch"] = "success"
<1>1. CASE ProduceEvent
  <2>1. task["inject_to_kafka"] = "running"
    BY <1>1 DEF ProduceEvent
  <2>2. /\ run \in Runs
        /\ task["validate_output"] = "success"
        /\ task["check_kill_switch"] = "success"
    BY <2>1, RunningNow, UpstreamTasks DEF Tasks, Ordered, Started
  <2> QED
    BY <1>1, <2>2 DEF ProduceEvent
<1> QED
  BY <1>1, Frame

\* No event, record or XCom is ever made under the number of a run to come.
LEMMA PastStep ==
  ASSUME TypeOK, NothingBeforeRuns, Ordered, Drafting, PastOnly, [Next]_vars
  PROVE  PastOnly'
<1>1. run' = run \/ run' = run + 1
  BY Frame DEF NewRun
<1>2. \A e \in emitted' : e.run \in 1 .. run'
  <2> SUFFICES ASSUME NEW e \in emitted' PROVE e.run \in 1 .. run'
    OBVIOUS
  <2>1. CASE e \in emitted
    BY <2>1, <1>1 DEF PastOnly, TypeOK
  <2>2. CASE e \notin emitted
    <3>1. e.run = run /\ run \in Runs /\ run' = run
      BY <2>2, EventsAdded DEF NextEvent, ProduceEvent
    <3> QED
      BY <3>1 DEF Runs
  <2> QED
    BY <2>1, <2>2
<1>3. \A r \in auditLog' : r.run \in 1 .. run'
  BY <1>1, RecordsAdded DEF PastOnly, TypeOK, Runs
<1>4. ASSUME NEW r \in Runs, r > run'
      PROVE  /\ generation'[r] = generation[r]
             /\ validated'[r] = validated[r]
             /\ injection'[r] = injection[r]
  <2>1. r # run
    BY <1>1, <1>4 DEF Runs, TypeOK
  <2> QED
    BY <2>1, Frame DEF FinishGeneration, ValidateOutput, FinishInjection, TypeOK
<1> QED
  <2>1. \A r \in Runs : r > run' => r > run
    BY <1>1 DEF Runs, TypeOK
  <2> QED
    BY <1>2, <1>3, <1>4, <2>1 DEF PastOnly

\* What the three steps that return a scenario return, and when.
LEMMA Returns ==
  ASSUME TypeOK, NothingBeforeRuns, Ordered, Drafting, XComOfSuccess, [Next]_vars
  PROVE  /\ FinishGeneration =>
              /\ run \in Runs
              /\ task["generate_synthetic_fraud"] = "running"
              /\ generation' = [generation EXCEPT ![run] = SanitizedId(lastId)]
              /\ SanitizedId(lastId) # None
              /\ draft.uuid = lastId
              /\ draft # NoDraft
         /\ ValidateOutput =>
              /\ run \in Runs
              /\ task["validate_output"] = "running"
              /\ validated' = [validated EXCEPT ![run] = generation[run]]
              /\ generation[run] # None
         /\ FinishInjection =>
              /\ run \in Runs
              /\ task["inject_to_kafka"] = "running"
              /\ injection' = [injection EXCEPT ![run] = validated[run]]
              /\ validated[run] # None
<1>1. ASSUME FinishGeneration
      PROVE  /\ run \in Runs
             /\ task["generate_synthetic_fraud"] = "running"
             /\ draft # NoDraft
             /\ draft.uuid = lastId
             /\ lastId # 0
  BY <1>1, RunningNow DEF FinishGeneration, GenerationDone, NoDraft, Drafting, Tasks
<1>2. ASSUME ValidateOutput
      PROVE  /\ run \in Runs
             /\ task["validate_output"] = "running"
             /\ generation[run] # None
  BY <1>2, RunningNow, UpstreamTasks
     DEF ValidateOutput, Tasks, Ordered, Started, XComOfSuccess, Runs
<1>3. ASSUME FinishInjection
      PROVE  /\ run \in Runs
             /\ task["inject_to_kafka"] = "running"
             /\ validated[run] # None
  BY <1>3, RunningNow, UpstreamTasks
     DEF FinishInjection, Tasks, Ordered, Started, XComOfSuccess, Runs
<1> QED
  BY <1>1, <1>2, <1>3 DEF FinishGeneration, ValidateOutput, FinishInjection,
                          SanitizedId, None

\* A task leaves its XCom in the very step in which it succeeds.
LEMMA XComOfSuccessStep ==
  ASSUME TypeOK, NothingBeforeRuns, Ordered, PastOnly, Drafting, XComOfSuccess,
         [Next]_vars
  PROVE  XComOfSuccess'
<1>1. CASE NewRun
  <2>1. run' \in Runs /\ run' > run
    BY <1>1, ConstantsOK DEF NewRun, Runs, TypeOK
  <2>2. generation[run'] = None /\ validated[run'] = None /\ injection[run'] = None
    BY <2>1 DEF PastOnly
  <2> QED
    BY <1>1, <2>2 DEF NewRun, XComOfSuccess, Tasks
<1>2. ASSUME ~NewRun, run # 0 PROVE XComOfSuccess'
  <2>1. run' = run /\ run \in Runs
    BY <1>2, Frame DEF TypeOK, Runs
  <2>2. generation'[run] # None <=> task'["generate_synthetic_fraud"] = "success"
    <3>1. CASE FinishGeneration
      BY <2>1, <3>1, Returns DEF FinishGeneration, Succeeds, TypeOK, Tasks
    <3>2. CASE ~FinishGeneration
      BY <1>2, <3>2, Frame, SuccessIsFinal, SuccessComesFrom DEF XComOfSuccess, Tasks
    <3> QED
      BY <3>1, <3>2
  <2>3. validated'[run] # None <=> task'["validate_output"] = "success"
    <3>1. CASE ValidateOutput
      BY <2>1, <3>1, Returns DEF ValidateOutput, Succeeds, TypeOK, Tasks
    <3>2. CASE ~ValidateOutput
      BY <1>2, <3>2, Frame, SuccessIsFinal, SuccessComesFrom DEF XComOfSuccess, Tasks
    <3> QED
      BY <3>1, <3>2
  <2>4. injection'[run] # None <=> task'["inject_to_kafka"] = "success"
    <3>1. CASE FinishInjection
      BY <2>1, <3>1, Returns DEF FinishInjection, Succeeds, TypeOK, Tasks
    <3>2. CASE ~FinishInjection
      BY <1>2, <3>2, Frame, SuccessIsFinal, SuccessComesFrom DEF XComOfSuccess, Tasks
    <3> QED
      BY <3>1, <3>2
  <2> QED
    BY <2>1, <2>2, <2>3, <2>4 DEF XComOfSuccess
<1>3. CASE ~NewRun /\ run = 0
  BY <1>3, Frame DEF XComOfSuccess
<1> QED
  BY <1>1, <1>2, <1>3

\* What validation and injection return is what they were given, in every run,
\* past ones included.
LEMMA XComChainStep ==
  ASSUME TypeOK, NothingBeforeRuns, Ordered, Drafting, XComOfSuccess, XComChain,
         [Next]_vars
  PROVE  XComChain'
<1> SUFFICES ASSUME NEW r \in Runs
             PROVE  /\ validated'[r] # None => validated'[r] = generation'[r]
                    /\ injection'[r] # None => injection'[r] = validated'[r]
  BY DEF XComChain
<1>1. CASE FinishGeneration
  <2>1. run \in Runs => validated[run] = None
    BY <1>1, Returns, UpstreamTasks DEF XComOfSuccess, Ordered, Started, Tasks, Runs
  <2> QED
    BY <1>1, <2>1, Returns DEF FinishGeneration, XComChain, TypeOK
<1>2. CASE ValidateOutput
  <2>1. run \in Runs => injection[run] = None
    BY <1>2, Returns, UpstreamTasks DEF XComOfSuccess, Ordered, Started, Tasks, Runs
  <2> QED
    BY <1>2, <2>1, Returns DEF ValidateOutput, XComChain, TypeOK
<1>3. CASE FinishInjection
  BY <1>3, Returns DEF FinishInjection, XComChain, TypeOK
<1>4. CASE UNCHANGED <<generation, validated, injection>>
  BY <1>4 DEF XComChain
<1> QED
  BY <1>1, <1>2, <1>3, <1>4, Frame

\* The agent's draft lives and dies with the attempt that runs it, and its uuid
\* has been returned by no run.
LEMMA DraftingStep ==
  ASSUME TypeOK, TriesLeft, NothingBeforeRuns, Ordered, Drafting, UuidsDiffer,
         XComOfSuccess, [Next]_vars
  PROVE  Drafting'
<1> USE DEF Drafting, NoDraft
<1>1. CASE StartGeneration
  <2>1. lastId' = lastId + 1 /\ \A r \in Runs : generation[r].uuid <= lastId
    BY <1>1 DEF StartGeneration, NewUuid, UuidsDiffer
  <2>2. \A r \in Runs : generation[r].uuid \in Nat
    BY DEF TypeOK, ScenarioId
  <2>3. lastId \in Nat /\ generation' = generation
    BY <1>1 DEF TypeOK, StartGeneration
  <2>4. \A r \in Runs : generation'[r].uuid # lastId'
    BY <2>1, <2>2, <2>3
  <2>5. lastId' # 0
    BY <2>1, <2>3
  <2> QED
    BY <1>1, <2>4, <2>5 DEF StartGeneration
<1>2. CASE CallModel
  BY <1>2 DEF CallModel, TypeOK, Draft
<1>3. CASE RecordAttempt
  BY <1>3 DEF RecordAttempt, TypeOK, Draft
<1>4. CASE draft' = NoDraft
  BY <1>4
<1>5. CASE UNCHANGED <<draft, task, lastId, generation>>
  BY <1>5
<1>6. ASSUME UNCHANGED <<draft, lastId, generation>>, draft = NoDraft PROVE Drafting'
  BY <1>6
<1>7. ASSUME UNCHANGED <<draft, lastId, generation>>, NEW t \in Tasks,
             t # "generate_synthetic_fraud", task' = [task EXCEPT ![t] = task'[t]]
      PROVE  Drafting'
  BY <1>7 DEF TypeOK, Tasks
<1>8. ASSUME NewRun PROVE draft = NoDraft
  BY <1>8 DEF NewRun, Finished, Settled, NothingBeforeRuns, Tasks
<1>9. ASSUME NEW t \in Tasks, Begin(t) \/ Skip(t) \/ Propagate(t) PROVE Drafting'
  <2>1. CASE t = "generate_synthetic_fraud"
    BY <1>9, <2>1, <1>6 DEF Begin, Skip, Propagate, Ready
  <2>2. CASE t # "generate_synthetic_fraud"
    BY <1>9, <2>2, <1>7 DEF Begin, Skip, Propagate, TypeOK
  <2> QED
    BY <2>1, <2>2
<1> HIDE DEF Drafting, NoDraft
<1>10. \/ draft' = NoDraft
       \/ StartGeneration \/ CallModel \/ RecordAttempt
       \/ \E t \in Tasks : Begin(t) \/ Skip(t) \/ Propagate(t)
       \/ NewRun /\ UNCHANGED <<draft, lastId, generation>>
       \/ UNCHANGED <<draft, task, lastId, generation>>
  BY DEF Next, Scheduler, TaskStep, Faults, vars, FlipSwitch, FlipMetastore, NewRun,
         Fault, Fails, Succeeds, ProcessEnds, CheckKillSwitch, SelectScenario,
         GenerationRaises, FinishGeneration, ValidateOutput, ProduceEvent,
         FinishInjection, AppendInjectionRecord, FinishAudit, EvaluateDetection
<1> QED
  BY <1>1, <1>2, <1>3, <1>4, <1>5, <1>6, <1>8, <1>9, <1>10

\* A generation never returns a uuid some run was already given.
LEMMA UuidsStep ==
  ASSUME TypeOK, NothingBeforeRuns, Ordered, Drafting, XComOfSuccess, UuidsDiffer,
         [Next]_vars
  PROVE  UuidsDiffer'
<1>1. CASE FinishGeneration
  <2>1. \A r \in Runs : generation'[r] = IF r = run THEN SanitizedId(lastId)
                                                    ELSE generation[r]
    BY <1>1, Returns DEF TypeOK
  <2>2. \A r \in Runs : generation[r].uuid # lastId
    BY <1>1, Returns DEF Drafting
  <2>3. /\ SanitizedId(lastId).uuid = lastId
        /\ lastId' = lastId
        /\ lastId \in Nat
        /\ lastId # 0
    BY <1>1, Returns
       DEF SanitizedId, FinishGeneration, Succeeds, ProcessEnds, TypeOK, Drafting
  <2> QED
    BY <2>1, <2>2, <2>3 DEF UuidsDiffer
<1>2. CASE generation' = generation
  <2>1. lastId \in Nat /\ lastId' \in Nat /\ lastId <= lastId'
    BY Frame DEF StartGeneration, NewUuid, TypeOK
  <2>2. \A r \in Runs : generation[r].uuid \in Nat
    BY DEF TypeOK, ScenarioId
  <2>3. \A r \in Runs : generation[r].uuid <= lastId
    BY DEF UuidsDiffer
  <2>4. \A r \in Runs : generation'[r].uuid <= lastId'
    BY <1>2, <2>1, <2>2, <2>3
  <2> QED
    BY <1>2, <2>4 DEF UuidsDiffer
<1> QED
  BY <1>1, <1>2, Frame

\* What Approved says of the state after the step.
NowApproved(u) == \E r \in Approvals' : r.id.uuid = u

\* The audit trail only grows, so an approval stands.
LEMMA ApprovedStays ==
  ASSUME [Next]_vars
  PROVE  \A u : Approved(u) => NowApproved(u)
<1>1. auditLog \subseteq auditLog'
  BY Frame DEF RecordAttempt, AppendInjectionRecord
<1> QED
  BY <1>1 DEF Approved, NowApproved, Approvals

\* The agent returns nothing without an approval on the audit trail.
LEMMA ReturnsAreApprovedStep ==
  ASSUME TypeOK, NothingBeforeRuns, Ordered, Drafting, XComOfSuccess,
         ReturnsAreApproved, [Next]_vars
  PROVE  ReturnsAreApproved'
<1>1. draft'.phase = "approved" => NowApproved(draft'.uuid)
  <2>1. CASE RecordAttempt
    <3>1. CASE draft.phase = "accepted"
      <4>1. AttemptRecord \in auditLog' /\ draft'.uuid = draft.uuid
        BY <2>1, <3>1 DEF RecordAttempt
      <4>2. /\ AttemptRecord.kind = "attempt"
            /\ AttemptRecord.passed
            /\ AttemptRecord.id.uuid = draft.uuid
        BY <3>1 DEF AttemptRecord, RawId
      <4> QED
        BY <4>1, <4>2 DEF NowApproved, Approvals
    <3>2. CASE draft.phase # "accepted"
      BY <2>1, <3>2 DEF RecordAttempt, TypeOK, Draft
    <3> QED
      BY <3>1, <3>2
  <2>2. CASE draft' = draft
    BY <2>2, ApprovedStays DEF ReturnsAreApproved
  <2>3. CASE draft' # draft /\ ~RecordAttempt
    <3>1. draft'.phase # "approved"
      BY <2>3 DEF Next, Scheduler, TaskStep, Faults, vars, FlipSwitch,
         FlipMetastore, NewRun, Begin, Skip, Propagate, Fault, Fails, Succeeds,
         ProcessEnds, NoDraft, CheckKillSwitch, SelectScenario, StartGeneration,
         CallModel, GenerationRaises, FinishGeneration, ValidateOutput, ProduceEvent,
         FinishInjection, AppendInjectionRecord, FinishAudit, EvaluateDetection,
         TypeOK, Draft
    <3> QED
      BY <3>1
  <2> QED
    BY <2>1, <2>2, <2>3
<1>2. ASSUME NEW r \in Runs, generation'[r] # None
      PROVE  NowApproved(generation'[r].uuid)
  <2>1. CASE FinishGeneration
    <3>1. NowApproved(lastId)
      BY <2>1, Returns, ApprovedStays
         DEF FinishGeneration, GenerationDone, ReturnsAreApproved
    <3>2. CASE r = run
      <4>1. generation'[r].uuid = lastId
        BY <2>1, <3>2, Returns DEF TypeOK, SanitizedId
      <4> QED
        BY <3>1, <4>1
    <3>3. CASE r # run
      <4>1. generation'[r] = generation[r]
        BY <2>1, <3>3, Returns DEF TypeOK
      <4> QED
        BY <4>1, <1>2, ApprovedStays DEF ReturnsAreApproved
    <3> QED
      BY <3>2, <3>3
  <2>2. CASE generation' = generation
    BY <1>2, <2>2, ApprovedStays DEF ReturnsAreApproved
  <2> QED
    BY <2>1, <2>2, Frame
<1> QED
  BY <1>1, <1>2 DEF ReturnsAreApproved, Approved, NowApproved

\* Once a run's validation is on XCom it stays as it is.
LEMMA ValidatedIsFinal ==
  ASSUME TypeOK, NothingBeforeRuns, Ordered, Drafting, XComOfSuccess, [Next]_vars,
         NEW r \in Runs, r = run => task["validate_output"] # "running"
  PROVE  validated'[r] = validated[r]
BY Frame, Returns DEF TypeOK

\* An event is produced for the scenario its run validated, after the gate.
LEMMA EventsStep ==
  ASSUME TypeOK, NothingBeforeRuns, Ordered, PastOnly, Drafting, XComOfSuccess,
         EventsOfRun, [Next]_vars
  PROVE  EventsOfRun'
<1> SUFFICES ASSUME NEW e \in emitted'
             PROVE  /\ e.id = validated'[e.run]
                    /\ e.id # None
                    /\ e.run = run' => /\ task'["validate_output"] = "success"
                                       /\ task'["check_kill_switch"] = "success"
  BY DEF EventsOfRun
<1>1. CASE e \in emitted
  <2>1. e.run \in 1 .. run /\ e.run \in Runs
    BY <1>1, ConstantsOK DEF PastOnly, TypeOK, Runs
  <2>2. e.id = validated'[e.run] /\ e.id # None
    BY <1>1, <2>1, ValidatedIsFinal DEF EventsOfRun
  <2>3. e.run = run' => e.run = run /\ ~NewRun
    BY <2>1, Frame DEF NewRun, TypeOK
  <2> QED
    BY <1>1, <2>2, <2>3, SuccessIsFinal DEF EventsOfRun, Tasks
<1>2. CASE e \notin emitted
  <2>1. /\ ProduceEvent
        /\ e = NextEvent
        /\ run \in Runs
        /\ task["validate_output"] = "success"
        /\ task["check_kill_switch"] = "success"
    BY <1>2, EventsAdded
  <2>2. e.run = run /\ e.id = validated[run] /\ validated' = validated
    BY <2>1 DEF NextEvent, ProduceEvent
  <2>3. validated[run] # None
    BY <2>1 DEF XComOfSuccess, Runs
  <2> QED
    BY <2>1, <2>2, <2>3 DEF ProduceEvent
<1> QED
  BY <1>1, <1>2

\* A record is written after the gate, an injection record after the injection.
LEMMA RecordsStep ==
  ASSUME TypeOK, NothingBeforeRuns, Ordered, PastOnly, Drafting, XComOfSuccess,
         RecordsOfRun, [Next]_vars
  PROVE  RecordsOfRun'
<1> SUFFICES ASSUME NEW r \in auditLog'
             PROVE  /\ r.run = run' => task'["check_kill_switch"] = "success"
                    /\ r.kind = "injection" =>
                         /\ injection'[r.run] = r.id
                         /\ r.id # None
                         /\ r.run = run' => task'["inject_to_kafka"] = "success"
  BY DEF RecordsOfRun
<1>1. CASE r \in auditLog
  <2>1. r.run \in 1 .. run /\ r.run \in Runs
    BY <1>1, ConstantsOK DEF PastOnly, TypeOK, Runs
  <2>2. r.run = run' => r.run = run /\ ~NewRun
    BY <2>1, Frame DEF NewRun, TypeOK
  <2>3. r.kind = "injection" => injection'[r.run] = injection[r.run]
    BY <1>1, <2>1, Frame, Returns DEF RecordsOfRun, TypeOK
  <2> QED
    BY <1>1, <2>2, <2>3, SuccessIsFinal DEF RecordsOfRun, Tasks
<1>2. CASE r \notin auditLog
  <2>1. /\ run' = run
        /\ task' = task
        /\ run \in Runs
        /\ r.run = run
        /\ task["check_kill_switch"] = "success"
        /\ \/ RecordAttempt /\ r = AttemptRecord
           \/ AppendInjectionRecord /\ r = InjectionRecord
    BY <1>2, RecordsAdded
  <2>2. CASE RecordAttempt /\ r = AttemptRecord
    BY <2>1, <2>2 DEF AttemptRecord
  <2>3. CASE AppendInjectionRecord /\ r = InjectionRecord
    <3>1. task["inject_to_kafka"] = "success"
      BY <2>3, UpstreamTasks DEF AppendInjectionRecord, Ordered, Started, Tasks
    <3>2. injection[run] # None
      BY <2>1, <3>1 DEF XComOfSuccess, Runs
    <3> QED
      BY <2>1, <2>3, <3>1, <3>2 DEF AppendInjectionRecord, InjectionRecord
  <2> QED
    BY <2>1, <2>2, <2>3
<1> QED
  BY <1>1, <1>2

\* The first k events of run r have been handed over after the step.
NowHanded(r, k) ==
  \A n \in 1 .. k :
    \E e \in emitted' : e.run = r /\ e.id = validated'[r] /\ e.n = n

\* Later steps take nothing from what a run has handed over.
LEMMA HandedStays ==
  ASSUME TypeOK, NothingBeforeRuns, Ordered, Drafting, XComOfSuccess, [Next]_vars,
         NEW r \in Runs, NEW k \in Nat, Handed(r, k),
         r = run => task["validate_output"] # "running"
  PROVE  NowHanded(r, k)
<1>1. validated'[r] = validated[r]
  BY ValidatedIsFinal
<1>2. emitted \subseteq emitted'
  BY Frame DEF ProduceEvent
<1> QED
  BY <1>1, <1>2 DEF Handed, NowHanded

\* The count of a running injection changes by an event, or ends with it.
LEMMA SentChanges ==
  ASSUME TypeOK, [Next]_vars
  PROVE  \/ ProduceEvent
         \/ sent' = 0
         \/ sent' = sent /\ NewRun
         \/ /\ sent' = sent
            /\ task["inject_to_kafka"] = "running" =>
                 task'["inject_to_kafka"] = "running"
<1> USE DEF TypeOK
<1>1. ASSUME NEW t \in Tasks, Begin(t) \/ Skip(t) \/ Propagate(t)
      PROVE  /\ sent' = sent
             /\ task["inject_to_kafka"] = "running" =>
                  task'["inject_to_kafka"] = "running"
  BY <1>1 DEF Begin, Skip, Propagate, Ready, Tasks
<1> HIDE DEF TypeOK
<1> QED
  BY <1>1 DEF Next, Scheduler, TaskStep, Faults, vars, FlipSwitch,
     FlipMetastore, NewRun, Fault, Fails, Succeeds, ProcessEnds, CheckKillSwitch,
     SelectScenario, StartGeneration, CallModel, RecordAttempt, GenerationRaises,
     FinishGeneration, ValidateOutput, FinishInjection, AppendInjectionRecord,
     FinishAudit, EvaluateDetection

\* The injection's count never runs ahead of the events it has produced.
LEMMA ProgressStep ==
  ASSUME TypeOK, NothingBeforeRuns, Ordered, PastOnly, Drafting, XComOfSuccess,
         XComChain, Progress, [Next]_vars
  PROVE  Progress'
<1>1. task'["inject_to_kafka"] # "running" => sent' = 0
  <2>1. CASE ProduceEvent
    BY <2>1 DEF ProduceEvent
  <2>2. CASE NewRun
    BY <2>2 DEF NewRun, Finished, Settled, NothingBeforeRuns, Progress, Tasks
  <2> QED
    BY <2>1, <2>2, SentChanges DEF Progress
<1>2. ASSUME ~dryRun, sent' > 0 PROVE NowHanded(run', sent')
  <2>1. task'["inject_to_kafka"] = "running"
    BY <1>1, <1>2 DEF TypeOK
  <2>2. CASE ProduceEvent
    <3>1. /\ run \in Runs
          /\ task["validate_output"] = "success"
      BY <2>2, RunningNow, UpstreamTasks DEF ProduceEvent, Tasks, Ordered, Started
    <3>2. /\ run' = run
          /\ validated' = validated
          /\ sent' = sent + 1
          /\ emitted' = emitted \cup {NextEvent}
          /\ sent \in Nat
      BY <1>2, <2>2 DEF ProduceEvent, TypeOK
    <3>3. \A n \in 1 .. sent :
            \E e \in emitted : e.run = run /\ e.id = validated[run] /\ e.n = n
      BY <1>2, <3>2 DEF Progress, Handed
    <3>4. /\ NextEvent.run = run
          /\ NextEvent.id = validated[run]
          /\ NextEvent.n = sent + 1
      BY DEF NextEvent
    <3> QED
      BY <3>2, <3>3, <3>4 DEF NowHanded
  <2>3. CASE ~ProduceEvent
    <3>1. sent' = sent /\ sent > 0 /\ sent \in Nat
      BY <1>2, <2>3, SentChanges DEF TypeOK
    <3>2. task["inject_to_kafka"] = "running"
      BY <3>1 DEF Progress
    <3>3. run' = run /\ run \in Runs
      BY <3>2, Frame, RunningNow
         DEF NewRun, Finished, Settled, NothingBeforeRuns, Tasks, Runs
    <3>4. task["validate_output"] # "running"
      BY <3>2, UpstreamTasks DEF Ordered, Started, Tasks
    <3>5. Handed(run, sent)
      BY <1>2, <3>1 DEF Progress
    <3>6. /\ validated'[run] = validated[run]
          /\ emitted \subseteq emitted'
      BY <3>3, <3>4, ValidatedIsFinal, Frame DEF ProduceEvent
    <3> QED
      BY <3>1, <3>3, <3>5, <3>6 DEF Handed, NowHanded
  <2> QED
    BY <2>2, <2>3
<1>3. ASSUME ~dryRun, NEW r \in Runs, injection'[r] # None
      PROVE  NowHanded(r, NumEvents)
  <2>1. injection[r] # None \/ (FinishInjection /\ r = run)
    BY <1>3, Frame, Returns DEF TypeOK
  <2>2. Handed(r, NumEvents) /\ (r = run => task["validate_output"] # "running")
    <3>1. CASE injection[r] # None
      <4>1. r = run => task["inject_to_kafka"] = "success"
        BY <3>1 DEF XComOfSuccess, Runs
      <4> QED
        BY <1>3, <3>1, <4>1, UpstreamTasks DEF Progress, Ordered, Started, Tasks
    <3>2. CASE FinishInjection /\ r = run
      <4>1. task["inject_to_kafka"] = "running" /\ sent = NumEvents
        BY <3>2 DEF FinishInjection, InjectionDone
      <4>2. task["validate_output"] = "success"
        BY <4>1, UpstreamTasks DEF Ordered, Started, Tasks
      <4>3. Handed(r, NumEvents)
        BY <1>3, <3>2, <4>1 DEF Progress, Handed, TypeOK
      <4> QED
        BY <4>2, <4>3
    <3> QED
      BY <2>1, <3>1, <3>2
  <2> QED
    BY <2>2, HandedStays, ConstantsOK
<1> QED
  BY <1>1, <1>2, <1>3, Frame DEF Progress, Handed, NowHanded

\* The invariant holds before anything runs, and no step breaks it.
LEMMA CycleInvInit == Init => CycleInv
<1> SUFFICES ASSUME Init PROVE CycleInv
  OBVIOUS
<1> USE ConstantsOK DEF Init
<1>1. TypeOK
  BY DEF TypeOK, TaskStates, Draft, NoDraft, Phases, None, ScenarioId, EvalStatus
<1>2. TriesLeft /\ NothingBeforeRuns /\ Ordered /\ PastOnly
  BY DEF TriesLeft, NothingBeforeRuns, Ordered, Started, PastOnly, Tasks
<1>3. XComOfSuccess /\ XComChain /\ Drafting /\ UuidsDiffer
  BY DEF XComOfSuccess, XComChain, Drafting, UuidsDiffer, NoDraft, None
<1>4. ReturnsAreApproved /\ EventsOfRun /\ RecordsOfRun /\ Progress
  BY DEF ReturnsAreApproved, EventsOfRun, RecordsOfRun, Progress, Handed, NoDraft
<1> QED
  BY <1>1, <1>2, <1>3, <1>4 DEF CycleInv

\* No step of the cycle breaks the invariant.
LEMMA CycleInvStep == CycleInv /\ [Next]_vars => CycleInv'
BY TypeStep, TriesStep, BeforeRunsStep, OrderedStep, PastStep, XComOfSuccessStep,
   XComChainStep, DraftingStep, UuidsStep, ReturnsAreApprovedStep, EventsStep,
   RecordsStep, ProgressStep
   DEF CycleInv

----------------------------------------------------------------------------

\* Every reachable state of the attack cycle satisfies its invariant.
THEOREM CycleInvariant == Spec => []CycleInv
BY CycleInvInit, CycleInvStep, PTL DEF Spec

\* Every variable keeps its type: in particular no task is tried more often
\* than its retries allow.
THEOREM TypeCorrect == Spec => []TypeOK
BY CycleInvariant, PTL DEF CycleInv

\* By the invariant an event's scenario is one that generation returned.
LEMMA EventsWereApprovedInv == CycleInv => EventsWereApproved
<1> SUFFICES ASSUME CycleInv, NEW e \in emitted
             PROVE  \E r \in Approvals : r.id.uuid = e.id.uuid
  BY DEF EventsWereApproved
<1>1. e.run \in Runs
  BY ConstantsOK DEF CycleInv, PastOnly, TypeOK, Runs
<1>2. e.id = generation[e.run] /\ generation[e.run] # None
  BY <1>1 DEF CycleInv, EventsOfRun, XComChain
<1> QED
  BY <1>1, <1>2 DEF CycleInv, ReturnsAreApproved, Approved

\* Whatever is retried, crashes or is switched off, no event is produced for a
\* scenario without a recorded attempt that passed validation.
THEOREM ApprovalPrecedesInjection == Spec => []EventsWereApproved
BY CycleInvariant, EventsWereApprovedInv, PTL

\* By the invariant the scenario of an event is that of its run, and runs differ.
LEMMA OneScenarioPerRunInv == CycleInv => OneScenarioPerRun
<1> SUFFICES ASSUME CycleInv, NEW e \in emitted, NEW f \in emitted
             PROVE  e.run = f.run <=> e.id = f.id
  BY DEF OneScenarioPerRun
<1>1. e.run \in Runs /\ f.run \in Runs
  BY ConstantsOK DEF CycleInv, PastOnly, TypeOK, Runs
<1>2. /\ e.id = validated[e.run] /\ e.id = generation[e.run] /\ e.id # None
      /\ f.id = validated[f.run] /\ f.id = generation[f.run] /\ f.id # None
  BY <1>1 DEF CycleInv, EventsOfRun, XComChain
<1> QED
  BY <1>1, <1>2 DEF CycleInv, UuidsDiffer

\* A run never injects two scenarios, and two runs never the same one.
THEOREM RunsInjectOneScenario == Spec => []OneScenarioPerRun
BY CycleInvariant, OneScenarioPerRunInv, PTL

\* By the invariant a finished injection has handed over all its events.
LEMMA AuditedInjectionIsCompleteInv == CycleInv => AuditedInjectionIsComplete
<1> SUFFICES ASSUME CycleInv, NEW r \in InjectionRecords
             PROVE  /\ injection[r.run] = r.id
                    /\ dryRun \/ \A n \in 1 .. NumEvents :
                         \E e \in emitted : e.run = r.run /\ e.id = r.id /\ e.n = n
  BY DEF AuditedInjectionIsComplete
<1>1. r.run \in Runs /\ r \in auditLog /\ r.kind = "injection"
  BY ConstantsOK DEF CycleInv, PastOnly, TypeOK, Runs, InjectionRecords
<1>2. injection[r.run] = r.id /\ r.id # None
  BY <1>1 DEF CycleInv, RecordsOfRun
<1>3. validated[r.run] = r.id
  BY <1>1, <1>2 DEF CycleInv, XComChain
<1> QED
  BY <1>1, <1>2, <1>3 DEF CycleInv, Progress, Handed

\* An injection record names the scenario its run injected, and is written
\* only when every event of it was handed to the producer.
THEOREM AuditTrailIsTrue == Spec => []AuditedInjectionIsComplete
BY CycleInvariant, AuditedInjectionIsCompleteInv, PTL

\* By the invariant a run with an event or a record has passed its gate.
LEMMA SkippedRunIsInertInv == CycleInv => SkippedRunIsInert
BY DEF CycleInv, EventsOfRun, RecordsOfRun, SkippedRunIsInert

\* A run whose gate was skipped leaves no event and no audit record.
THEOREM GateHolds == Spec => []SkippedRunIsInert
BY CycleInvariant, SkippedRunIsInertInv, PTL

\* Without a uuid drawn no scenario is under way, and no run was ever given one.
LEMMA NoUuidNoScenario ==
  ASSUME CycleInv, lastId = 0
  PROVE  /\ draft = NoDraft
         /\ \A r \in Runs : /\ generation[r] = None
                           /\ validated[r] = None
                           /\ injection[r] = None
<1>1. draft = NoDraft
  BY DEF CycleInv, Drafting
<1>2. ASSUME NEW r \in Runs PROVE generation[r] = None
  <2>1. generation[r].uuid \in Nat
    BY DEF CycleInv, TypeOK, ScenarioId
  <2>2. generation[r].uuid <= 0
    BY DEF CycleInv, UuidsDiffer
  <2>3. generation[r].uuid = 0
    BY <2>1, <2>2
  <2> QED
    BY <2>3 DEF CycleInv, UuidsDiffer
<1> QED
  BY <1>1, <1>2 DEF CycleInv, XComChain

\* Inductive beside CycleInv: without the environment no uuid is ever drawn.
NoEnvInv == NothingWithoutEnv /\ (~env => lastId = 0)

LEMMA NoEnvStep == CycleInv /\ NoEnvInv /\ [Next]_vars => NoEnvInv'
<1> SUFFICES ASSUME CycleInv, NoEnvInv, [Next]_vars, ~env'
             PROVE  lastId' = 0 /\ emitted' = {} /\ auditLog' = {}
  BY DEF NoEnvInv, NothingWithoutEnv
<1>1. env' = env
  BY DEF Next, Scheduler, TaskStep, Faults, vars, FlipSwitch, FlipMetastore, NewRun,
     Begin, Skip, Propagate, Fault, Fails, Succeeds, ProcessEnds, CheckKillSwitch,
     SelectScenario, StartGeneration, CallModel, RecordAttempt, GenerationRaises,
     FinishGeneration, ValidateOutput, ProduceEvent, FinishInjection,
     AppendInjectionRecord, FinishAudit, EvaluateDetection
<1>2. lastId = 0 /\ emitted = {} /\ auditLog = {} /\ ~StartGeneration
  BY <1>1 DEF NoEnvInv, NothingWithoutEnv, StartGeneration
<1>3. TypeOK /\ NothingBeforeRuns /\ Ordered /\ Drafting /\ XComOfSuccess
  BY DEF CycleInv
<1>4. ~ProduceEvent
  <2> SUFFICES ASSUME ProduceEvent PROVE FALSE
    OBVIOUS
  <2>1. task["inject_to_kafka"] = "running" /\ "inject_to_kafka" \in Tasks
    BY DEF ProduceEvent, Tasks
  <2>2. run \in Runs /\ task["validate_output"] = "success"
    BY <1>3, <2>1, RunningNow, UpstreamTasks DEF Ordered, Started
  <2>3. validated[run] # None
    BY <1>3, <2>2 DEF XComOfSuccess, Runs
  <2> QED
    BY <1>2, <2>2, <2>3, NoUuidNoScenario
<1>5. ~RecordAttempt
  BY <1>2, NoUuidNoScenario DEF RecordAttempt, NoDraft
<1>6. ~AppendInjectionRecord
  <2> SUFFICES ASSUME AppendInjectionRecord PROVE FALSE
    OBVIOUS
  <2>1. task["log_to_audit"] = "running" /\ "log_to_audit" \in Tasks
    BY DEF AppendInjectionRecord, Tasks
  <2>2. run \in Runs /\ task["inject_to_kafka"] = "success"
    BY <1>3, <2>1, RunningNow, UpstreamTasks DEF Ordered, Started
  <2>3. injection[run] # None
    BY <1>3, <2>2 DEF XComOfSuccess, Runs
  <2> QED
    BY <1>2, <2>2, <2>3, NoUuidNoScenario
<1> QED
  BY <1>2, <1>4, <1>5, <1>6, Frame

\* Where the environment's switch is off nothing is produced and nothing recorded,
\* whatever the Variable says and however often the tasks are retried.
THEOREM NothingRunsWithoutEnv == Spec => []NothingWithoutEnv
<1>1. Init => NoEnvInv
  BY DEF Init, NoEnvInv, NothingWithoutEnv
<1>2. NoEnvInv => NothingWithoutEnv
  BY DEF NoEnvInv
<1> QED
  BY <1>1, <1>2, NoEnvStep, CycleInvariant, PTL DEF Spec

\* What an agent returned has one of the uuids it can draw.
LEMMA ReturnedUuid ==
  ASSUME TypeOK, UuidsDiffer, NEW r \in Runs, generation[r] # None
  PROVE  generation[r].uuid \in Uuids
<1>1. generation[r].uuid \in Nat /\ generation[r].uuid <= lastId
  BY DEF TypeOK, ScenarioId, UuidsDiffer
<1>2. generation[r].uuid # 0
  BY DEF UuidsDiffer
<1> QED
  BY <1>1, <1>2, ConstantsOK DEF TypeOK, Uuids

\* A step of the cycle is a step of the ledger, or none.
LEMMA LedgerStep ==
  ASSUME CycleInv, [Next]_vars
  PROVE  [Ledger!Next]_(Ledger!ledgerVars)
<1> USE DEF CycleInv
<1> DEFINE approvedNow == {r.id.uuid : r \in Approvals}
           publishedNow == {e.id.uuid : e \in emitted}
           closedNow == {injection[r].uuid : r \in {q \in Runs : injection[q] # None}}
           auditedNow == {r.id.uuid : r \in InjectionRecords}
<1>1. CASE ProduceEvent /\ ~dryRun
  <2> DEFINE s == validated[run].uuid
  <2>1. run \in Runs /\ validated[run] # None /\ validated[run] = generation[run]
    BY <1>1, RunningNow, UpstreamTasks
       DEF ProduceEvent, Tasks, Ordered, Started, XComOfSuccess, XComChain, Runs
  <2>2. s \in approvedNow
    BY <2>1 DEF ReturnsAreApproved, Approved
  <2>3. s \notin closedNow
    <3>1. injection[run] = None
      BY <1>1, <2>1 DEF ProduceEvent, XComOfSuccess, Runs
    <3>2. \A q \in Runs : injection[q] # None => /\ injection[q] = generation[q]
                                                 /\ q # run
      BY <3>1 DEF XComChain
    <3> QED
      BY <2>1, <3>2 DEF UuidsDiffer
  <2>4. s \in Uuids
    BY <2>1, ReturnedUuid
  <2>5. publishedNow' = publishedNow \cup {s}
    <3>1. emitted' = emitted \cup {NextEvent} /\ NextEvent.id.uuid = s
      BY <1>1 DEF ProduceEvent, NextEvent
    <3> QED
      BY <3>1
  <2>6. UNCHANGED <<approvedNow, closedNow, auditedNow>>
    BY <1>1 DEF ProduceEvent, Approvals, InjectionRecords
  <2> QED
    BY <2>2, <2>3, <2>4, <2>5, <2>6 DEF Ledger!Next, Ledger!Publish
<1>2. CASE RecordAttempt
  <2>1. /\ auditLog' = auditLog \cup {AttemptRecord}
        /\ AttemptRecord.kind = "attempt"
        /\ AttemptRecord.id.uuid = draft.uuid
    BY <1>2 DEF RecordAttempt, AttemptRecord, RawId
  <2>2. draft.uuid \in Uuids
    BY <1>2, ConstantsOK DEF RecordAttempt, Drafting, NoDraft, TypeOK, Uuids
  <2>3. approvedNow' = approvedNow \/ approvedNow' = approvedNow \cup {draft.uuid}
    <3>1. Approvals' = Approvals \/ Approvals' = Approvals \cup {AttemptRecord}
      BY <2>1 DEF Approvals
    <3> QED
      BY <2>1, <3>1
  <2>4. InjectionRecords' = InjectionRecords
    BY <2>1 DEF InjectionRecords
  <2>5. UNCHANGED <<publishedNow, closedNow, auditedNow>>
    BY <1>2, <2>4 DEF RecordAttempt
  <2> QED
    BY <2>2, <2>3, <2>5 DEF Ledger!Next, Ledger!Approve, Ledger!ledgerVars
<1>3. CASE FinishInjection
  <2> DEFINE s == validated[run].uuid
  <2>1. /\ run \in Runs
        /\ validated[run] # None
        /\ validated[run] = generation[run]
        /\ injection[run] = None
        /\ injection' = [injection EXCEPT ![run] = validated[run]]
    BY <1>3, Returns DEF XComChain, XComOfSuccess, Runs
  <2>2. s \in approvedNow
    BY <2>1 DEF ReturnsAreApproved, Approved
  <2>3. s \notin closedNow
    BY <2>1 DEF UuidsDiffer, XComChain
  <2>4. s \in Uuids
    BY <2>1, ReturnedUuid
  <2>5. closedNow' = closedNow \cup {s}
    <3>1. \A q \in Runs : injection'[q] = IF q = run THEN validated[run] ELSE injection[q]
      BY <2>1 DEF TypeOK
    <3>2. closedNow' \subseteq closedNow \cup {s}
      BY <3>1
    <3>3. closedNow \cup {s} \subseteq closedNow'
      BY <2>1, <3>1
    <3> QED
      BY <3>2, <3>3
  <2>6. UNCHANGED <<approvedNow, publishedNow, auditedNow>>
    BY <1>3 DEF FinishInjection, Succeeds, ProcessEnds, Approvals, InjectionRecords
  <2> QED
    BY <2>2, <2>3, <2>4, <2>5, <2>6 DEF Ledger!Next, Ledger!Close
<1>4. CASE AppendInjectionRecord
  <2>1. /\ auditLog' = auditLog \cup {InjectionRecord}
        /\ InjectionRecord.kind = "injection"
        /\ InjectionRecord.id = injection[run]
        /\ UNCHANGED <<emitted, injection>>
    BY <1>4 DEF AppendInjectionRecord, InjectionRecord
  <2>2. run \in Runs /\ injection[run] # None
    BY <1>4, RunningNow, UpstreamTasks
       DEF AppendInjectionRecord, Tasks, Ordered, Started, XComOfSuccess, Runs
  <2>3. injection[run].uuid \in closedNow
    BY <2>2
  <2>4. injection[run].uuid \in Uuids
    BY <2>2, ReturnedUuid DEF XComChain
  <2>5. InjectionRecords' = InjectionRecords \cup {InjectionRecord}
    BY <2>1 DEF InjectionRecords
  <2>6. auditedNow' = auditedNow \cup {injection[run].uuid}
    BY <2>1, <2>5
  <2>7. Approvals' = Approvals
    BY <2>1 DEF Approvals
  <2>8. UNCHANGED <<approvedNow, publishedNow, closedNow>>
    BY <2>1, <2>7
  <2> QED
    BY <2>3, <2>4, <2>6, <2>8 DEF Ledger!Next, Ledger!Audit
<1>5. CASE UNCHANGED <<emitted, auditLog, injection>>
  BY <1>5 DEF Ledger!ledgerVars, Approvals, InjectionRecords
<1>6. \/ ProduceEvent /\ ~dryRun
      \/ RecordAttempt
      \/ FinishInjection
      \/ AppendInjectionRecord
      \/ UNCHANGED <<emitted, auditLog, injection>>
  BY Frame DEF ProduceEvent, RecordAttempt, FinishInjection, AppendInjectionRecord,
               Succeeds, ProcessEnds
<1> QED
  BY <1>1, <1>2, <1>3, <1>4, <1>5, <1>6

\* The attack cycle implements the ledger: approval before publication,
\* publication before closing, closing before the injection's audit record.
THEOREM CycleImplementsLedger == Spec => LedgerKept
<1>1. Init => Ledger!Init
  BY DEF Init, Ledger!Init, Approvals, InjectionRecords
<1>2. CycleInv /\ [Next]_vars => [Ledger!Next]_(Ledger!ledgerVars)
  BY LedgerStep
<1> QED
  BY <1>1, <1>2, CycleInvariant, PTL DEF Spec, LedgerKept, Ledger!Spec

\* What implements the ledger publishes only what is approved: for the attack cycle
\* that is EventsWereApproved, which LedgerKept thus contains.
THEOREM LedgerMeansApproval == LedgerKept => []EventsWereApproved
<1>1. Ledger!Init => Ledger!PublishedIsApproved
  BY DEF Ledger!Init, Ledger!PublishedIsApproved
<1>2. Ledger!PublishedIsApproved /\ [Ledger!Next]_(Ledger!ledgerVars) => Ledger!PublishedIsApproved'
  <2> SUFFICES ASSUME Ledger!PublishedIsApproved, [Ledger!Next]_(Ledger!ledgerVars)
               PROVE  Ledger!PublishedIsApproved'
    OBVIOUS
  <2>1. CASE UNCHANGED Ledger!ledgerVars
    BY <2>1 DEF Ledger!ledgerVars, Ledger!PublishedIsApproved
  <2>2. CASE Ledger!Next
    BY <2>2 DEF Ledger!Next, Ledger!Approve, Ledger!Publish, Ledger!Close, Ledger!Audit,
                Ledger!PublishedIsApproved
  <2> QED
    BY <2>1, <2>2
<1>3. Ledger!PublishedIsApproved => EventsWereApproved
  BY DEF Ledger!PublishedIsApproved, EventsWereApproved
<1> QED
  BY <1>1, <1>2, <1>3, PTL DEF LedgerKept, Ledger!Spec

----------------------------------------------------------------------------
(* The trail of attempts.                                                   *)

SameTrail == AttemptRecords' = AttemptRecords /\ Approvals' = Approvals

LEMMA TrailChanges ==
  ASSUME [Next]_vars, ~RecordAttempt
  PROVE  SameTrail
<1>1. CASE auditLog' = auditLog
  BY <1>1 DEF SameTrail, AttemptRecords, Approvals
<1>2. CASE AppendInjectionRecord
  <2>1. auditLog' = auditLog \cup {InjectionRecord} /\ InjectionRecord.kind # "attempt"
    BY <1>2 DEF AppendInjectionRecord, InjectionRecord
  <2> QED
    BY <2>1 DEF SameTrail, AttemptRecords, Approvals
<1> QED
  BY <1>1, <1>2, Frame

LEMMA SameAttempts ==
  ASSUME SameTrail
  PROVE  \A u : Attempts(u)' = Attempts(u) /\ (CutOff(u)' <=> CutOff(u))
<1>1. \A u : Attempts(u)' = Attempts(u)
  BY DEF SameTrail, Attempts
<1> QED
  BY <1>1 DEF SameTrail, CutOff

LEMMA OpenCounts ==
  ASSUME TypeOK
  PROVE  IsFiniteSet(LeftOpen) /\ Cardinality(LeftOpen) \in Nat
<1>1. lastId \in Nat
  BY DEF TypeOK
<1>2. IsFiniteSet(1 .. lastId)
  BY <1>1, FS_Interval
<1>3. LeftOpen \subseteq 1 .. lastId
  BY DEF LeftOpen
<1> QED
  BY <1>2, <1>3, FS_Subset, FS_CardinalityType

\* At most one trail more is left open, and only at the cost of a fault.
LEMMA OpenStep ==
  ASSUME TypeOK, faults' \in Nat, Cardinality(LeftOpen) <= faults,
         \/ LeftOpen' \subseteq LeftOpen /\ faults <= faults'
         \/ LeftOpen' \subseteq LeftOpen \cup {draft.uuid} /\ faults' = faults + 1
  PROVE  Cardinality(LeftOpen') <= faults'
<1>1. IsFiniteSet(LeftOpen) /\ Cardinality(LeftOpen) \in Nat /\ faults \in Nat
  BY OpenCounts DEF TypeOK
<1>2. CASE LeftOpen' \subseteq LeftOpen /\ faults <= faults'
  <2>1. Cardinality(LeftOpen') \in Nat /\ Cardinality(LeftOpen') <= Cardinality(LeftOpen)
    BY <1>1, <1>2, FS_Subset, FS_CardinalityType
  <2> QED
    BY <1>1, <1>2, <2>1
<1>3. CASE LeftOpen' \subseteq LeftOpen \cup {draft.uuid} /\ faults' = faults + 1
  <2> DEFINE more == LeftOpen \cup {draft.uuid}
  <2>1. /\ IsFiniteSet(more) /\ Cardinality(more) \in Nat
        /\ Cardinality(more) <= Cardinality(LeftOpen) + 1
    <3>1. /\ IsFiniteSet(more)
          /\ Cardinality(more) =
               IF draft.uuid \in LeftOpen THEN Cardinality(LeftOpen) ELSE Cardinality(LeftOpen) + 1
      BY <1>1, FS_AddElement, Zenon
    <3> QED
      BY <1>1, <3>1
  <2>2. Cardinality(LeftOpen') \in Nat /\ Cardinality(LeftOpen') <= Cardinality(more)
    BY <1>3, <2>1, FS_Subset, FS_CardinalityType
  <2> QED
    BY <1>1, <1>3, <2>1, <2>2
<1> QED
  BY <1>2, <1>3

\* While the agent works no other task does.
LEMMA AgentAlone ==
  ASSUME TypeOK, Ordered, Drafting, draft # NoDraft
  PROVE  /\ task["generate_synthetic_fraud"] = "running"
         /\ \A t \in Tasks \ {"generate_synthetic_fraud"} : task[t] # "running"
<1>1. task["generate_synthetic_fraud"] = "running"
  BY DEF Drafting
<1>2. /\ "select_scenario" \in Upstream("generate_synthetic_fraud")
      /\ "log_to_audit" \in Upstream("trigger_detection_eval")
  BY DEF Upstream, Wiring, Tasks
<1>3. task["check_kill_switch"] = "success" /\ task["select_scenario"] = "success"
  BY <1>1, <1>2, UpstreamTasks DEF Ordered, Started, Tasks
<1>4. task["validate_output"] \notin Started
  BY <1>1, UpstreamTasks DEF Ordered, Tasks
<1>5. task["inject_to_kafka"] \notin Started
  BY <1>4, UpstreamTasks DEF Ordered, Tasks, Started
<1>6. task["log_to_audit"] \notin Started
  BY <1>5, UpstreamTasks DEF Ordered, Tasks, Started
<1>7. task["trigger_detection_eval"] \notin Started
  BY <1>2, <1>6 DEF Ordered, Tasks, Started
<1> QED
  BY <1>1, <1>3, <1>4, <1>5, <1>6, <1>7 DEF Tasks, Started

\* The steps that are not about the agent's records, by what they do to its draft.
DraftStays ==
  /\ UNCHANGED <<draft, lastId, faults>>
  /\ draft # NoDraft => /\ run' = run
                        /\ tries'["generate_synthetic_fraud"] = tries["generate_synthetic_fraud"]

DraftEnds ==
  /\ draft' = NoDraft
  /\ lastId' = lastId
  /\ \/ draft = NoDraft /\ faults' \in {faults, faults + 1}
     \/ draft.phase \in {"approved", "exhausted"} /\ faults' = faults
     \/ draft # NoDraft /\ faults' = faults + 1

LEMMA DraftMoves ==
  ASSUME TypeOK, NothingBeforeRuns, Ordered, Drafting, [Next]_vars, ~RecordAttempt
  PROVE  StartGeneration \/ CallModel \/ DraftStays \/ DraftEnds
<1>1. CASE NewRun
  <2>1. draft = NoDraft
    BY <1>1, AgentAlone DEF NewRun, Finished, Settled, NothingBeforeRuns, Tasks
  <2> QED
    BY <1>1, <2>1 DEF NewRun, DraftStays
<1>2. ASSUME NEW t \in Tasks, Begin(t) \/ Skip(t) \/ Propagate(t) PROVE DraftStays
  <2>1. draft # NoDraft => t # "generate_synthetic_fraud"
    BY <1>2, AgentAlone DEF Begin, Skip, Propagate, Ready
  <2>2. UNCHANGED <<draft, lastId, faults, run>>
    BY <1>2 DEF Begin, Skip, Propagate
  <2>3. draft # NoDraft =>
          tries'["generate_synthetic_fraud"] = tries["generate_synthetic_fraud"]
    BY <1>2, <2>1 DEF Begin, Skip, Propagate, TypeOK, Tasks
  <2> QED
    BY <2>2, <2>3 DEF DraftStays
<1>3. CASE FlipSwitch \/ FlipMetastore \/ ProduceEvent \/ AppendInjectionRecord \/ UNCHANGED vars
  BY <1>3 DEF FlipSwitch, FlipMetastore, ProduceEvent, AppendInjectionRecord, vars, DraftStays
<1>4. CASE GenerationRaises
  BY <1>4 DEF GenerationRaises, Fails, ProcessEnds, DraftEnds
<1>5. CASE FinishGeneration
  BY <1>5 DEF FinishGeneration, GenerationDone, Succeeds, ProcessEnds, DraftEnds
<1>6. CASE \/ CheckKillSwitch \/ SelectScenario \/ ValidateOutput \/ FinishInjection
           \/ FinishAudit \/ EvaluateDetection
  <2>1. draft = NoDraft
    BY <1>6, AgentAlone DEF CheckKillSwitch, SelectScenario, ValidateOutput, FinishInjection,
       FinishAudit, EvaluateDetection, Tasks
  <2> QED
    BY <1>6, <2>1 DEF CheckKillSwitch, SelectScenario, ValidateOutput, FinishInjection,
       FinishAudit, EvaluateDetection, Succeeds, ProcessEnds, DraftEnds
<1>7. ASSUME NEW t \in Tasks, Fault(t) PROVE DraftEnds
  BY <1>7 DEF Fault, Fails, ProcessEnds, DraftEnds
<1> QED
  BY <1>1, <1>2, <1>3, <1>4, <1>5, <1>6, <1>7 DEF Next, Scheduler, TaskStep, Faults

\* A call that drew its uuid has nothing on record yet.
LEMMA NothingRecorded ==
  ASSUME TypeOK, RecordsOfCalls, NEW u \in Nat, u > lastId
  PROVE  Attempts(u) = {}
<1>1. lastId \in Nat
  BY DEF TypeOK
<1>2. \A r \in AttemptRecords : r.id.uuid # u
  BY <1>1 DEF RecordsOfCalls
<1> QED
  BY <1>2 DEF Attempts

\* What a recorded attempt adds to the trail of its call, and to no other.
LEMMA RecordAdds ==
  ASSUME TypeOK, Drafting, TrailInv, RecordAttempt
  PROVE  /\ AttemptRecords' = AttemptRecords \cup {AttemptRecord}
         /\ draft.attempt \in 1 .. MaxAttempts
         /\ Attempts(draft.uuid) = 1 .. draft.attempt - 1
         /\ Attempts(draft.uuid)' = 1 .. draft.attempt
         /\ \A v : v # draft.uuid => Attempts(v)' = Attempts(v) /\ (CutOff(v)' <=> CutOff(v))
         /\ draft'.uuid = draft.uuid /\ draft.uuid \in 1 .. lastId
         /\ UNCHANGED <<lastId, faults, run, tries>>
<1>1. /\ auditLog' = auditLog \cup {AttemptRecord}
      /\ AttemptRecord.kind = "attempt" /\ AttemptRecord.id.uuid = draft.uuid
      /\ AttemptRecord.attempt = draft.attempt
      /\ UNCHANGED <<lastId, faults, run, tries>>
  BY DEF RecordAttempt, AttemptRecord, RawId
<1>2. AttemptRecords' = AttemptRecords \cup {AttemptRecord}
  BY <1>1 DEF AttemptRecords
<1>3. draft.attempt \in 1 .. MaxAttempts /\ Attempts(draft.uuid) = 1 .. draft.attempt - 1
  BY DEF RecordAttempt, TrailInv, TrailOfDraft
<1>4. Attempts(draft.uuid)' = 1 .. draft.attempt
  <2>1. draft'.uuid = draft.uuid
    BY DEF RecordAttempt, TypeOK, Draft
  <2>2. {r.attempt : r \in {q \in AttemptRecords' : q.id.uuid = draft.uuid}}
          = {r.attempt : r \in {q \in AttemptRecords : q.id.uuid = draft.uuid}} \cup {draft.attempt}
    BY <1>1, <1>2
  <2>3. Attempts(draft.uuid)' = Attempts(draft.uuid) \cup {draft.attempt}
    BY <2>1, <2>2 DEF Attempts
  <2> QED
    BY <1>3, <2>3, ConstantsOK
<1>5. ASSUME NEW v, v # draft.uuid
      PROVE  Attempts(v)' = Attempts(v) /\ (CutOff(v)' <=> CutOff(v))
  <2>1. Attempts(v)' = Attempts(v)
    BY <1>1, <1>2, <1>5 DEF Attempts
  <2>2. \A r : r.id.uuid = v => (r \in Approvals' <=> r \in Approvals)
    BY <1>1, <1>5 DEF Approvals
  <2> QED
    BY <2>1, <2>2 DEF CutOff
<1>6. draft'.uuid = draft.uuid /\ draft.uuid \in 1 .. lastId
  <2>1. draft # NoDraft
    BY DEF RecordAttempt, NoDraft
  <2> QED
    BY <2>1 DEF RecordAttempt, TypeOK, Draft, Drafting
<1> QED
  BY <1>1, <1>2, <1>3, <1>4, <1>5, <1>6

LEMMA TrailOfDraftStep ==
  ASSUME CycleInv, TrailInv, [Next]_vars
  PROVE  TrailOfDraft'
<1>t. /\ TypeOK /\ NothingBeforeRuns /\ Ordered /\ Drafting /\ RecordsOfCalls
      /\ draft \in Draft /\ lastId \in Nat
  BY DEF CycleInv, TrailInv, TypeOK
<1>1. CASE RecordAttempt
  <2> DEFINE u == draft.uuid
  <2> DEFINE k == draft.attempt
  <2>1. /\ AttemptRecords' = AttemptRecords \cup {AttemptRecord}
        /\ k \in 1 .. MaxAttempts /\ Attempts(u)' = 1 .. k
        /\ draft'.uuid = u /\ UNCHANGED <<run, tries>>
    BY <1>1, <1>t, RecordAdds
  <2>2. Attempts(draft.uuid)' = 1 .. k
    BY <2>1
  <2>3. draft' # NoDraft =>
          \A r \in AttemptRecords' :
            r.id.uuid = draft'.uuid => r.run = run' /\ r.try = tries'["generate_synthetic_fraud"]
    <3>1. draft # NoDraft
      BY <1>1 DEF RecordAttempt, NoDraft
    <3> QED
      BY <2>1, <3>1 DEF AttemptRecord, TrailInv, TrailOfDraft
  <2>4. CASE draft.phase = "accepted"
    <3>1. draft'.phase = "approved" /\ draft'.attempt = k
      BY <1>1, <1>t, <2>4 DEF RecordAttempt, Draft
    <3>2. AttemptRecord \in Approvals'
      BY <1>1, <2>4 DEF RecordAttempt, Approvals, AttemptRecord
    <3>3. AttemptRecord.id.uuid = u /\ AttemptRecord.attempt = k
      BY DEF AttemptRecord, RawId
    <3> QED
      BY <2>1, <2>2, <2>3, <3>1, <3>2, <3>3 DEF TrailOfDraft
  <2>5. CASE draft.phase # "accepted" /\ k < MaxAttempts
    <3>1. draft'.phase = "calling" /\ draft'.attempt = k + 1
      BY <1>1, <2>5 DEF RecordAttempt
    <3>2. k + 1 \in 1 .. MaxAttempts /\ k + 1 - 1 = k
      BY <2>1, <2>5, ConstantsOK
    <3> QED
      BY <2>1, <2>2, <2>3, <3>1, <3>2 DEF TrailOfDraft
  <2>6. CASE draft.phase # "accepted" /\ ~(k < MaxAttempts)
    <3>1. draft'.phase = "exhausted"
      BY <1>1, <1>t, <2>6 DEF RecordAttempt, Draft
    <3>2. k = MaxAttempts
      BY <2>1, <2>6, ConstantsOK
    <3> QED
      BY <2>1, <2>2, <2>3, <3>1, <3>2 DEF TrailOfDraft
  <2> QED
    BY <2>4, <2>5, <2>6
<1>2. CASE ~RecordAttempt
  <2>1. /\ AttemptRecords' = AttemptRecords /\ Approvals' = Approvals
        /\ \A u : Attempts(u)' = Attempts(u)
    BY <1>2, TrailChanges, SameAttempts DEF SameTrail
  <2>2. CASE StartGeneration
    <3>1. /\ draft'.uuid = lastId + 1 /\ draft'.attempt = 1 /\ draft'.phase = "calling"
      BY <2>2 DEF StartGeneration, NewUuid
    <3>2. Attempts(lastId + 1) = {} /\ \A r \in AttemptRecords : r.id.uuid # lastId + 1
      BY <1>t, NothingRecorded DEF RecordsOfCalls
    <3>3. 1 \in 1 .. MaxAttempts /\ 1 .. 1 - 1 = {}
      BY ConstantsOK
    <3> QED
      BY <2>1, <3>1, <3>2, <3>3 DEF TrailOfDraft
  <2>3. CASE CallModel
    <3>1. /\ draft.phase = "calling" /\ draft # NoDraft /\ draft'.phase \in Replies
          /\ draft'.uuid = draft.uuid /\ draft'.attempt = draft.attempt
          /\ UNCHANGED <<run, tries>>
      BY <1>t, <2>3 DEF CallModel, Draft, NoDraft
    <3> QED
      BY <2>1, <3>1 DEF TrailInv, TrailOfDraft
  <2>4. CASE DraftStays
    BY <2>1, <2>4 DEF DraftStays, TrailInv, TrailOfDraft, NoDraft
  <2>5. CASE DraftEnds
    BY <2>5 DEF DraftEnds, TrailOfDraft, NoDraft
  <2> QED
    BY <1>2, <1>t, <2>2, <2>3, <2>4, <2>5, DraftMoves
<1> QED
  BY <1>1, <1>2

LEMMA RecordsOfCallsStep ==
  ASSUME CycleInv, TrailInv, [Next]_vars
  PROVE  RecordsOfCalls'
<1>t. TypeOK /\ Drafting /\ RecordsOfCalls /\ lastId \in Nat
  BY DEF CycleInv, TrailInv, TypeOK
<1>1. CASE RecordAttempt
  <2>1. /\ AttemptRecords' = AttemptRecords \cup {AttemptRecord}
        /\ draft.uuid \in 1 .. lastId /\ lastId' = lastId
    BY <1>1, <1>t, RecordAdds
  <2>2. AttemptRecord.id = RawId(draft.uuid) /\ AttemptRecord.id.uuid = draft.uuid
    BY DEF AttemptRecord, RawId
  <2> QED
    BY <1>t, <2>1, <2>2 DEF RecordsOfCalls
<1>2. CASE ~RecordAttempt
  <2>1. AttemptRecords' = AttemptRecords
    BY <1>2, TrailChanges DEF SameTrail
  <2>2. lastId' \in Nat /\ lastId <= lastId'
    BY <1>t, Frame DEF StartGeneration, NewUuid
  <2> QED
    BY <1>t, <2>1, <2>2 DEF RecordsOfCalls
<1> QED
  BY <1>1, <1>2

LEMMA TrailsWithoutGaps ==
  ASSUME CycleInv, TrailInv, [Next]_vars, NEW u \in 1 .. lastId'
  PROVE  \E k \in 0 .. MaxAttempts : Attempts(u)' = 1 .. k
<1>t. TypeOK /\ Drafting /\ RecordsOfCalls /\ lastId \in Nat /\ MaxAttempts \in Nat
  BY ConstantsOK DEF CycleInv, TrailInv, TypeOK
<1>1. u \in 1 .. lastId => \E k \in 0 .. MaxAttempts : Attempts(u) = 1 .. k
  BY DEF TrailInv, EveryAttemptIsAudited
<1>2. CASE RecordAttempt
  <2>1. /\ draft.attempt \in 1 .. MaxAttempts /\ Attempts(draft.uuid)' = 1 .. draft.attempt
        /\ draft'.uuid = draft.uuid /\ lastId' = lastId
    BY <1>2, <1>t, RecordAdds
  <2>2. CASE u = draft.uuid
    <3>1. Attempts(u)' = 1 .. draft.attempt /\ draft.attempt \in 0 .. MaxAttempts
      BY <1>t, <2>1, <2>2
    <3> QED
      BY <3>1
  <2>3. CASE u # draft.uuid
    BY <1>1, <1>2, <1>t, <2>1, <2>3, RecordAdds
  <2> QED
    BY <2>2, <2>3
<1>3. CASE ~RecordAttempt
  <2>1. Attempts(u)' = Attempts(u)
    BY <1>3, TrailChanges, SameAttempts
  <2>2. CASE u \in 1 .. lastId
    BY <1>1, <2>1, <2>2
  <2>3. CASE u \notin 1 .. lastId
    <3>1. u \in Nat /\ u > lastId
      BY <1>t, <2>3, Frame DEF StartGeneration, NewUuid
    <3>2. Attempts(u) = {} /\ 1 .. 0 = {} /\ 0 \in 0 .. MaxAttempts
      BY <1>t, <3>1, NothingRecorded
    <3> QED
      BY <2>1, <3>2
  <2> QED
    BY <2>2, <2>3
<1> QED
  BY <1>2, <1>3

LEMMA TrailsOfOneAttempt ==
  ASSUME CycleInv, TrailInv, [Next]_vars, NEW r \in AttemptRecords', NEW q \in AttemptRecords',
         r.id = q.id
  PROVE  r.run = q.run /\ r.try = q.try /\ (r.attempt = q.attempt => r = q)
<1>t. TypeOK /\ Drafting /\ RecordsOfCalls
  BY DEF CycleInv, TrailInv
<1>1. CASE r \in AttemptRecords /\ q \in AttemptRecords
  BY <1>1 DEF TrailInv, EveryAttemptIsAudited
<1>2. CASE RecordAttempt
  <2>1. /\ AttemptRecords' = AttemptRecords \cup {AttemptRecord}
        /\ draft.attempt \in 1 .. MaxAttempts
        /\ Attempts(draft.uuid) = 1 .. draft.attempt - 1
    BY <1>2, <1>t, RecordAdds
  <2>2. /\ AttemptRecord.run = run /\ AttemptRecord.try = tries["generate_synthetic_fraud"]
        /\ AttemptRecord.attempt = draft.attempt /\ AttemptRecord.id.uuid = draft.uuid
    BY DEF AttemptRecord, RawId
  <2>3. draft # NoDraft
    BY <1>2 DEF RecordAttempt, NoDraft
  <2>4. ASSUME NEW p \in AttemptRecords, p.id = AttemptRecord.id
        PROVE  /\ p.run = AttemptRecord.run /\ p.try = AttemptRecord.try
               /\ p.attempt # AttemptRecord.attempt
    <3>1. p.id.uuid = draft.uuid
      BY <2>2, <2>4
    <3>2. p.attempt \in Attempts(draft.uuid)
      BY <3>1 DEF Attempts
    <3>3. p.run = run /\ p.try = tries["generate_synthetic_fraud"]
      BY <2>3, <3>1 DEF TrailInv, TrailOfDraft
    <3> QED
      BY <2>1, <2>2, <3>2, <3>3, ConstantsOK
  <2> QED
    BY <1>1, <2>1, <2>4
<1>3. CASE ~RecordAttempt
  BY <1>1, <1>3, TrailChanges DEF SameTrail
<1> QED
  BY <1>2, <1>3

LEMMA OpenTrailsStep ==
  ASSUME CycleInv, CycleInv', TrailInv, [Next]_vars
  PROVE  Cardinality(LeftOpen') <= faults'
<1>t. /\ TypeOK /\ NothingBeforeRuns /\ Ordered /\ Drafting /\ RecordsOfCalls
      /\ lastId \in Nat /\ faults \in Nat /\ faults' \in Nat /\ MaxAttempts \in Nat
  BY ConstantsOK DEF CycleInv, TrailInv, TypeOK
<1>c. Cardinality(LeftOpen) <= faults
  BY DEF TrailInv, EveryAttemptIsAudited
<1>1. CASE RecordAttempt
  <2>1. /\ \A v : v # draft.uuid => (CutOff(v)' <=> CutOff(v))
        /\ draft'.uuid = draft.uuid /\ UNCHANGED <<lastId, faults>>
    BY <1>1, <1>t, RecordAdds
  <2>2. LeftOpen' \subseteq LeftOpen
    BY <2>1 DEF LeftOpen
  <2> QED
    BY <1>c, <1>t, <2>1, <2>2, OpenStep
<1>2. CASE ~RecordAttempt
  <2>1. \A u : CutOff(u)' <=> CutOff(u)
    BY <1>2, TrailChanges, SameAttempts
  <2>2. CASE StartGeneration
    <3>1. lastId' = lastId + 1 /\ draft'.uuid = lastId + 1 /\ draft.uuid = 0 /\ faults' = faults
      BY <2>2 DEF StartGeneration, NewUuid, NoDraft
    <3>2. LeftOpen' \subseteq LeftOpen
      BY <1>t, <2>1, <3>1 DEF LeftOpen
    <3> QED
      BY <1>c, <1>t, <3>1, <3>2, OpenStep
  <2>3. CASE CallModel \/ DraftStays
    <3>1. draft'.uuid = draft.uuid /\ UNCHANGED <<lastId, faults>>
      BY <1>t, <2>3 DEF CallModel, DraftStays, TypeOK, Draft
    <3>2. LeftOpen' \subseteq LeftOpen
      BY <2>1, <3>1 DEF LeftOpen
    <3> QED
      BY <1>c, <1>t, <3>1, <3>2, OpenStep
  <2>4. CASE DraftEnds
    <3>1. draft'.uuid = 0 /\ lastId' = lastId
      BY <2>4 DEF DraftEnds, NoDraft
    <3>2. LeftOpen' \subseteq LeftOpen \cup {draft.uuid}
      BY <2>1, <3>1 DEF LeftOpen
    <3>3. CASE draft # NoDraft /\ faults' = faults + 1
      BY <1>c, <1>t, <3>2, <3>3, OpenStep
    <3>4. CASE draft = NoDraft /\ faults' \in {faults, faults + 1}
      <4>1. draft.uuid = 0 /\ faults <= faults'
        BY <1>t, <3>4 DEF NoDraft
      <4>2. LeftOpen' \subseteq LeftOpen
        BY <2>1, <3>1, <4>1 DEF LeftOpen
      <4> QED
        BY <1>c, <1>t, <4>1, <4>2, OpenStep
    <3>5. CASE draft.phase \in {"approved", "exhausted"} /\ faults' = faults
      <4>1. ~CutOff(draft.uuid)
        <5>1. CASE draft.phase = "exhausted"
          <6>1. MaxAttempts \in Attempts(draft.uuid)
            BY <1>t, <5>1, ConstantsOK DEF TrailInv, TrailOfDraft
          <6> QED
            BY <6>1 DEF CutOff
        <5>2. CASE draft.phase = "approved"
          <6>1. /\ draft.attempt \in 1 .. MaxAttempts /\ Attempts(draft.uuid) = 1 .. draft.attempt
                /\ \E r \in Approvals : r.id.uuid = draft.uuid /\ r.attempt = draft.attempt
            BY <5>2 DEF TrailInv, TrailOfDraft
          <6>2. draft.attempt + 1 \notin Attempts(draft.uuid)
            BY <1>t, <6>1
          <6> QED
            BY <6>1, <6>2 DEF CutOff
        <5> QED
          BY <3>5, <5>1, <5>2
      <4>2. LeftOpen' \subseteq LeftOpen
        BY <2>1, <3>1, <4>1 DEF LeftOpen
      <4> QED
        BY <1>c, <1>t, <3>5, <4>2, OpenStep
    <3> QED
      BY <2>4, <3>3, <3>4, <3>5 DEF DraftEnds
  <2> QED
    BY <1>2, <1>t, <2>2, <2>3, <2>4, DraftMoves
<1> QED
  BY <1>1, <1>2

LEMMA TrailInvInit == Init => TrailInv
<1> SUFFICES ASSUME Init PROVE TrailInv
  OBVIOUS
<1>1. AttemptRecords = {} /\ draft = NoDraft /\ lastId = 0 /\ faults = 0
  BY DEF Init, AttemptRecords
<1>2. LeftOpen = {}
  BY <1>1 DEF LeftOpen
<1>3. Cardinality(LeftOpen) <= faults
  BY <1>1, <1>2, FS_EmptySet
<1> QED
  BY <1>1, <1>3 DEF TrailInv, TrailOfDraft, RecordsOfCalls, EveryAttemptIsAudited, NoDraft

LEMMA TrailInvStep == CycleInv /\ CycleInv' /\ TrailInv /\ [Next]_vars => TrailInv'
<1> SUFFICES ASSUME CycleInv, CycleInv', TrailInv, [Next]_vars PROVE TrailInv'
  OBVIOUS
<1>1. EveryAttemptIsAudited'
  BY TrailsWithoutGaps, TrailsOfOneAttempt, OpenTrailsStep DEF EveryAttemptIsAudited
<1> QED
  BY <1>1, TrailOfDraftStep, RecordsOfCallsStep DEF TrailInv

\* The trail's own invariant, inductive beside that of the cycle.
THEOREM TrailInvariant == Spec => []TrailInv
BY CycleInvariant, TrailInvInit, TrailInvStep, PTL DEF Spec

\* generate_scenario's promise of a record on every attempt, pass or fail: the trails have
\* neither gaps nor doubles, and no more of them are cut off than task attempts have died.
THEOREM AttemptsAreOnTrail == Spec => []EveryAttemptIsAudited
<1>1. TrailInv => EveryAttemptIsAudited
  BY DEF TrailInv
<1> QED
  BY <1>1, TrailInvariant, PTL

----------------------------------------------------------------------------
(* The cycle with the producers' queues.                                    *)

\* The queues change nothing of the cycle: each step of the composition is one of the
\* cycle, or none.
LEMMA DeliveryStepsAreCycleSteps == [DeliveryNext]_allVars => [Next]_vars
BY DEF DeliveryNext, allVars, Cycle, DeliverEvent, DeliverRecord, Lose

\* So what holds of the cycle holds of the composition.
LEMMA DeliveryKeepsCycle == DeliverySpec => Spec
BY DeliveryStepsAreCycleSteps, PTL DEF DeliverySpec, DeliveryInit, Spec

\* An event in the queue is of the running attempt.
QueuedNow ==
  \A e \in eventQueue : /\ task["inject_to_kafka"] = "running"
                        /\ e.run = run
                        /\ e.try = tries["inject_to_kafka"]
                        /\ e.id = validated[run]

\* The inductive invariant of the composition, beside the cycle's: the events in the
\* queue and on the topics were all produced.
DeliveryInv == QueuedNow /\ eventQueue \cup topics \subseteq emitted

\* An attempt under way keeps its number.
LEMMA TriesWhileRunning ==
  ASSUME TypeOK, [Next]_vars, run' = run, NEW t \in Tasks, task[t] = "running"
  PROVE  tries'[t] = tries[t]
<1>1. ASSUME NEW u \in Tasks, Begin(u) \/ Skip(u) PROVE tries'[t] = tries[t]
  <2>1. u # t
    BY <1>1 DEF Begin, Skip, Ready
  <2>2. tries' = [tries EXCEPT ![u] = tries[u] + 1]
    BY <1>1 DEF Begin, Skip
  <2> QED
    BY <2>1, <2>2 DEF TypeOK
<1>2. CASE NewRun
  BY <1>2 DEF NewRun, TypeOK
<1>3. CASE ~NewRun /\ \A u \in Tasks : ~Begin(u) /\ ~Skip(u)
  BY <1>3 DEF Next, Scheduler, TaskStep, Faults, vars, FlipSwitch, FlipMetastore, Propagate,
     Fault, Succeeds, Fails, ProcessEnds, CheckKillSwitch, SelectScenario, StartGeneration,
     CallModel, RecordAttempt, GenerationRaises, FinishGeneration, ValidateOutput, ProduceEvent,
     FinishInjection, AppendInjectionRecord, FinishAudit, EvaluateDetection
<1> QED
  BY <1>1, <1>2, <1>3

\* What the cycle adds to the queue, and that what was there stays of the running attempt.
LEMMA CycleQueues ==
  ASSUME CycleInv, DeliveryInv, Cycle
  PROVE  DeliveryInv'
<1>t. /\ TypeOK /\ NothingBeforeRuns /\ Ordered /\ Drafting /\ XComOfSuccess
      /\ [Next]_vars
  BY DEF CycleInv, Cycle
<1>1. emitted \subseteq emitted' /\ topics' = topics
  BY Frame, <1>t DEF ProduceEvent, Cycle
<1>2. eventQueue' \cup topics' \subseteq emitted'
  BY <1>1 DEF Cycle, DeliveryInv
<1>3. QueuedNow'
  <2> SUFFICES ASSUME NEW e \in eventQueue'
               PROVE  /\ task'["inject_to_kafka"] = "running"
                      /\ e.run = run'
                      /\ e.try = tries'["inject_to_kafka"]
                      /\ e.id = validated'[run']
    BY DEF QueuedNow
  <2>1. ~AttemptEnds /\ e \in eventQueue \cup (emitted' \ emitted)
    BY DEF Cycle
  <2>2. CASE e \in emitted' \ emitted
    <3>1. ProduceEvent /\ e = NextEvent
      BY <2>2, EventsAdded, <1>t
    <3> QED
      BY <3>1 DEF ProduceEvent, NextEvent
  <2>3. CASE e \in eventQueue
    <3>1. /\ task["inject_to_kafka"] = "running" /\ e.run = run
          /\ e.try = tries["inject_to_kafka"] /\ e.id = validated[run]
      BY <2>3 DEF DeliveryInv, QueuedNow
    <3>2. task'["inject_to_kafka"] = "running"
      BY <2>1, <3>1 DEF AttemptEnds, Tasks
    <3>3. run' = run
      <4>1. ~Finished
        BY <3>1 DEF Finished, Settled, Tasks
      <4>2. run # 0
        BY <3>1, <1>t DEF NothingBeforeRuns, Tasks
      <4> QED
        BY <4>1, <4>2, <1>t, Frame DEF NewRun
    <3>4. tries'["inject_to_kafka"] = tries["inject_to_kafka"]
      BY <3>1, <3>3, <1>t, TriesWhileRunning DEF Tasks
    <3>5. validated'[run] = validated[run]
      <4>1. run \in Runs
        BY <3>1, <1>t, RunningNow DEF Tasks
      <4>2. task["validate_output"] = "success"
        BY <3>1, <1>t, UpstreamTasks DEF Tasks, Ordered, Started
      <4> QED
        BY <4>1, <4>2, <1>t, ValidatedIsFinal
    <3> QED
      BY <3>1, <3>2, <3>3, <3>4, <3>5
  <2> QED
    BY <2>1, <2>2, <2>3
<1> QED
  BY <1>2, <1>3 DEF DeliveryInv

LEMMA DeliveryInvStep == CycleInv /\ DeliveryInv /\ [DeliveryNext]_allVars => DeliveryInv'
<1> SUFFICES ASSUME CycleInv, DeliveryInv, [DeliveryNext]_allVars PROVE DeliveryInv'
  OBVIOUS
<1>1. CASE Cycle
  BY <1>1, CycleQueues
<1>2. CASE DeliverEvent \/ DeliverRecord \/ Lose \/ UNCHANGED allVars
  <2>1. /\ eventQueue' \subseteq eventQueue
        /\ eventQueue' \cup topics' \subseteq eventQueue \cup topics
        /\ UNCHANGED vars
    BY <1>2 DEF DeliverEvent, DeliverRecord, Lose, allVars, deliveryVars
  <2> QED
    BY <2>1 DEF DeliveryInv, QueuedNow, vars
<1> QED
  BY <1>1, <1>2 DEF DeliveryNext

\* The inductive invariant of the cycle with its producers.
THEOREM DeliveryInvariant == DeliverySpec => [](CycleInv /\ DeliveryInv)
<1>1. DeliveryInit => DeliveryInv
  BY DEF DeliveryInit, DeliveryInv, QueuedNow
<1>2. CycleInv /\ DeliveryInv /\ [DeliveryNext]_allVars => DeliveryInv'
  BY DeliveryInvStep
<1>3. DeliverySpec => []CycleInv
  BY DeliveryKeepsCycle, CycleInvariant, PTL
<1> QED
  BY <1>1, <1>2, <1>3, PTL DEF DeliverySpec

\* No ingestion topic ever holds an event of a scenario without a recorded attempt that
\* passed validation, whatever the producers' queues lost.
THEOREM TopicsHoldApproved == DeliverySpec => []TopicsWereApproved
<1>1. CycleInv /\ DeliveryInv => TopicsWereApproved
  BY EventsWereApprovedInv DEF DeliveryInv, EventsWereApproved, TopicsWereApproved
<1> QED
  BY <1>1, DeliveryInvariant, PTL

\* The producers' queues die with their attempt: nothing is delivered for an injection
\* that is over, in a retry, in a later run, or with nothing under way.
THEOREM NothingTricklesIn == DeliverySpec => DeliveriesEndWithAttempt
<1> DEFINE Delivers == \A e \in topics' \ topics :
                         /\ task["inject_to_kafka"] = "running"
                         /\ e.run = run
                         /\ e.try = tries["inject_to_kafka"]
                         /\ e.id = validated[run]
<1>1. CycleInv /\ DeliveryInv /\ [DeliveryNext]_allVars => [Delivers]_allVars
  <2> SUFFICES ASSUME DeliveryInv, DeliveryNext, NEW e \in topics' \ topics
               PROVE  e \in eventQueue
    BY DEF DeliveryInv, QueuedNow
  <2> QED
    BY DEF DeliveryNext, Cycle, DeliverEvent, DeliverRecord, Lose
<1>2. DeliverySpec => [][Delivers]_allVars
  BY <1>1, DeliveryInvariant, PTL DEF DeliverySpec
<1> QED
  BY <1>2 DEF DeliveriesEndWithAttempt

=============================================================================

------------------------- MODULE AttackOrchestratorInv -------------------------
(***************************************************************************)
(* The inductive invariant of AttackOrchestrator: what relates the task     *)
(* states, the XComs, the agent's draft, the events and the audit records   *)
(* to one another at every moment.  TLC checks it on a small instance and   *)
(* AttackOrchestratorProofs proves it for every value of the constants.     *)
(***************************************************************************)
EXTENDS AttackOrchestrator

\* A task that may still start has a try left.
TriesLeft ==
  \A t \in Tasks : /\ task[t] = "none" => tries[t] = 0
                   /\ task[t] = "up_for_retry" => tries[t] <= Retries

\* Before the first run nothing has started.
NothingBeforeRuns == run = 0 => \A t \in Tasks : task[t] = "none"

Started == {"running", "up_for_retry", "success", "failed"}

\* A task that was started had all its upstreams succeed, and they stay so.
Ordered ==
  \A t \in Tasks : task[t] \in Started => \A u \in Upstream(t) : task[u] = "success"

\* Nothing carries the number of a run still to come.
PastOnly ==
  /\ \A e \in emitted : e.run \in 1 .. run
  /\ \A r \in auditLog : r.run \in 1 .. run
  /\ \A r \in Runs : r > run => /\ generation[r] = None
                                /\ validated[r] = None
                                /\ injection[r] = None

\* The run under way has a task's XCom exactly when that task succeeded.
XComOfSuccess ==
  run # 0 =>
    /\ generation[run] # None <=> task["generate_synthetic_fraud"] = "success"
    /\ validated[run] # None <=> task["validate_output"] = "success"
    /\ injection[run] # None <=> task["inject_to_kafka"] = "success"

\* What a task returns is what it was given.
XComChain ==
  \A r \in Runs : /\ validated[r] # None => validated[r] = generation[r]
                  /\ injection[r] # None => injection[r] = validated[r]

\* A draft belongs to the running generation and has the newest uuid.
Drafting ==
  /\ draft.phase = "idle" => draft = NoDraft
  /\ draft # NoDraft => /\ task["generate_synthetic_fraud"] = "running"
                        /\ draft.uuid = lastId
                        /\ lastId # 0
                        /\ \A r \in Runs : generation[r].uuid # lastId

\* No two runs were given the same uuid.
UuidsDiffer ==
  /\ \A r \in Runs : generation[r].uuid <= lastId
  /\ \A r \in Runs : generation[r] # None => generation[r].uuid # 0
  /\ \A r, q \in Runs : /\ generation[r].uuid = generation[q].uuid
                        /\ generation[r] # None
                        /\ generation[q] # None
                        => r = q

Approved(u) == \E r \in Approvals : r.id.uuid = u

\* What the agent returns has an approval on record.
ReturnsAreApproved ==
  /\ draft.phase = "approved" => Approved(draft.uuid)
  /\ \A r \in Runs : generation[r] # None => Approved(generation[r].uuid)

\* An event carries the scenario its run validated, and a run of which
\* anything is on record passed the gate, and its injection validation.
EventsOfRun ==
  \A e \in emitted : /\ e.id = validated[e.run]
                     /\ e.id # None
                     /\ e.run = run => /\ task["validate_output"] = "success"
                                       /\ task["check_kill_switch"] = "success"

RecordsOfRun ==
  \A r \in auditLog :
    /\ r.run = run => task["check_kill_switch"] = "success"
    /\ r.kind = "injection" => /\ injection[r.run] = r.id
                               /\ r.id # None
                               /\ r.run = run => task["inject_to_kafka"] = "success"

\* The first k events of run r were handed over.
Handed(r, k) ==
  \A n \in 1 .. k :
    \E e \in emitted : e.run = r /\ e.id = validated[r] /\ e.n = n

\* The running injection has produced as many events as it has counted, a
\* finished one all of them.
Progress ==
  /\ task["inject_to_kafka"] # "running" => sent = 0
  /\ ~dryRun => /\ sent > 0 => Handed(run, sent)
                /\ \A r \in Runs : injection[r] # None => Handed(r, NumEvents)

\* All of it together: the invariant that makes the safety properties of the
\* attack cycle follow, whatever is retried, killed, skipped or switched off.
CycleInv ==
  /\ TypeOK
  /\ TriesLeft
  /\ NothingBeforeRuns
  /\ Ordered
  /\ PastOnly
  /\ XComOfSuccess
  /\ XComChain
  /\ Drafting
  /\ UuidsDiffer
  /\ ReturnsAreApproved
  /\ EventsOfRun
  /\ RecordsOfRun
  /\ Progress

\* The trail of the call under way: the attempts before the one that is made, or all of
\* them with an approval or the last attempt at the end, by the running task attempt.
TrailOfDraft ==
  /\ draft.phase \in {"calling"} \cup Replies =>
       draft.attempt \in 1 .. MaxAttempts /\ Attempts(draft.uuid) = 1 .. draft.attempt - 1
  /\ draft.phase = "approved" =>
       /\ draft.attempt \in 1 .. MaxAttempts
       /\ Attempts(draft.uuid) = 1 .. draft.attempt
       /\ \E r \in Approvals : r.id.uuid = draft.uuid /\ r.attempt = draft.attempt
  /\ draft.phase = "exhausted" => Attempts(draft.uuid) = 1 .. MaxAttempts
  /\ draft # NoDraft =>
       \A r \in AttemptRecords :
         r.id.uuid = draft.uuid => /\ r.run = run
                                   /\ r.try = tries["generate_synthetic_fraud"]

\* A record is about a call that was made, under the uuid it drew.
RecordsOfCalls ==
  \A r \in AttemptRecords : r.id.uuid \in 1 .. lastId /\ r.id = RawId(r.id.uuid)

\* Inductive beside CycleInv: what makes the trail of attempts complete.
TrailInv == TrailOfDraft /\ RecordsOfCalls /\ EveryAttemptIsAudited

================================================================================

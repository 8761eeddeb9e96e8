----------------------------- MODULE ScoreCache -----------------------------
(***************************************************************************)
(* The Immunity Score of one tenant: the Redis keys it is computed from, the *)
(* Redis cache it is served from, and its history table (ScoreCalculator     *)
(* and the admin, onboarding and score endpoints that use it; every key has  *)
(* the tenant in its name).                                                  *)
(*                                                                           *)
(* The API runs one request at a time (its handlers block the event loop of  *)
(* the single uvicorn process); the DAG tasks that use ScoreCalculator are   *)
(* processes of their own.  Between two Redis commands of one, the other may *)
(* run.  Every Redis key is given the time it has left, and Tick is the      *)
(* clock.                                                                    *)
(***************************************************************************)
EXTENDS Integers, FiniteSets

CONSTANTS
  Api,           \* API processes
  Dag,           \* DAG task processes
  NumTypes,      \* canonical attack types
  Ttl,           \* life of a cached score (IMMUNITY_SCORE_CACHE_TTL_SECONDS)
  Window,        \* life of the scenario keys (_SCENARIO_WINDOW_DAYS)
  DemoCovered,   \* types _DEMO_RECALLS puts above the threshold
  MaxCalls,      \* bound: calls that invalidate the score or change its inputs
  MaxOutages     \* bound: times Redis goes out of reach

ASSUME CacheConstantsOK ==
  /\ Api \cap Dag = {}
  /\ IsFiniteSet(Api) /\ IsFiniteSet(Dag)
  /\ NumTypes \in Nat \ {0}
  /\ Ttl \in Nat \ {0}
  /\ Window \in Nat \ {0}
  /\ DemoCovered \subseteq 1 .. NumTypes
  /\ MaxCalls \in Nat
  /\ MaxOutages \in Nat

Types == 1 .. NumTypes

Procs == Api \cup Dag

VARIABLES
  up,          \* whether Redis answers
  outages,     \* how often it has stopped answering
  calls,       \* calls so far that invalidate the score or change its inputs
  recall,      \* detection_recall per type: none, below the threshold, or not
  recallLeft,  \* life left of that key, and of last_scenario_run, written with it
  tested,      \* the set scenarios_tested_30d
  testedLeft,  \* life left of that set
  cache,       \* immunity_score
  cacheLeft,   \* life left of it
  history,     \* whether immunity_score_history has rows of the tenant
  epoch,       \* ghost: invalidations that have returned
  racing,      \* ghost: processes that were computing when the last one did
  torn,        \* ghost: processes computing with figures that no key bears out: a read
               \* failed, or a key changed and nothing will invalidate the score for it
  worn,        \* ghost: whether the cached score has such figures
  proc         \* what each process is doing

redisVars == <<recall, recallLeft, tested, testedLeft, cache, cacheLeft>>
vars == <<up, outages, calls, recall, recallLeft, tested, testedLeft, cache,
          cacheLeft, history, epoch, racing, torn, worn, proc>>

\* A score is the number of types covered and the number tested (the two other
\* components are read from keys that only seed and reset write), with the
\* epoch in which its inputs were collected and the process that did it.
Payload == [covered : 0 .. NumTypes, diverse : 0 .. NumTypes, asOf : 0 .. MaxCalls,
            by : Procs \cup {"seed"}]

NoScore == [covered |-> 0, diverse |-> 0, asOf |-> 0, by |-> "seed"]

Pcs == {"idle", "invalidate", "lookup", "recalls", "diversity", "store", "persist",
        "reset_cache", "reset_tested", "reset_recalls", "reset_history"}

Proc == [pc : Pcs, next : Types, covered : 0 .. NumTypes,
         diverse : 0 .. NumTypes, asOf : 0 .. MaxCalls]

Idle == [pc |-> "idle", next |-> 1, covered |-> 0, diverse |-> 0, asOf |-> 0]

StateTypeOK ==
  /\ up \in BOOLEAN
  /\ outages \in 0 .. MaxOutages
  /\ calls \in 0 .. MaxCalls
  /\ recall \in [Types -> {"none", "low", "good"}]
  /\ recallLeft \in [Types -> 0 .. Window]
  /\ tested \subseteq Types
  /\ testedLeft \in 0 .. Window
  /\ cache \in Payload
  /\ cacheLeft \in 0 .. Ttl
  /\ history \in BOOLEAN
  /\ epoch \in 0 .. MaxCalls
  /\ racing \subseteq Procs
  /\ proc \in [Procs -> Proc]

TypeOK == StateTypeOK /\ torn \subseteq Procs /\ worn \in BOOLEAN

Init ==
  /\ up = TRUE
  /\ outages = 0
  /\ calls = 0
  /\ recall = [a \in Types |-> "none"]
  /\ recallLeft = [a \in Types |-> 0]
  /\ tested = {}
  /\ testedLeft = 0
  /\ cache = NoScore
  /\ cacheLeft = 0
  /\ history = FALSE
  /\ epoch = 0
  /\ racing = {}
  /\ torn = {}
  /\ worn = FALSE
  /\ proc = [p \in Procs |-> Idle]

----------------------------------------------------------------------------
(* The environment: the clock and Redis.                                    *)

Less(left) == IF left > 0 THEN left - 1 ELSE 0

Computing(p) == proc[p].pc \in {"recalls", "diversity", "store"}

\* What the model notes when keys have changed and nothing will invalidate the score.
NotesSilence == torn' = {p \in Procs : Computing(p)} /\ worn' = (cacheLeft' > 0)

NotesChange ==
  IF recall' = recall /\ tested' = tested THEN UNCHANGED <<torn, worn>> ELSE NotesSilence

\* Time passes, and keys expire; an expired set is an empty set.
Tick ==
  /\ recall' = [a \in Types |-> IF recallLeft[a] <= 1 THEN "none" ELSE recall[a]]
  /\ recallLeft' = [a \in Types |-> Less(recallLeft[a])]
  /\ testedLeft' = Less(testedLeft)
  /\ tested' = IF testedLeft <= 1 THEN {} ELSE tested
  /\ cacheLeft' = Less(cacheLeft)
  /\ cache' = IF cacheLeft <= 1 THEN NoScore ELSE cache
  /\ NotesChange
  /\ UNCHANGED <<up, outages, calls, history, epoch, racing, proc>>

RedisFails ==
  /\ up
  /\ outages < MaxOutages
  /\ up' = FALSE
  /\ outages' = outages + 1
  /\ UNCHANGED <<calls, redisVars, history, epoch, racing, torn, worn, proc>>

RedisReturns ==
  /\ ~up
  /\ up' = TRUE
  /\ UNCHANGED <<outages, calls, redisVars, history, epoch, racing, torn, worn, proc>>

Goes(p, state) == proc' = [proc EXCEPT ![p] = state]

Pc(p, place) == [proc[p] EXCEPT !.pc = place]

----------------------------------------------------------------------------
(* get_score.                                                               *)

\* A request arrives at the API, or compute_baseline_score goes on to
\* get_score.  A hit is answered; a miss, or a cache that cannot be read, starts
\* a computation.
Lookup(p) ==
  /\ proc[p].pc = "lookup" \/ (proc[p].pc = "idle" /\ p \in Api)
  /\ Goes(p, IF up /\ cacheLeft > 0 THEN Idle
             ELSE [Idle EXCEPT !.pc = "recalls", !.asOf = epoch])
  /\ UNCHANGED <<up, outages, calls, redisVars, history, epoch, racing, torn, worn>>

Covers(a) == recall[a] = "good"

\* Mutant: the loop over the attack types runs one too far.
LastType_TooFar(a) == a > NumTypes

LastType(a) == a = NumTypes

\* What the model notes when a read has failed.
NotesRead(p) == torn' = IF up THEN torn ELSE torn \cup {p}

\* One GET of _fetch_detection_recalls; an exception zeroes all the recalls.
ReadRecall(p) ==
  /\ proc[p].pc = "recalls"
  /\ LET s == proc[p]
         a == s.next
         n == s.covered + (IF Covers(a) THEN 1 ELSE 0)
     IN  Goes(p, IF ~up THEN [s EXCEPT !.pc = "diversity", !.covered = 0]
                 ELSE IF LastType(a) THEN [s EXCEPT !.pc = "diversity", !.covered = n]
                 ELSE [s EXCEPT !.next = a + 1, !.covered = n])
  /\ NotesRead(p)
  /\ UNCHANGED <<up, outages, calls, redisVars, history, epoch, racing, worn>>

\* SMEMBERS of _fetch_scenario_diversity; an exception empties the set.
ReadTested(p) ==
  /\ proc[p].pc = "diversity"
  /\ Goes(p, [proc[p] EXCEPT !.pc = "store",
                             !.diverse = IF up THEN Cardinality(tested) ELSE 0])
  /\ NotesRead(p)
  /\ UNCHANGED <<up, outages, calls, redisVars, history, epoch, racing, worn>>

Computed(p) == [covered |-> proc[p].covered, diverse |-> proc[p].diverse,
                asOf |-> proc[p].asOf, by |-> p]

\* _set_cached: SETEX, whatever has become of the inputs since.
Store(p) ==
  /\ proc[p].pc = "store"
  /\ cache' = IF up THEN Computed(p) ELSE cache
  /\ cacheLeft' = IF up THEN Ttl ELSE cacheLeft
  /\ Goes(p, [Idle EXCEPT !.pc = "persist"])
  /\ torn' = torn \ {p}
  /\ worn' = IF up THEN p \in torn ELSE worn
  /\ UNCHANGED <<up, outages, calls, recall, recallLeft, tested, testedLeft,
                 history, epoch, racing>>

\* _persist_score: one row, or none if PostgreSQL cannot be reached.
Persist(p) ==
  /\ proc[p].pc = "persist"
  /\ history' \in {history, TRUE}
  /\ Goes(p, Idle)
  /\ UNCHANGED <<up, outages, calls, redisVars, epoch, racing, torn, worn>>

----------------------------------------------------------------------------
(* The operations that invalidate the score or change its inputs.           *)

\* Mutant: another tenant's key is deleted.
DropsScore_Other == UNCHANGED <<cache, cacheLeft>>

DropsScore == cache' = NoScore /\ cacheLeft' = 0

\* What the model notes when a call has invalidated the score.
NotesInvalidation ==
  /\ epoch' = epoch + 1
  /\ racing' = {p \in Procs : Computing(p)}
  /\ worn' = FALSE
  /\ UNCHANGED torn

\* invalidate_cache by process p, which then goes on in the given state; an exception is
\* logged, and a change it would have announced stays unannounced.
Invalidates(p, state) ==
  /\ IF up THEN DropsScore /\ NotesInvalidation
           ELSE /\ UNCHANGED <<cache, cacheLeft, epoch, racing>>
                /\ IF proc[p].pc = "invalidate" THEN NotesSilence ELSE UNCHANGED <<torn, worn>>
  /\ Goes(p, state)
  /\ UNCHANGED <<up, outages, recall, recallLeft, tested, testedLeft, history>>

\* A call that invalidates the score or changes its inputs begins.
Calls(p) ==
  /\ proc[p].pc = "idle"
  /\ calls < MaxCalls
  /\ calls' = calls + 1

\* POST /cache/invalidate.
InvalidateRequest(p) ==
  /\ p \in Api
  /\ Calls(p)
  /\ Invalidates(p, Idle)

\* compute_baseline_score: invalidate_cache, then get_score.
StartBaseline(p) ==
  /\ p \in Dag
  /\ Calls(p)
  /\ Invalidates(p, Pc(p, "lookup"))

\* Mutant: the set keeps the expiry its first member gave it.
TestedLife_First == IF testedLeft > 0 THEN testedLeft ELSE Window

TestedLife == Window

\* Mutant: the score is not invalidated.
AfterRecording_Nothing(p) == Idle

AfterRecording(p) == Pc(p, "invalidate")

\* record_scenario_run: the pipeline (MULTI/EXEC), then the invalidation.
RecordRun(p) ==
  /\ p \in Dag
  /\ Calls(p)
  /\ up
  /\ \E a \in Types, r \in {"low", "good"} :
       /\ recall' = [recall EXCEPT ![a] = r]
       /\ recallLeft' = [recallLeft EXCEPT ![a] = Window]
       /\ tested' = tested \cup {a}
       /\ testedLeft' = TestedLife
  /\ Goes(p, AfterRecording(p))
  /\ UNCHANGED <<up, outages, cache, cacheLeft, history, epoch, racing, torn, worn>>

FinishRecord(p) ==
  /\ proc[p].pc = "invalidate"
  /\ Invalidates(p, Idle)
  /\ UNCHANGED calls

\* POST /seed: one pipeline of SETEXs, SADDs and the DEL of the cached score,
\* then the demonstration rows of the history.
Seed(p) ==
  /\ p \in Api
  /\ Calls(p)
  /\ IF up
       THEN /\ recall' = [a \in Types |-> IF a \in DemoCovered THEN "good" ELSE "low"]
            /\ recallLeft' = [a \in Types |-> Window]
            /\ tested' = Types
            /\ testedLeft' = Window
            /\ DropsScore
            /\ NotesInvalidation
       ELSE UNCHANGED <<redisVars, epoch, racing, torn, worn>>
  /\ history' \in {history, TRUE}
  /\ UNCHANGED <<up, outages, proc>>

\* POST /reset: the keys go one by one, the cached score first; an exception
\* ends the Redis part, and the history is deleted all the same.
StartReset(p) ==
  /\ p \in Api
  /\ Calls(p)
  /\ Goes(p, Pc(p, "reset_cache"))
  /\ UNCHANGED <<up, outages, redisVars, history, epoch, racing, torn, worn>>

\* Where the reset goes on: in the given state, or, Redis having raised, with the
\* history.
OrHistory(state) == IF up THEN state ELSE [Idle EXCEPT !.pc = "reset_history"]

ResetCache(p) ==
  /\ proc[p].pc = "reset_cache"
  /\ Invalidates(p, OrHistory(Pc(p, "reset_tested")))
  /\ UNCHANGED calls

ResetTested(p) ==
  /\ proc[p].pc = "reset_tested"
  /\ tested' = IF up THEN {} ELSE tested
  /\ testedLeft' = IF up THEN 0 ELSE testedLeft
  /\ Goes(p, OrHistory(Pc(p, "reset_recalls")))
  /\ UNCHANGED <<recall, recallLeft, cache, cacheLeft>>
  /\ NotesChange
  /\ UNCHANGED <<up, outages, calls, history, epoch, racing>>

ResetRecall(p) ==
  /\ proc[p].pc = "reset_recalls"
  /\ LET a == proc[p].next
     IN  /\ recall' = IF up THEN [recall EXCEPT ![a] = "none"] ELSE recall
         /\ recallLeft' = IF up THEN [recallLeft EXCEPT ![a] = 0] ELSE recallLeft
         /\ Goes(p, OrHistory(IF LastType(a)
                                THEN [Idle EXCEPT !.pc = "reset_history"]
                                ELSE [proc[p] EXCEPT !.next = a + 1]))
  /\ UNCHANGED <<tested, testedLeft, cache, cacheLeft>>
  /\ NotesChange
  /\ UNCHANGED <<up, outages, calls, history, epoch, racing>>

ResetHistory(p) ==
  /\ proc[p].pc = "reset_history"
  /\ history' \in {history, FALSE}
  /\ Goes(p, Idle)
  /\ UNCHANGED <<up, outages, calls, redisVars, epoch, racing, torn, worn>>

----------------------------------------------------------------------------

\* A process is killed in the middle of a call, before an invalidation for one.
Crash(p) ==
  /\ proc[p].pc # "idle"
  /\ Goes(p, Idle)
  /\ UNCHANGED <<up, outages, calls, redisVars, history, epoch, racing>>
  /\ IF proc[p].pc = "invalidate" THEN NotesSilence ELSE torn' = torn \ {p} /\ UNCHANGED worn

\* The steps of a call that is under way.
Continue(p) ==
  \/ proc[p].pc = "lookup" /\ Lookup(p)
  \/ ReadRecall(p)
  \/ ReadTested(p)
  \/ Store(p)
  \/ Persist(p)
  \/ FinishRecord(p)
  \/ ResetCache(p)
  \/ ResetTested(p)
  \/ ResetRecall(p)
  \/ ResetHistory(p)

\* The steps that begin one.
Call(p) ==
  \/ Lookup(p)
  \/ InvalidateRequest(p)
  \/ StartBaseline(p)
  \/ RecordRun(p)
  \/ Seed(p)
  \/ StartReset(p)

Next ==
  \/ Tick
  \/ RedisFails
  \/ RedisReturns
  \/ \E p \in Procs : Continue(p) \/ Call(p) \/ Crash(p)

Spec == Init /\ [][Next]_vars

----------------------------------------------------------------------------
(* Properties.                                                              *)

\* Only a computation that was under way when the last invalidation returned
\* can bring back a score collected before it.
OnlyRacesReviveScores ==
  cacheLeft > 0 /\ cache.asOf < epoch => cache.by \in racing

\* A type never drops out of the tested set while its recall is on file, short
\* of a reset: each recording renews the set for as long as any of its keys.
TestedOutlivesRecall ==
  [][\A a \in Types :
       (a \in tested /\ recallLeft[a] > 0 /\ recallLeft'[a] > 0) =>
         (a \in tested' \/ \E p \in Api : ResetTested(p))]_vars

StaleScore ==
  /\ cacheLeft > 0
  /\ \/ cache.covered # Cardinality({a \in Types : Covers(a)})
     \/ cache.diverse # Cardinality(tested)

\* A cached score that does not agree with the keys has one of three causes: a recording
\* that has yet to invalidate it, a computation that the last invalidation overtook, or a
\* read that failed or a change nothing announced (keys that expired or that a reset
\* deletes after the score, an invalidation that failed or whose process died).  A
\* recording that is done leaves no other.
StaleScoresHaveACause ==
  StaleScore => \/ \E p \in Procs : proc[p].pc = "invalidate"
                \/ cache.asOf < epoch /\ cache.by \in racing
                \/ worn

=============================================================================

---------------------------- MODULE ScenarioLibrary ----------------------------
(***************************************************************************)
(* The scenario library, a directory of YAML files, and the weekly         *)
(* scenario_generator DAG that adds to it: audit_library, generate_variants*)
(* (attacker agents with a share of the budget each, and up to three model *)
(* calls per variant), write_new_configs and report_coverage.  A task      *)
(* whose attempt raises or dies is tried again; one run is active.  A file  *)
(* is named after the UTC date of the attempt that writes it, the attack   *)
(* type and the first characters of the scenario's id.                     *)
(***************************************************************************)
EXTENDS Integers, Sequences, FiniteSets

CONSTANTS
  Known,       \* attack types ScenarioYamlConfig accepts
  Invented,    \* attack types a model may answer with besides, fit for a file name
  Unwritable,  \* one that is not: it holds a slash
  NumAgents,   \* length of _KNOWN_ATTACK_TYPES
  PerAgent,    \* _VARIANTS_PER_TYPE
  Budget,      \* budget_usd of one agent
  Estimate,    \* projected_additional of the check before a scenario
  MaxCost,     \* what a call may cost at most
  Calls,       \* _MAX_RETRIES of generate_scenario
  Retries,     \* retries of a task
  Shipped,     \* files the repository comes with
  MaxDays,     \* bound: dates
  MaxRuns,     \* bound: runs of the DAG
  MaxFaults    \* bound: dying workers

ASSUME LibraryConstantsOK ==
  /\ IsFiniteSet(Known) /\ IsFiniteSet(Invented)
  /\ Unwritable \notin Known \cup Invented
  /\ NumAgents \in Nat \ {0} /\ PerAgent \in Nat \ {0}
  /\ Budget \in Nat /\ Estimate \in Nat /\ Estimate <= Budget
  /\ MaxCost \in Nat \ {0} /\ Calls \in Nat \ {0}
  /\ Retries \in Nat /\ Shipped \in Nat
  /\ MaxDays \in Nat \ {0} /\ MaxRuns \in Nat /\ MaxFaults \in Nat

NumVariants == NumAgents * PerAgent

\* What the rest of a run depends on of a scenario: its attack_type, and whether strip_pii
\* took the first group of its id, eight digits, for an account number.
Scenarios == [type : Known \cup Invented \cup {Unwritable}, redacted : BOOLEAN]

\* The files a run writes: date, attack type and id.  The first characters of two ids
\* are taken to differ, but every redacted id begins with the same ones, 0 here.
Names == (1 .. MaxDays) \X (Known \cup Invented) \X (0 .. NumVariants)

VARIABLES
  day,       \* the UTC date
  library,   \* how many loadable files there are besides those in file
  broken,    \* how many that do not load
  pc,        \* the running task
  tries,     \* attempts of it that have failed
  agent,     \* generate_variants: which agent,
  variant,   \* which of its variants,
  call,      \* how many calls for it,
  spent,     \* _total_cost_usd of the agent,
  made,      \* how many scenarios so far
  variants,  \* what generate_variants returned
  next,      \* write_new_configs: which variant,
  date,      \* and its date_tag; 0 before it is read
  file,      \* the files of this run, and those of others it may overwrite
  before,    \* total_existing of the audit
  report,    \* between runs, how the last one ended and what it reported
  billed,    \* ghost: what the calls of the run have cost, while it makes any
  dates,     \* ghost: the date_tags its attempts at write_new_configs have read
  runs,
  faults

attemptVars == <<agent, variant, call, spent, made, next, date>>
vars == <<day, library, broken, pc, tries, agent, variant, call, spent, made, variants, next,
          date, file, before, report, billed, dates, runs, faults>>

NoReport == [ended |-> "none", total |-> 0, new |-> 0]
Outcomes == [ended : {"none", "failed", "skipped", "reported"}, total : Nat, new : Nat]

\* An agent is stopped once it cannot afford the estimate, and may pay for Calls calls then.
AgentBound == Budget - Estimate + Calls * MaxCost

TypeOK ==
  /\ day \in 1 .. MaxDays
  /\ library \in Nat /\ broken \in Nat
  /\ pc \in {"idle", "audit", "generate", "write", "report"}
  /\ tries \in 0 .. Retries
  /\ agent \in 1 .. NumAgents + 1
  /\ variant \in 1 .. PerAgent
  /\ call \in 0 .. Calls
  /\ spent \in 0 .. AgentBound
  /\ made \in Nat
  /\ variants \in Seq(Scenarios)
  /\ next \in Nat \ {0}
  /\ date \in 0 .. MaxDays
  /\ file \in [Names -> {"absent", "partial", "whole"}]
  /\ before \in Nat
  /\ report \in Outcomes
  /\ billed \in Nat
  /\ dates \in SUBSET (1 .. MaxDays)
  /\ runs \in 0 .. MaxRuns
  /\ faults \in 0 .. MaxFaults

Init ==
  /\ day = 1
  /\ library = Shipped
  /\ broken = 0
  /\ pc = "idle"
  /\ tries = 0
  /\ agent = 1 /\ variant = 1 /\ call = 0 /\ spent = 0 /\ made = 0
  /\ variants = <<>>
  /\ next = 1 /\ date = 0
  /\ file = [n \in Names |-> "absent"]
  /\ before = 0
  /\ report = NoReport
  /\ billed = 0
  /\ dates = {}
  /\ runs = 0
  /\ faults = 0

----------------------------------------------------------------------------
(* The directory.                                                           *)

\* Mutant: the id is left out of the name.
Name_WithoutId(d, i) == <<d, variants[i].type, 0>>

\* The name of the i-th variant's file under a date_tag.
Name(d, i) == <<d, variants[i].type, IF variants[i].redacted THEN 0 ELSE i>>

Good(disk) == {n \in Names : disk[n] = "whole" /\ n[2] \in Known}
Spoilt(disk) == {n \in Names : disk[n] # "absent"} \ Good(disk)

\* load_all_scenarios raises on the first file it cannot load.
Loads == broken = 0 /\ Spoilt(file) = {}

Total(disk) == library + Cardinality(Good(disk))

----------------------------------------------------------------------------
(* A run.                                                                   *)

\* The locals of a task's next attempt, or of its first.
Afresh ==
  /\ agent' = 1 /\ variant' = 1 /\ call' = 0 /\ spent' = 0 /\ made' = 0
  /\ next' = 1 /\ date' = 0

StartRun ==
  /\ pc = "idle"
  /\ runs < MaxRuns
  /\ runs' = runs + 1
  /\ pc' = "audit"
  /\ report' = NoReport
  /\ UNCHANGED <<day, library, broken, tries, attemptVars, variants, file, before, billed, dates,
                 faults>>

MovesOn(to) ==
  /\ pc' = to
  /\ tries' = 0
  /\ Afresh
  /\ billed' = 0
  /\ UNCHANGED <<day, library, broken, report, dates, runs>>

\* What the run wrote stays in the directory, whatever became of the run; a file with a
\* redacted id another run of the day may write again.
EndRun(ended, disk) ==
  /\ pc' = "idle"
  /\ tries' = 0
  /\ Afresh
  /\ library' = library + Cardinality({n \in Good(disk) : n[3] # 0})
  /\ broken' = broken + Cardinality(Spoilt(disk))
  /\ report' = [ended |-> ended,
                total |-> IF ended = "reported" THEN Total(disk) ELSE 0,
                new |-> IF ended = "reported" THEN Len(variants) ELSE 0]
  /\ variants' = <<>>
  /\ file' = [n \in Names |-> IF n \in Good(disk) /\ n[3] = 0 THEN "whole" ELSE "absent"]
  /\ before' = 0
  /\ billed' = 0
  /\ dates' = {}
  /\ UNCHANGED <<day, runs>>

\* Mutant: the limit is compared off by one.
MayRetry_OneMore == tries <= Retries

MayRetry == tries < Retries

\* An attempt raises or dies; disk is what it leaves of the files.
AttemptFails(disk) ==
  IF MayRetry
  THEN /\ tries' = tries + 1
       /\ Afresh
       /\ file' = disk
       /\ UNCHANGED <<day, library, broken, pc, variants, before, report, billed, dates, runs>>
  ELSE EndRun("failed", disk)

\* write_new_configs is at a variant.
Writing == pc = "write" /\ date # 0 /\ next \in DOMAIN variants

\* A worker that dies writing leaves the file cut off: the open truncated it.
WorkerDies ==
  /\ pc # "idle"
  /\ faults < MaxFaults
  /\ faults' = faults + 1
  /\ \/ AttemptFails(file)
     \/ Writing /\ variants[next].type # Unwritable
        /\ AttemptFails([file EXCEPT ![Name(date, next)] = "partial"])

\* assert_red_team_enabled, the first statement of three of the tasks.
Skipped ==
  /\ pc \in {"audit", "generate", "write"}
  /\ agent = 1 /\ variant = 1 /\ call = 0 /\ date = 0
  /\ EndRun("skipped", file)
  /\ UNCHANGED faults

AuditLibrary ==
  /\ pc = "audit"
  /\ \/ /\ Loads
        /\ before' = Total(file)
        /\ MovesOn("generate")
        /\ UNCHANGED <<variants, file>>
     \/ ~Loads /\ AttemptFails(file)
  /\ UNCHANGED faults

----------------------------------------------------------------------------
(* generate_variants and generate_scenario.                                 *)

Generating == pc = "generate" /\ agent <= NumAgents

generateOnly == <<day, library, broken, pc, tries, variants, next, date, file, before, report,
                  dates, runs, faults>>

\* Mutant: the loop goes on until it has as many variants as it wants.
NextVariant_UntilEnough ==
  call' = 0 /\ UNCHANGED <<agent, variant, spent>>

\* The other agents have spent nothing yet.
NextVariant ==
  /\ call' = 0
  /\ IF variant < PerAgent
     THEN variant' = variant + 1 /\ UNCHANGED <<agent, spent>>
     ELSE variant' = 1 /\ agent' = agent + 1 /\ spent' = 0

\* Mutant: what the agent has spent is not counted.
Affordable_Alone == Estimate <= Budget

Affordable == spent + Estimate <= Budget

\* The check comes once, before the first of the calls.
MayCall ==
  /\ Generating
  /\ call < Calls
  /\ call = 0 => Affordable

CallRaises ==
  /\ MayCall
  /\ call' = call + 1
  /\ UNCHANGED <<generateOnly, agent, variant, spent, made, billed>>

AnswerIsInvalid(cost) ==
  /\ MayCall
  /\ call' = call + 1
  /\ spent' = spent + cost
  /\ billed' = billed + cost
  /\ UNCHANGED <<generateOnly, agent, variant, made>>

AnswerIsValid(cost) ==
  /\ MayCall
  /\ made' = made + 1
  /\ billed' = billed + cost
  /\ call' = 0
  /\ IF variant < PerAgent
     THEN variant' = variant + 1 /\ spent' = spent + cost /\ UNCHANGED agent
     ELSE variant' = 1 /\ agent' = agent + 1 /\ spent' = 0
  /\ UNCHANGED generateOnly

\* Over budget, or out of calls: the error is logged and the loop goes on.
VariantFails ==
  /\ Generating
  /\ call = Calls \/ (call = 0 /\ ~Affordable)
  /\ NextVariant
  /\ UNCHANGED <<generateOnly, made, billed>>

\* What the scenarios are is drawn here, where it begins to matter: the validators ask no
\* more of attack_type than that it is not empty.
FinishGenerate ==
  /\ pc = "generate"
  /\ agent > NumAgents
  /\ variants' \in [1 .. made -> Scenarios]
  /\ MovesOn("write")
  /\ UNCHANGED <<file, before, faults>>

GenerateVariants ==
  \/ CallRaises
  \/ \E cost \in 1 .. MaxCost :
       AnswerIsInvalid(cost) \/ AnswerIsValid(cost)
  \/ VariantFails
  \/ FinishGenerate

----------------------------------------------------------------------------
(* write_new_configs and report_coverage.                                   *)

\* date_tag = datetime.utcnow(), once in every attempt.
ReadDate ==
  /\ pc = "write"
  /\ date = 0
  /\ date' = day
  /\ dates' = dates \cup {day}
  /\ UNCHANGED <<day, library, broken, pc, tries, agent, variant, call, spent, made, variants,
                 next, file, before, report, billed, runs, faults>>

\* Whatever has the name is overwritten: what an earlier attempt wrote on the same date,
\* and what another variant or run did under a redacted id.
WriteConfig ==
  /\ Writing
  /\ IF variants[next].type = Unwritable
     THEN AttemptFails(file)
     ELSE /\ file' = [file EXCEPT ![Name(date, next)] = "whole"]
          /\ next' = next + 1
          /\ UNCHANGED <<day, library, broken, pc, tries, agent, variant, call, spent, made,
                         variants, date, before, report, billed, dates, runs>>
  /\ UNCHANGED faults

FinishWrite ==
  /\ pc = "write"
  /\ date # 0
  /\ next > Len(variants)
  /\ MovesOn("report")
  /\ UNCHANGED <<variants, file, before, faults>>

ReportCoverage ==
  /\ pc = "report"
  /\ IF Loads THEN EndRun("reported", file) ELSE AttemptFails(file)
  /\ UNCHANGED faults

\* Somebody removes what does not load.
OperatorCleans ==
  /\ pc = "idle"
  /\ broken > 0
  /\ broken' = 0
  /\ UNCHANGED <<day, library, pc, tries, attemptVars, variants, file, before, report, billed, dates,
                 runs, faults>>

\* Midnight, at any time.
NextDay ==
  /\ day < MaxDays
  /\ day' = day + 1
  /\ UNCHANGED <<library, broken, pc, tries, attemptVars, variants, file, before, report, billed,
                 dates, runs, faults>>

TaskRuns ==
  AuditLibrary \/ GenerateVariants \/ ReadDate \/ WriteConfig \/ FinishWrite \/ ReportCoverage

Next == StartRun \/ TaskRuns \/ Skipped \/ WorkerDies \/ OperatorCleans \/ NextDay

Spec == Init /\ [][Next]_vars

FairSpec == Spec /\ WF_vars(TaskRuns)

----------------------------------------------------------------------------
(* Properties.                                                              *)

\* The budget is checked once per scenario and anew in every attempt of the task: a run
\* costs no more than what its agents may overdraw, for each attempt begun.
SpendBounded ==
  pc = "generate" => billed <= (tries * NumAgents + agent - 1) * AgentBound + spent

\* What a run reports adds up: to the files of the audit comes one at least for every
\* variant that has an id of its own, and more than one for each only when attempts at
\* write_new_configs were made on several dates.  All files load: no cut off file,
\* invented type or failed attempt is hidden by a report.
ReportAddsUp ==
  [][(pc = "report" /\ report'.ended = "reported" /\ pc' = "idle") =>
       /\ report'.total >= before + Cardinality({i \in DOMAIN variants : ~variants[i].redacted})
       /\ report'.total <= before + Cardinality(dates) * report'.new
       /\ broken' = 0]_vars

runVars == <<pc, tries, attemptVars>>

\* What the running attempt has before it: passes of the loops, each of Calls calls and
\* a last step at most, or a date to read and files to write.
PassesLeft == (NumAgents + 1 - agent) * PerAgent - (variant - 1)

AttemptLeft ==
  CASE pc = "generate" -> PassesLeft * (Calls + 1) - call
    [] pc = "write" -> Len(variants) + (IF date = 0 THEN 2 ELSE 1) - next
    [] OTHER -> 0

Stage == CASE pc = "audit" -> 3 [] pc = "generate" -> 2 [] pc = "write" -> 1 [] OTHER -> 0

\* The clock apart, a run uses something up in every step, failures and dying workers included: a task of
\* the four, an attempt of the task, or what is left of the attempt.  None of these
\* grows but by using up one before it, so the loops, the retries and the tasks cannot
\* feed each other forever.
RunsRunDown ==
  [][pc # "idle" /\ pc' # "idle" =>
       /\ AttemptLeft \in Nat
       /\ \/ Stage' < Stage
          \/ Stage' = Stage /\ tries < tries' /\ tries' <= Retries
          \/ Stage' = Stage /\ tries' = tries /\ AttemptLeft' < AttemptLeft]_runVars

\* However often calls fail and workers die, a run comes to an end.
RunsEnd == pc # "idle" ~> pc = "idle"
=============================================================================

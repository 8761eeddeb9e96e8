---------------------------- MODULE GraphIngestion ----------------------------
(***************************************************************************)
(* GraphIngestionConsumer: one tenant's consumer of the transactions and   *)
(* logins topics, which writes each event to the Neo4j graph the tenants   *)
(* share.  Offsets are committed for both topics at once, as far as they   *)
(* have been read, whenever a write succeeds or a malformed message is     *)
(* skipped.                                                                *)
(***************************************************************************)
EXTENDS Integers

CONSTANTS
  NumMessages,   \* messages on each topic, a function
  Entities,      \* accounts, merchants and devices events refer to
  MaxMessages,   \* bound: largest max_messages run() is called with
  MaxFaults      \* bound: crashes, outages, ambiguous writes, refused commits

Topics == {"transactions", "logins"}

ASSUME GraphConstantsOK ==
  /\ NumMessages \in [Topics -> Nat]
  /\ MaxMessages \in Nat
  /\ MaxFaults \in Nat

Offsets(t) == 1 .. NumMessages[t]

Message == UNION {{t} \X Offsets(t) : t \in Topics}

Forms == {"valid", "malformed", "undecodable"}

VARIABLES
  form,         \* whether a message is an event, no JSON, or unusable (no UTF-8, wrong fields)
  about,        \* the entity an event refers to
  constrained,  \* whether the constraints of constraints.cypher were applied
  taken,        \* entities whose node another tenant or the batch loader created
  up,           \* whether Neo4j answers
  committed,    \* per topic the group's committed offset
  position,     \* per topic where the consumer reads next
  hand,         \* the message the consumer is working on
  pc,           \* what the consumer is doing
  dryRun,       \* whether it was started with dry_run
  left,         \* messages it still is to process; -1 for no limit
  written,      \* messages whose event is in the graph
  doubled,      \* transactions that are in it twice
  failed,       \* ghost: messages a write of which was seen to fail
  dryRead,      \* ghost: messages a dry run read
  faults        \* faults so far

topicVars == <<form, about, constrained>>
graphVars == <<written, doubled>>
ghostVars == <<failed, dryRead>>
callVars == <<dryRun, left>>
vars == <<form, about, constrained, taken, up, committed, position, hand, pc, dryRun,
          left, written, doubled, failed, dryRead, faults>>

Pcs == {"down", "polling", "handling", "commit", "skip"}

TypeOK ==
  /\ form \in [Message -> Forms]
  /\ about \in [Message -> Entities]
  /\ constrained \in BOOLEAN
  /\ taken \subseteq Entities
  /\ up \in BOOLEAN
  /\ \A offset \in {committed, position} :
       /\ DOMAIN offset = Topics
       /\ \A t \in Topics : offset[t] \in 1 .. NumMessages[t] + 1
  /\ hand \in Message \cup {<<>>}
  /\ pc \in Pcs
  /\ dryRun \in BOOLEAN
  /\ left \in -1 .. MaxMessages
  /\ written \subseteq Message
  /\ doubled \subseteq Message
  /\ failed \subseteq Message
  /\ dryRead \subseteq Message
  /\ faults \in 0 .. MaxFaults

Init ==
  /\ form \in [Message -> Forms]
  /\ about \in [Message -> Entities]
  /\ constrained \in BOOLEAN
  /\ taken = {}
  /\ up = TRUE
  /\ committed = [t \in Topics |-> 1]
  /\ position = [t \in Topics |-> 1]
  /\ hand = <<>>
  /\ pc = "down"
  /\ dryRun = FALSE
  /\ left = 0
  /\ written = {}
  /\ doubled = {}
  /\ failed = {}
  /\ dryRead = {}
  /\ faults = 0

Fault ==
  /\ faults < MaxFaults
  /\ faults' = faults + 1

----------------------------------------------------------------------------
(* The environment.                                                         *)

Neo4jFails ==
  /\ up
  /\ up' = FALSE
  /\ Fault
  /\ UNCHANGED <<topicVars, taken, committed, position, hand, pc, callVars, graphVars, ghostVars>>

Neo4jReturns ==
  /\ ~up
  /\ up' = TRUE
  /\ UNCHANGED <<topicVars, taken, committed, position, hand, pc, callVars, graphVars,
                 ghostVars, faults>>

\* Another tenant's event, or the batch loader, creates the node of an entity.  Its
\* id is unique, its tenant is not this one (only the constraints make it matter).
Take ==
  /\ constrained
  /\ \E e \in Entities \ taken :
       /\ \A m \in written : about[m] # e
       /\ taken' = taken \cup {e}
  /\ Fault
  /\ UNCHANGED <<topicVars, up, committed, position, hand, pc, callVars, graphVars, ghostVars>>

----------------------------------------------------------------------------
(* run().                                                                   *)

\* A call of run(): the group resumes at its committed offsets.
Start(limit, dry) ==
  /\ pc = "down"
  /\ pc' = "polling"
  /\ position' = committed
  /\ left' = limit
  /\ dryRun' = dry
  /\ UNCHANGED <<topicVars, taken, up, committed, hand, graphVars, ghostVars, faults>>

\* Mutant: enable.auto.commit is left on.
Stops_AutoCommits ==
  /\ pc' = "down"
  /\ hand' = <<>>
  /\ committed' = position
  /\ UNCHANGED <<topicVars, taken, up, position, callVars, graphVars, ghostVars>>

\* The consumer is closed and nothing is committed by that.
Stops ==
  /\ pc' = "down"
  /\ hand' = <<>>
  /\ UNCHANGED <<topicVars, taken, up, committed, position, callVars, graphVars, ghostVars>>

\* max_messages have been processed, or Ctrl-C.
Return ==
  /\ pc = "polling"
  /\ left = 0
  /\ Stops
  /\ UNCHANGED faults

Crash ==
  /\ pc # "down"
  /\ Fault
  /\ Stops

\* A Kafka error is logged, and changes nothing.
Poll(t) ==
  /\ pc = "polling"
  /\ left # 0
  /\ position[t] \in Offsets(t)
  /\ hand' = <<t, position[t]>>
  /\ position' = [position EXCEPT ![t] = @ + 1]
  /\ pc' = "handling"
  /\ UNCHANGED <<topicVars, taken, up, committed, callVars, graphVars, ghostVars, faults>>

\* A constraint stands in the way: the event's node belongs to another tenant,
\* or its Transaction was created already.
Blocked ==
  constrained /\ (about[hand] \in taken \/ (hand[1] = "transactions" /\ hand \in written))

\* What the upsert query does: CREATE for a transaction, MERGE for a login.
Upserts ==
  /\ written' = written \cup {hand}
  /\ doubled' = IF hand \in written /\ hand[1] = "transactions"
                  THEN doubled \cup {hand} ELSE doubled

GoesOn == pc' = "polling" /\ UNCHANGED <<topicVars, taken, up, committed, position, hand>>

\* write_transaction and write_login return True.
WriteSucceeds ==
  /\ pc = "handling"
  /\ form[hand] = "valid"
  /\ \/ ~dryRun /\ up /\ ~Blocked /\ Upserts /\ UNCHANGED dryRead
     \/ dryRun /\ dryRead' = dryRead \cup {hand} /\ UNCHANGED graphVars
  /\ pc' = "commit"
  /\ UNCHANGED <<topicVars, taken, up, committed, position, hand, callVars, failed, faults>>

\* Mutant: an event that cannot be written is read again at once.
WriteFails_Again ==
  /\ pc = "handling"
  /\ form[hand] = "valid"
  /\ ~dryRun
  /\ ~up \/ Blocked
  /\ failed' = failed \cup {hand}
  /\ pc' = "polling"
  /\ position' = [position EXCEPT ![hand[1]] = hand[2]]
  /\ UNCHANGED <<topicVars, taken, up, committed, hand, callVars, graphVars, dryRead,
                 faults>>

\* They return False: Neo4j was out of reach or refused, or it wrote the event and
\* the answer was lost.
WriteFails ==
  /\ pc = "handling"
  /\ form[hand] = "valid"
  /\ ~dryRun
  /\ \/ (~up \/ Blocked) /\ UNCHANGED <<graphVars, faults>>
     \/ up /\ ~Blocked /\ Upserts /\ Fault
  /\ failed' = failed \cup {hand}
  /\ GoesOn
  /\ UNCHANGED <<callVars, dryRead>>

\* An exception other than JSONDecodeError is logged, be it that of a decoding or
\* that of the write's parameters, which the write turns into False.
Undecodable ==
  /\ pc = "handling"
  /\ form[hand] = "undecodable"
  /\ GoesOn
  /\ UNCHANGED <<callVars, graphVars, ghostVars, faults>>

Malformed ==
  /\ pc = "handling"
  /\ form[hand] = "malformed"
  /\ pc' = "skip"
  /\ UNCHANGED <<topicVars, taken, up, committed, position, hand, callVars, graphVars,
                 ghostVars, faults>>

\* Mutant: the offset after the next one is committed.
CommitsAll_TooFar ==
  /\ committed' = [t \in Topics |-> position[t] + 1]
  /\ pc' = "polling"
  /\ UNCHANGED <<topicVars, taken, up, position, hand, dryRun, graphVars, ghostVars, faults>>

\* commit(): every topic, as far as it has been read.
CommitsAll ==
  /\ committed' = position
  /\ pc' = "polling"
  /\ UNCHANGED <<topicVars, taken, up, position, hand, dryRun, graphVars, ghostVars, faults>>

Commit ==
  /\ pc = "commit"
  /\ CommitsAll
  /\ left' = IF left > 0 THEN left - 1 ELSE left

\* The commit after a write raises: logged, and not counted.
CommitRaises ==
  /\ pc = "commit"
  /\ Fault
  /\ GoesOn
  /\ UNCHANGED <<callVars, graphVars, ghostVars>>

Skip ==
  /\ pc = "skip"
  /\ CommitsAll
  /\ UNCHANGED left

\* The commit in the handler of JSONDecodeError raises: run() ends.
SkipRaises ==
  /\ pc = "skip"
  /\ Fault
  /\ Stops

Works ==
  \/ Return
  \/ \E t \in Topics : Poll(t)
  \/ WriteSucceeds
  \/ WriteFails
  \/ Undecodable
  \/ Malformed
  \/ Commit
  \/ CommitRaises
  \/ Skip
  \/ SkipRaises

Next ==
  \/ Neo4jFails
  \/ Neo4jReturns
  \/ Take
  \/ \E limit \in {-1} \cup 1 .. MaxMessages, dry \in BOOLEAN : Start(limit, dry)
  \/ Crash
  \/ Works

Spec == Init /\ [][Next]_vars

\* A consumer that was started gets on with its loop.
FairSpec == Spec /\ WF_vars(Works)

----------------------------------------------------------------------------
(* Properties.                                                              *)

Below(offsets) == {m \in Message : m[2] < offsets[m[1]]}

Event(m) == form[m] = "valid"

\* An event was answered: it is in the graph, or an attempt to write it failed or
\* was a dry run.
Answered(m) == m \in written \cup failed \cup dryRead

\* A crash, a redelivery or a refused commit alone loses no event: what lies below
\* a committed offset is in the graph unless a write of it was seen to fail.
OnlyFailuresAreSkipped == \A m \in Below(committed) : Event(m) => Answered(m)

\* A consumer at work holds a message it has read past.
HandIsRead ==
  pc \in {"handling", "commit", "skip"} =>
    hand \in Message /\ hand[2] < position[hand[1]]

\* A running consumer has read past no event without an answer, its own apart.
ReadsOn ==
  pc # "down" => \A m \in Below(position) :
    Event(m) => Answered(m) \/ (m = hand /\ pc = "handling")

\* The inductive invariant behind OnlyFailuresAreSkipped.
GraphInv ==
  /\ TypeOK
  /\ HandIsRead
  /\ ReadsOn
  /\ OnlyFailuresAreSkipped

\* Each topic implements EventLog: an event is answered when its write is, or when a
\* dry run read it.
EventsOf(t) == {n \in Offsets(t) : Event(<<t, n>>)}

AnswersOf(t) == {n \in EventsOf(t) : Answered(<<t, n>>)}

TransactionLog ==
  INSTANCE EventLog WITH Size <- NumMessages["transactions"],
                         events <- EventsOf("transactions"),
                         answered <- AnswersOf("transactions"),
                         committed <- committed["transactions"]

LoginLog ==
  INSTANCE EventLog WITH Size <- NumMessages["logins"],
                         events <- EventsOf("logins"),
                         answered <- AnswersOf("logins"),
                         committed <- committed["logins"]

\* Although a commit is made for both topics at once, it passes no event of the other
\* topic that has had no answer.
LogsKept == TransactionLog!Spec /\ LoginLog!Spec

\* A run without a limit comes to every event, whatever fails meanwhile.
EventsAreReached ==
  []<>(pc # "down" /\ left = -1) => \A m \in Message : Event(m) => <>Answered(m)

=============================================================================

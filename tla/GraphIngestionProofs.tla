------------------------- MODULE GraphIngestionProofs -------------------------
(***************************************************************************)
(* Theorems about GraphIngestion for any topics, entities and faults: only *)
(* a failed write, or a dry run, lets a committed offset pass an event by. *)
(***************************************************************************)
EXTENDS GraphIngestion, TLAPS

USE GraphConstantsOK
USE DEF topicVars, graphVars, callVars, ghostVars

\* Before the first call of run() nothing is committed.
LEMMA GraphInvInit == Init => GraphInv
<1> SUFFICES ASSUME Init PROVE GraphInv
  OBVIOUS
<1>0. \A t \in Topics : 1 \in 1 .. NumMessages[t] + 1
  <2>1. \A t \in Topics : NumMessages[t] \in Nat
    OBVIOUS
  <2> QED
    BY <2>1
<1>1. TypeOK
  <2>1. \A offset \in {committed, position} :
          /\ DOMAIN offset = Topics
          /\ \A t \in Topics : offset[t] \in 1 .. NumMessages[t] + 1
    BY <1>0 DEF Init
  <2>2. left \in -1 .. MaxMessages /\ faults \in 0 .. MaxFaults
    BY DEF Init
  <2>3. hand \in Message \cup {<<>>} /\ pc \in Pcs
    BY DEF Init, Pcs
  <2>4. /\ form \in [Message -> Forms]
        /\ about \in [Message -> Entities]
        /\ constrained \in BOOLEAN /\ up \in BOOLEAN /\ dryRun \in BOOLEAN
        /\ taken \subseteq Entities
        /\ written \subseteq Message /\ doubled \subseteq Message
        /\ failed \subseteq Message /\ dryRead \subseteq Message
    BY DEF Init
  <2> QED
    BY <2>1, <2>2, <2>3, <2>4 DEF TypeOK
<1>2. Below(committed) = {}
  BY DEF Init, Below, Message, Offsets, Topics
<1> QED
  BY <1>1, <1>2 DEF Init, GraphInv, HandIsRead, ReadsOn, OnlyFailuresAreSkipped

\* A message is known by its topic and offset.
LEMMA MessageIs ==
  ASSUME NEW m
  PROVE  m \in Message <=>
           \E t \in Topics : \E n \in Offsets(t) : m = <<t, n>>
BY DEF Message

\* An offset vector in range, after one of its topics moved on by one message.
LEMMA PositionStep ==
  ASSUME TypeOK, NEW t \in Topics, Poll(t)
  PROVE  /\ DOMAIN position' = Topics
         /\ \A u \in Topics : position'[u] \in 1 .. NumMessages[u] + 1
         /\ \A u \in Topics : position'[u] = IF u = t THEN position[u] + 1 ELSE position[u]
<1>1. DOMAIN position = Topics /\ \A u \in Topics : position[u] \in 1 .. NumMessages[u] + 1
  BY DEF TypeOK
<1>2. NumMessages[t] \in Nat /\ position[t] \in 1 .. NumMessages[t]
  BY DEF Poll, Offsets
<1>3. position' = [position EXCEPT ![t] = position[t] + 1]
  BY DEF Poll
<1> QED
  BY <1>1, <1>2, <1>3

\* The step keeps every variable in its type: in particular no offset beyond the
\* end of a topic is committed.
LEMMA TypeStep ==
  ASSUME TypeOK, HandIsRead, [Next]_vars
  PROVE  TypeOK'
<1> USE DEF TypeOK, Pcs
<1>1. CASE UNCHANGED vars
  BY <1>1 DEF vars
<1>2. CASE Neo4jFails \/ Neo4jReturns \/ Take
  <2>1. faults' \in 0 .. MaxFaults
    BY <1>2 DEF Neo4jFails, Neo4jReturns, Take, Fault
  <2>2. taken' \subseteq Entities
    BY <1>2 DEF Neo4jFails, Neo4jReturns, Take
  <2>3. up' \in BOOLEAN
    BY <1>2 DEF Neo4jFails, Neo4jReturns, Take
  <2> QED
    BY <1>2, <2>1, <2>2, <2>3 DEF Neo4jFails, Neo4jReturns, Take
<1>3. ASSUME NEW limit \in {-1} \cup 1 .. MaxMessages, NEW dry \in BOOLEAN,
             Start(limit, dry)
      PROVE  TypeOK'
  BY <1>3 DEF Start
<1>4. CASE Crash
  BY <1>4 DEF Crash, Stops, Fault
<1>5. CASE Return
  BY <1>5 DEF Return, Stops
<1>6. ASSUME NEW t \in Topics, Poll(t) PROVE TypeOK'
  <2>1. hand' \in Message
    BY <1>6, MessageIs DEF Poll
  <2> QED
    BY <1>6, <2>1, PositionStep DEF Poll
<1>7. CASE WriteSucceeds
  <2>1. hand \in Message
    BY <1>7 DEF WriteSucceeds, HandIsRead
  <2> QED
    BY <1>7, <2>1 DEF WriteSucceeds, Upserts
<1>8. CASE WriteFails
  <2>1. hand \in Message
    BY <1>8 DEF WriteFails, HandIsRead
  <2>2. faults' \in 0 .. MaxFaults
    BY <1>8 DEF WriteFails, Fault
  <2> QED
    BY <1>8, <2>1, <2>2 DEF WriteFails, Upserts, GoesOn
<1>9. CASE Undecodable \/ Malformed
  BY <1>9 DEF Undecodable, Malformed, GoesOn
<1>10. CASE Commit \/ Skip
  BY <1>10 DEF Commit, Skip, CommitsAll
<1>11. CASE CommitRaises
  BY <1>11 DEF CommitRaises, GoesOn, Fault
<1>12. CASE SkipRaises
  BY <1>12 DEF SkipRaises, Stops, Fault
<1> QED
  BY <1>1, <1>2, <1>3, <1>4, <1>5, <1>6, <1>7, <1>8, <1>9, <1>10, <1>11, <1>12
  DEF Next, Works

\* An answer stands, and what a message is never changes.
LEMMA AnswersStay ==
  ASSUME [Next]_vars
  PROVE  form' = form /\ \A m : Answered(m) => Answered(m)'
BY DEF Next, Works, vars, Neo4jFails, Neo4jReturns, Take, Start, Crash, Return, Stops, Poll,
       WriteSucceeds, WriteFails, Undecodable, Malformed, Commit, CommitsAll, CommitRaises,
       Skip, SkipRaises, GoesOn, Upserts, Answered

\* A consumer at work has read past the message in its hand.
LEMMA HandStep ==
  ASSUME GraphInv, [Next]_vars
  PROVE  HandIsRead'
<1> USE DEF GraphInv, HandIsRead
<1>1. ASSUME NEW t \in Topics, Poll(t) PROVE HandIsRead'
  <2>1. hand' = <<t, position[t]>> /\ position[t] \in Offsets(t)
    BY <1>1 DEF Poll
  <2>2. hand' \in Message
    BY <2>1, MessageIs
  <2>3. position'[t] = position[t] + 1
    BY <1>1, PositionStep
  <2>4. hand'[1] = t /\ hand'[2] = position[t] /\ position[t] \in Nat
    BY <2>1 DEF Offsets
  <2> QED
    BY <2>2, <2>3, <2>4
<1>2. CASE \A t \in Topics : ~Poll(t)
  BY <1>2 DEF Next, Works, vars, Neo4jFails, Neo4jReturns, Take, Start, Crash, Return, Stops,
       WriteSucceeds, WriteFails, Undecodable, Malformed, Commit, CommitsAll, CommitRaises,
       Skip, SkipRaises, GoesOn
<1> QED
  BY <1>1, <1>2

\* No event is read past without an answer.
LEMMA ReadsOnStep ==
  ASSUME GraphInv, [Next]_vars
  PROVE  ReadsOn'
<1> USE DEF GraphInv
<1> SUFFICES ASSUME pc' # "down", NEW m \in Message, m[2] < position'[m[1]], form[m] = "valid",
                    ~(m = hand' /\ pc' = "handling")
             PROVE  Answered(m)'
  BY AnswersStay DEF ReadsOn, Below, Event
<1>0. Answered(m) => Answered(m)'
  BY AnswersStay
<1>1. ASSUME NEW t \in Topics, Poll(t) PROVE Answered(m)'
  <2>1. m # <<t, position[t]>>
    BY <1>1 DEF Poll
  <2>2. PICK u \in Topics : \E n \in Offsets(u) : m = <<u, n>>
    BY MessageIs
  <2>3. m[1] = u /\ m[2] \in Nat /\ m = <<u, m[2]>>
    BY <2>2 DEF Offsets
  <2>4. position[t] \in Nat
    BY <1>1 DEF Poll, Offsets
  <2>5. m[2] < position[m[1]]
    <3>1. CASE u = t
      BY <3>1, <1>1, <2>1, <2>3, <2>4, PositionStep
    <3>2. CASE u # t
      BY <3>2, <1>1, <2>3, PositionStep
    <3> QED
      BY <3>1, <3>2
  <2>6. pc = "polling"
    BY <1>1 DEF Poll
  <2> QED
    BY <1>0, <2>5, <2>6 DEF ReadsOn, Below, Event
<1>2. ASSUME NEW limit, NEW dry, Start(limit, dry) PROVE Answered(m)'
  BY <1>0, <1>2 DEF Start, OnlyFailuresAreSkipped, Below, Event
<1>3. CASE /\ pc = "handling" /\ pc' # "handling" /\ UNCHANGED <<position, hand>>
           /\ m = hand
  BY <1>3 DEF Next, Works, vars, Neo4jFails, Neo4jReturns, Take, Start, Crash, Return, Stops,
       Poll, WriteSucceeds, WriteFails, Undecodable, Malformed, Commit, CommitsAll,
       CommitRaises, Skip, SkipRaises, GoesOn, Upserts, Answered
<1>4. CASE pc # "down" /\ UNCHANGED <<position, hand>>
  BY <1>0, <1>3, <1>4 DEF ReadsOn, Below, Event
<1>5. \/ \E t \in Topics : Poll(t)
      \/ \E limit, dry : Start(limit, dry)
      \/ pc # "down" /\ UNCHANGED <<position, hand>>
  BY DEF Next, Works, vars, Neo4jFails, Neo4jReturns, Take, Crash, Return, Stops,
       WriteSucceeds, WriteFails, Undecodable, Malformed, Commit, CommitsAll, CommitRaises,
       Skip, SkipRaises, GoesOn
<1> QED
  BY <1>1, <1>2, <1>4, <1>5

\* A commit passes on what was read, and nothing else moves the committed offset.
LEMMA SkippedStep ==
  ASSUME GraphInv, [Next]_vars
  PROVE  OnlyFailuresAreSkipped'
<1> USE DEF GraphInv
<1> SUFFICES ASSUME NEW m \in Message, m[2] < committed'[m[1]], form[m] = "valid"
             PROVE  Answered(m)'
  BY AnswersStay DEF OnlyFailuresAreSkipped, Below, Event
<1>1. CASE committed' = committed
  BY <1>1, AnswersStay DEF OnlyFailuresAreSkipped, Below, Event
<1>2. CASE Commit \/ Skip
  <2>1. committed' = position /\ pc \in {"commit", "skip"}
    BY <1>2 DEF Commit, Skip, CommitsAll
  <2> QED
    BY <2>1, AnswersStay DEF ReadsOn, Below, Event
<1> QED
  BY <1>1, <1>2 DEF Next, Works, vars, Neo4jFails, Neo4jReturns, Take, Start, Crash, Return,
       Stops, Poll, WriteSucceeds, WriteFails, Undecodable, Malformed, CommitRaises,
       SkipRaises, GoesOn

\* Every reachable state satisfies the invariant.
THEOREM GraphInvariant == Spec => []GraphInv
<1>1. GraphInv /\ [Next]_vars => GraphInv'
  BY TypeStep, HandStep, ReadsOnStep, SkippedStep DEF GraphInv
<1> QED
  BY <1>1, GraphInvInit, PTL DEF Spec

\* What lies below a committed offset is in the graph unless a write of it was seen
\* to fail, or a dry run read it, whatever crashed or was delivered again.
THEOREM CrashesLoseNoEvent == Spec => []OnlyFailuresAreSkipped
<1>1. GraphInv => OnlyFailuresAreSkipped
  BY DEF GraphInv
<1> QED
  BY <1>1, GraphInvariant, PTL

\* The consumer's state and the graph keep their types.
THEOREM GraphTypes == Spec => []TypeOK
<1>1. GraphInv => TypeOK
  BY DEF GraphInv
<1> QED
  BY <1>1, GraphInvariant, PTL

----------------------------------------------------------------------------
(* Each topic implements EventLog.                                          *)

\* What one step may do to one topic: nothing, answer one of its events, or move its
\* committed offset no further than its events are answered.
LEMMA TopicStep ==
  ASSUME GraphInv, [Next]_vars, NEW t \in Topics
  PROVE  /\ EventsOf(t)' = EventsOf(t)
         /\ \/ /\ committed'[t] = committed[t]
               /\ \/ AnswersOf(t)' = AnswersOf(t)
                  \/ \E n \in EventsOf(t) : AnswersOf(t)' = AnswersOf(t) \cup {n}
            \/ /\ AnswersOf(t)' = AnswersOf(t)
               /\ committed'[t] \in 1 .. NumMessages[t] + 1
               /\ \A n \in EventsOf(t) : n < committed'[t] => n \in AnswersOf(t)
<1>1. form' = form /\ \A m : Answered(m) => Answered(m)'
  BY AnswersStay
<1>2. EventsOf(t)' = EventsOf(t)
  BY <1>1 DEF EventsOf, Event
<1>3. CASE WriteSucceeds \/ WriteFails
  <2>1. committed' = committed /\ form[hand] = "valid" /\ hand \in Message
    BY <1>3 DEF WriteSucceeds, WriteFails, GoesOn, GraphInv, HandIsRead
  <2>2. \A m : Answered(m)' => Answered(m) \/ m = hand
    BY <1>3 DEF WriteSucceeds, WriteFails, Upserts, Answered
  <2>3. Answered(hand)'
    <3>1. hand' = hand /\ hand \in written' \cup failed' \cup dryRead'
      BY <1>3 DEF WriteSucceeds, WriteFails, Upserts, GoesOn
    <3> QED
      BY <3>1 DEF Answered
  <2>u. PICK u \in Topics : \E n \in Offsets(u) : hand = <<u, n>>
    BY <2>1, MessageIs
  <2>4. PICK k \in Offsets(u) : hand = <<u, k>>
    BY <2>u
  <2>5. CASE u = t
    <3>1. k \in EventsOf(t)
      BY <2>1, <2>4, <2>5 DEF EventsOf, Event
    <3>2. \A n \in EventsOf(t) : Answered(<<t, n>>)' <=> Answered(<<t, n>>) \/ n = k
      <4>1. hand = <<t, k>> /\ \A n : <<t, n>> = hand <=> n = k
        BY <2>4, <2>5
      <4>2. hand' = hand
        BY <1>3 DEF WriteSucceeds, WriteFails, GoesOn
      <4>3. Answered(<<t, k>>)'
        BY <2>3, <4>1, <4>2 DEF Answered
      <4> QED
        BY <1>1, <2>2, <4>1, <4>3 DEF Answered
    <3>3. AnswersOf(t)' = AnswersOf(t) \cup {k}
      BY <1>2, <3>1, <3>2 DEF AnswersOf
    <3> QED
      BY <1>2, <2>1, <3>1, <3>3
  <2>6. CASE u # t
    <3>1. \A n \in EventsOf(t) : Answered(<<t, n>>)' <=> Answered(<<t, n>>)
      BY <1>1, <2>2, <2>4, <2>6
    <3>2. AnswersOf(t)' = AnswersOf(t)
      BY <1>2, <3>1 DEF AnswersOf
    <3> QED
      BY <1>2, <2>1, <3>2
  <2> QED
    BY <2>5, <2>6
<1>4. CASE Commit \/ Skip
  <2>1. /\ committed' = position /\ pc \in {"commit", "skip"}
        /\ UNCHANGED <<written, failed, dryRead>>
    BY <1>4 DEF Commit, Skip, CommitsAll
  <2>2. AnswersOf(t)' = AnswersOf(t)
    BY <1>2, <2>1 DEF AnswersOf, Answered
  <2>3. position[t] \in 1 .. NumMessages[t] + 1
    BY DEF GraphInv, TypeOK
  <2>4. ASSUME NEW n \in EventsOf(t), n < position[t] PROVE n \in AnswersOf(t)
    <3>1. <<t, n>> \in Message /\ Event(<<t, n>>)
      BY <2>4, MessageIs DEF EventsOf
    <3>2. <<t, n>> \in Below(position)
      BY <2>4, <3>1 DEF Below
    <3>3. Answered(<<t, n>>)
      BY <2>1, <3>1, <3>2 DEF GraphInv, ReadsOn
    <3> QED
      BY <2>4, <3>3 DEF AnswersOf
  <2> QED
    BY <1>2, <2>1, <2>2, <2>3, <2>4
<1>5. CASE ~(WriteSucceeds \/ WriteFails \/ Commit \/ Skip)
  <2>1. UNCHANGED <<committed, written, failed, dryRead>>
    BY <1>5 DEF Next, Works, vars, Neo4jFails, Neo4jReturns, Take, Start, Crash, Return, Stops,
         Poll, Undecodable, Malformed, CommitRaises, SkipRaises, GoesOn
  <2>2. AnswersOf(t)' = AnswersOf(t)
    BY <1>2, <2>1 DEF AnswersOf, Answered
  <2> QED
    BY <1>2, <2>1, <2>2
<1> QED
  BY <1>3, <1>4, <1>5

LEMMA TopicInit ==
  ASSUME Init, NEW t \in Topics
  PROVE  /\ EventsOf(t) \subseteq 1 .. NumMessages[t]
         /\ AnswersOf(t) = {} /\ committed[t] = 1
BY DEF Init, EventsOf, AnswersOf, Answered, Offsets

\* Committing both topics at once never costs either of them an event: each implements
\* the log on its own.
THEOREM TopicsImplementLogs == Spec => LogsKept
<1>1. Init => TransactionLog!Init /\ LoginLog!Init
  BY TopicInit DEF Topics, TransactionLog!Init, LoginLog!Init
<1>2. GraphInv /\ [Next]_vars => [TransactionLog!Next]_TransactionLog!logVars
  BY TopicStep DEF Topics, TransactionLog!Next, TransactionLog!Answer, TransactionLog!Commit,
                   TransactionLog!logVars
<1>3. GraphInv /\ [Next]_vars => [LoginLog!Next]_LoginLog!logVars
  BY TopicStep DEF Topics, LoginLog!Next, LoginLog!Answer, LoginLog!Commit, LoginLog!logVars
<1> QED
  BY <1>1, <1>2, <1>3, GraphInvariant, PTL
  DEF Spec, LogsKept, TransactionLog!Spec, LoginLog!Spec

\* What implements the log on both topics has passed no event below its committed
\* offsets: that is OnlyFailuresAreSkipped, which LogsKept thus contains.
THEOREM LogsMeanAnswered == LogsKept => []OnlyFailuresAreSkipped
<1>1. /\ TransactionLog!Init => TransactionLog!CommittedIsAnswered
      /\ LoginLog!Init => LoginLog!CommittedIsAnswered
  BY DEF TransactionLog!Init, TransactionLog!CommittedIsAnswered,
         LoginLog!Init, LoginLog!CommittedIsAnswered
<1>2. TransactionLog!CommittedIsAnswered /\ [TransactionLog!Next]_TransactionLog!logVars
        => TransactionLog!CommittedIsAnswered'
  BY DEF TransactionLog!Next, TransactionLog!Answer, TransactionLog!Commit,
         TransactionLog!logVars, TransactionLog!CommittedIsAnswered
<1>3. LoginLog!CommittedIsAnswered /\ [LoginLog!Next]_LoginLog!logVars
        => LoginLog!CommittedIsAnswered'
  BY DEF LoginLog!Next, LoginLog!Answer, LoginLog!Commit,
         LoginLog!logVars, LoginLog!CommittedIsAnswered
<1>4. TransactionLog!CommittedIsAnswered /\ LoginLog!CommittedIsAnswered
        => OnlyFailuresAreSkipped
  <2> SUFFICES ASSUME TransactionLog!CommittedIsAnswered, LoginLog!CommittedIsAnswered,
                      NEW t \in Topics, NEW n \in Offsets(t), n < committed[t],
                      Event(<<t, n>>)
               PROVE  Answered(<<t, n>>)
    BY DEF OnlyFailuresAreSkipped, Below, Message
  <2>1. n \in EventsOf(t)
    BY DEF EventsOf
  <2>2. n \in AnswersOf(t)
    BY <2>1 DEF Topics, TransactionLog!CommittedIsAnswered, LoginLog!CommittedIsAnswered
  <2> QED
    BY <2>2 DEF AnswersOf
<1> QED
  BY <1>1, <1>2, <1>3, <1>4, PTL DEF LogsKept, TransactionLog!Spec, LoginLog!Spec

=============================================================================

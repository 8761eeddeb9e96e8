------------------------- MODULE TopicConsumerProofs -------------------------
(***************************************************************************)
(* Theorems about TopicConsumer: for any number of consumers, messages and *)
(* faults, nothing below the committed offset was passed over.             *)
(***************************************************************************)
EXTENDS TopicConsumer, TLAPS

USE TopicConstantsOK DEF groupVars, resultVars

\* Before the first consumer starts nothing is committed and nothing in hand.
LEMMA GroupInvInit == Init => GroupInv
<1> SUFFICES ASSUME Init PROVE GroupInv
  OBVIOUS
<1>1. TypeOK
  BY DEF Init, TypeOK, Pcs
<1> QED
  BY <1>1 DEF Init, GroupInv, HandsFull, ReadsOn, CommitsHandled, CommittedIsHandled,
              Offsets

\* The steps of one consumer.
Steps(c) == Start(c) \/ Assign(c) \/ Rebalance(c) \/ Crash(c) \/ Works(c)

\* A consumer's step keeps every variable in its type: in particular it commits no
\* offset beyond the end of the partition.
LEMMA TypeStep ==
  ASSUME TypeOK, HandsFull, NEW c \in Consumers, Steps(c)
  PROVE  TypeOK'
<1> USE DEF TypeOK, Pcs, Offsets, At
<1>1. CASE Start(c)
  BY <1>1 DEF Start
<1>2. CASE Assign(c)
  BY <1>2 DEF Assign, Gets
<1>3. CASE Rebalance(c)
  BY <1>3 DEF Rebalance, Gets, Fault
<1>4. CASE Crash(c)
  BY <1>4 DEF Crash, Leaves, Fault
<1>5. CASE Poll(c)
  BY <1>5 DEF Poll
<1>6. CASE Handle(c)
  <2>1. hand[c] \in Offsets
    BY <1>6 DEF Handle, HandsFull
  <2>2. processed' \subseteq Offsets /\ pc' \in [Consumers -> Pcs]
    BY <1>6, <2>1 DEF Handle
  <2> QED
    BY <1>6, <2>2 DEF Handle
<1>7. CASE Commit(c) \/ CommitDead(c)
  <2>1. hand[c] \in Offsets
    BY <1>7 DEF Commit, CommitDead, HandsFull
  <2>2. hand[c] + 1 \in 1 .. NumMessages + 1
    BY <2>1
  <2> QED
    BY <1>7, <2>2 DEF Commit, CommitDead, CommitsHand
<1>8. CASE CommitRaises(c)
  BY <1>8 DEF CommitRaises, Refused, Fault
<1>9. CASE DeadLetter(c)
  <2>1. hand[c] \in Offsets
    BY <1>9 DEF DeadLetter, HandsFull
  <2>2. deadLetters' \subseteq Offsets /\ undelivered' \subseteq Offsets
    BY <1>9, <2>1 DEF DeadLetter
  <2>3. faults' \in 0 .. MaxFaults
    BY <1>9 DEF DeadLetter, Fault
  <2> QED
    BY <1>9, <2>2, <2>3 DEF DeadLetter
<1>10. CASE CommitDeadRaises(c)
  BY <1>10 DEF CommitDeadRaises, Refused, Leaves, Fault
<1> QED
  BY <1>1, <1>2, <1>3, <1>4, <1>5, <1>6, <1>7, <1>8, <1>9, <1>10 DEF Steps, Works

\* What was taken care of stays so.
LEMMA HandledStays ==
  ASSUME NEW c \in Consumers, Steps(c), NEW m \in Offsets, Handled(m)
  PROVE  Handled(m)'
BY DEF Steps, Works, Start, Assign, Gets, Rebalance, Crash, Leaves, Poll, Handle, Commit,
       CommitDead, CommitsHand, CommitRaises, DeadLetter, CommitDeadRaises, Handled

\* A consumer's step touches the reading state of no other consumer.
LEMMA OthersReadOn ==
  ASSUME TypeOK, NEW c \in Consumers, Steps(c), NEW d \in Consumers, d # c
  PROVE  position'[d] = position[d] /\ hand'[d] = hand[d] /\ pc'[d] = pc[d]
BY DEF TypeOK, Steps, Works, Start, Assign, Gets, Rebalance, Crash, Leaves, Poll, Handle,
       Commit, CommitDead, CommitsHand, CommitRaises, DeadLetter, CommitDeadRaises, At

\* Every step of the system is a step of some consumer, or none.
LEMMA StepsOf == [Next]_vars => (\E c \in Consumers : Steps(c)) \/ UNCHANGED vars
BY DEF Next, Steps

\* A consumer's step keeps its own part of the invariant, and what it commits
\* keeps the group's.
LEMMA OwnStep ==
  ASSUME GroupInv, NEW c \in Consumers, Steps(c)
  PROVE  /\ pc'[c] \in {"handling", "commit", "dead_letter", "commit_dead"} =>
              hand'[c] \in Offsets
         /\ \A m \in Offsets : m < position'[c] =>
              Handled(m)' \/ (m = hand'[c] /\ pc'[c] \in {"handling", "dead_letter"})
         /\ \A m \in Offsets : m < hand'[c] => Handled(m)'
         /\ pc'[c] \in {"commit", "commit_dead"} => Handled(hand[c])' /\ hand'[c] = hand[c]
         /\ pc'[c] = "dead_letter" /\ kind[hand'[c]] = "valid" => hand'[c] \in processed'
         /\ \A m \in Offsets : m < committed' => Handled(m)'
<1> USE DEF GroupInv, TypeOK, HandsFull, ReadsOn, CommitsHandled, CommittedIsHandled,
            Offsets, At
<1>0. \A m \in Offsets : Handled(m) => Handled(m)'
  BY HandledStays
<1>1. CASE Start(c)
  BY <1>0, <1>1 DEF Start
<1>2. CASE Assign(c) \/ Rebalance(c)
  BY <1>0, <1>2 DEF Assign, Rebalance, Gets
<1>3. CASE Crash(c) \/ CommitDeadRaises(c)
  BY <1>0, <1>3 DEF Crash, CommitDeadRaises, Leaves
<1>4. CASE Poll(c)
  <2>1. \A m \in Offsets : m < position[c] => Handled(m)
    BY <1>4 DEF Poll
  <2> QED
    BY <1>0, <1>4, <2>1 DEF Poll
<1>5. CASE Handle(c)
  <2>1. pc'[c] = "commit" => Handled(hand[c])'
    BY <1>5 DEF Handle, Handled
  <2> QED
    BY <1>0, <1>5, <2>1 DEF Handle
<1>6. CASE Commit(c) \/ CommitDead(c)
  <2>1. Handled(hand[c]) /\ hand[c] \in Offsets
    BY <1>6 DEF Commit, CommitDead
  <2>2. \A m \in Offsets : m < hand[c] + 1 => Handled(m)
    BY <2>1
  <2> QED
    BY <1>0, <1>6, <2>1, <2>2 DEF Commit, CommitDead, CommitsHand
<1>7. CASE CommitRaises(c)
  <2>1. kind[hand[c]] = "valid" => hand[c] \in processed
    BY <1>7 DEF CommitRaises, Handled
  <2> QED
    BY <1>0, <1>7, <2>1 DEF CommitRaises
<1>8. CASE DeadLetter(c)
  <2>1. Handled(hand[c])'
    BY <1>8 DEF DeadLetter, Handled
  <2> QED
    BY <1>0, <1>8, <2>1 DEF DeadLetter
<1> QED
  BY <1>1, <1>2, <1>3, <1>4, <1>5, <1>6, <1>7, <1>8 DEF Steps, Works

\* No step breaks the invariant.
LEMMA GroupInvStep == GroupInv /\ [Next]_vars => GroupInv'
<1> SUFFICES ASSUME GroupInv, [Next]_vars PROVE GroupInv'
  OBVIOUS
<1>1. CASE UNCHANGED vars
  BY <1>1 DEF vars, GroupInv, TypeOK, HandsFull, ReadsOn, CommitsHandled,
              CommittedIsHandled, Handled
<1>2. ASSUME NEW c \in Consumers, Steps(c) PROVE GroupInv'
  <2> USE <1>2 DEF GroupInv
  <2>1. TypeOK'
    BY TypeStep
  <2>2. kind' = kind /\ \A m \in Offsets : Handled(m) => Handled(m)'
    BY HandledStays DEF Steps, Works, Start, Assign, Gets, Rebalance, Crash, Leaves, Poll,
       Handle, Commit, CommitDead, CommitsHand, CommitRaises, DeadLetter, CommitDeadRaises
  <2>3. processed \subseteq processed'
    BY DEF Steps, Works, Start, Assign, Gets, Rebalance, Crash, Leaves, Poll, Handle,
       Commit, CommitDead, CommitsHand, CommitRaises, DeadLetter, CommitDeadRaises
  <2>4. \A d \in Consumers : d # c =>
          position'[d] = position[d] /\ hand'[d] = hand[d] /\ pc'[d] = pc[d]
    BY OthersReadOn
  <2>5. HandsFull'
    BY <2>4, OwnStep DEF HandsFull
  <2>6. ReadsOn'
    <3>1. ASSUME NEW d \in Consumers, NEW m \in Offsets
          PROVE  /\ m < position'[d] =>
                      Handled(m)' \/ (m = hand'[d] /\ pc'[d] \in {"handling", "dead_letter"})
                 /\ m < hand'[d] => Handled(m)'
      <4>1. CASE d = c
        BY <4>1, OwnStep
      <4>2. CASE d # c
        BY <4>2, <2>2, <2>4 DEF ReadsOn
      <4> QED
        BY <4>1, <4>2
    <3> QED
      BY <3>1 DEF ReadsOn
  <2>7. CommitsHandled'
    <3>1. ASSUME NEW d \in Consumers
          PROVE  /\ pc'[d] \in {"commit", "commit_dead"} => Handled(hand[d])'
                 /\ pc'[d] = "dead_letter" /\ kind'[hand'[d]] = "valid" =>
                      hand'[d] \in processed'
      <4>1. CASE d = c
        BY <4>1, <2>2, OwnStep
      <4>2. CASE d # c
        <5>1. hand'[d] = hand[d] /\ pc'[d] = pc[d]
          BY <4>2, <2>4
        <5>2. pc'[d] \in {"commit", "commit_dead"} => Handled(hand[d])'
          <6> SUFFICES ASSUME pc'[d] \in {"commit", "commit_dead"}
                       PROVE  Handled(hand[d])'
            OBVIOUS
          <6>1. Handled(hand[d]) /\ hand[d] \in Offsets
            BY <5>1 DEF CommitsHandled, HandsFull
          <6> QED
            BY <5>1, <6>1, <2>2, <2>3 DEF Handled
        <5> QED
          BY <5>1, <5>2, <2>2, <2>3 DEF CommitsHandled
      <4> QED
        BY <4>1, <4>2
    <3> QED
      BY <3>1 DEF CommitsHandled
  <2>8. CommittedIsHandled'
    BY OwnStep DEF CommittedIsHandled
  <2> QED
    BY <2>1, <2>5, <2>6, <2>7, <2>8
<1> QED
  BY <1>1, <1>2, StepsOf

\* Every reachable state satisfies the invariant.
THEOREM GroupInvariant == Spec => []GroupInv
BY GroupInvInit, GroupInvStep, PTL DEF Spec

\* Nothing below the committed offset was passed over, whoever crashed, lost the
\* partition, committed late or had a commit refused.
THEOREM NothingPassedOver == Spec => []CommittedIsHandled
<1>1. GroupInv => CommittedIsHandled
  BY DEF GroupInv
<1> QED
  BY <1>1, GroupInvariant, PTL

\* Positions, partitions and offsets keep their types.
THEOREM GroupTypes == Spec => []TypeOK
<1>1. GroupInv => TypeOK
  BY DEF GroupInv
<1> QED
  BY <1>1, GroupInvariant, PTL

----------------------------------------------------------------------------
(* The group implements EventLog.                                           *)

LEMMA LogInit == Init => Log!Init
BY DEF Init, Log!Init, Handled, Offsets

\* The one step that takes care of an event, and those that move the offset.
LEMMA LogStep == GroupInv /\ [Next]_vars => [Log!Next]_Log!logVars
<1> SUFFICES ASSUME GroupInv, [Next]_vars
             PROVE  [Log!Next]_Log!logVars
  OBVIOUS
<1> DEFINE answered == {m \in Offsets : Handled(m)}
<1>v. committed' = committed /\ answered' = answered => [Log!Next]_Log!logVars
  BY DEF Log!logVars
<1>1. CASE UNCHANGED vars
  BY <1>1, <1>v DEF vars, Handled
<1>2. ASSUME NEW c \in Consumers, Steps(c) PROVE [Log!Next]_Log!logVars
  <2>1. CASE Handle(c) \/ DeadLetter(c)
    <3>1. hand[c] \in Offsets /\ committed' = committed
      BY <2>1 DEF Handle, DeadLetter, GroupInv, HandsFull
    <3>2. answered' = answered \/ answered' = answered \cup {hand[c]}
      <4>1. kind' = kind /\ \A m \in Offsets : Handled(m) => Handled(m)'
        BY <1>2, <2>1, HandledStays DEF Handle, DeadLetter
      <4>2. \A m \in Offsets : Handled(m)' => Handled(m) \/ m = hand[c]
        BY <2>1 DEF Handle, DeadLetter, Handled
      <4> QED
        BY <4>1, <4>2
    <3>3. answered' = answered \cup {hand[c]} => Log!Answer(hand[c])
      BY <3>1 DEF Log!Answer
    <3> QED
      BY <3>1, <3>2, <3>3, <1>v DEF Log!Next
  <2>2. CASE Commit(c) \/ CommitDead(c)
    <3>1. committed' = hand[c] + 1 /\ UNCHANGED <<kind, resultVars>>
      BY <2>2 DEF Commit, CommitDead, CommitsHand
    <3>2. answered' = answered
      BY <3>1 DEF Handled
    <3>3. \A m \in Offsets : m < committed' => Handled(m)
      BY <1>2, <3>1, OwnStep DEF Handled
    <3>4. hand[c] + 1 \in 1 .. NumMessages + 1
      BY <2>2 DEF Commit, CommitDead, GroupInv, HandsFull, Offsets
    <3>5. Log!Commit(hand[c] + 1)
      BY <3>1, <3>2, <3>3 DEF Log!Commit
    <3> QED
      BY <3>4, <3>5 DEF Log!Next
  <2>3. CASE /\ Steps(c)
             /\ ~(Handle(c) \/ DeadLetter(c) \/ Commit(c) \/ CommitDead(c))
    <3>1. UNCHANGED <<committed, kind, processed, deadLetters, undelivered>>
      BY <2>3 DEF Steps, Works, Start, Assign, Gets, Rebalance, Crash, Leaves, Poll,
         CommitRaises, CommitDeadRaises
    <3> QED
      BY <3>1, <1>v DEF Handled
  <2> QED
    BY <1>2, <2>1, <2>2, <2>3
<1> QED
  BY <1>1, <1>2, StepsOf

\* However its members come and go, the group answers one event at a time and commits
\* no offset past one that was not.
THEOREM GroupImplementsLog == Spec => LogKept
<1>1. Init => Log!Init
  BY LogInit
<1>2. GroupInv /\ [Next]_vars => [Log!Next]_Log!logVars
  BY LogStep
<1> QED
  BY <1>1, <1>2, GroupInvariant, PTL DEF Spec, LogKept, Log!Spec

\* What implements the log has passed no event below its committed offset: for the
\* group that is CommittedIsHandled, which LogKept thus contains.
THEOREM LogMeansHandled == LogKept => []CommittedIsHandled
<1>1. Log!Init => Log!CommittedIsAnswered
  BY DEF Log!Init, Log!CommittedIsAnswered
<1>2. Log!CommittedIsAnswered /\ [Log!Next]_Log!logVars => Log!CommittedIsAnswered'
  BY DEF Log!Next, Log!Answer, Log!Commit, Log!logVars, Log!CommittedIsAnswered
<1>3. Log!CommittedIsAnswered => CommittedIsHandled
  BY DEF Log!CommittedIsAnswered, CommittedIsHandled
<1> QED
  BY <1>1, <1>2, <1>3, PTL DEF LogKept, Log!Spec

=============================================================================

---------------------------- MODULE TopicConsumer ----------------------------
(***************************************************************************)
(* The consumers of one ingestion topic: BaseConsumer.run as the           *)
(* transaction, login and device consumers inherit it, several of them in  *)
(* one Kafka consumer group, and the dead-letter topic.                    *)
(*                                                                         *)
(* The group lets one member read the partition at a time and keeps its    *)
(* committed offset.  It may hand the partition to another member while    *)
(* the first is still working on an event, and a commit may be refused.    *)
(***************************************************************************)
EXTENDS Integers

CONSTANTS
  Consumers,     \* processes of the consumer group
  Nobody,        \* stands for none of them: the partition is unassigned
  NumMessages,   \* messages on the partition
  MaxFaults      \* bound: crashes, rebalances, refused commits, lost dead letters

ASSUME TopicConstantsOK ==
  /\ Nobody \notin Consumers
  /\ NumMessages \in Nat
  /\ MaxFaults \in Nat

Offsets == 1 .. NumMessages

VARIABLES
  kind,         \* whether the message at an offset deserializes and validates
  committed,    \* the group's committed offset: the next one to be read
  owner,        \* the member the partition is assigned to
  position,     \* where each consumer reads next
  hand,         \* the offset of the message each consumer is working on
  pc,           \* what each consumer is doing
  processed,    \* offsets whose event went through process()
  deadLetters,  \* offsets that have a copy on the dead-letter topic
  undelivered,  \* ghost: offsets whose copy was flushed but never delivered
  faults        \* faults so far

groupVars == <<committed, owner>>
resultVars == <<processed, deadLetters, undelivered>>
vars == <<kind, committed, owner, position, hand, pc, processed, deadLetters,
          undelivered, faults>>

Pcs == {"down", "polling", "handling", "commit", "dead_letter", "commit_dead"}

TypeOK ==
  /\ kind \in [Offsets -> {"valid", "malformed"}]
  /\ committed \in 1 .. NumMessages + 1
  /\ owner \in Consumers \cup {Nobody}
  /\ position \in [Consumers -> 1 .. NumMessages + 1]
  /\ hand \in [Consumers -> 0 .. NumMessages]
  /\ pc \in [Consumers -> Pcs]
  /\ processed \subseteq Offsets
  /\ deadLetters \subseteq Offsets
  /\ undelivered \subseteq Offsets
  /\ faults \in 0 .. MaxFaults

Init ==
  /\ kind \in [Offsets -> {"valid", "malformed"}]
  /\ committed = 1
  /\ owner = Nobody
  /\ position = [c \in Consumers |-> 1]
  /\ hand = [c \in Consumers |-> 0]
  /\ pc = [c \in Consumers |-> "down"]
  /\ processed = {}
  /\ deadLetters = {}
  /\ undelivered = {}
  /\ faults = 0

Fault ==
  /\ faults < MaxFaults
  /\ faults' = faults + 1

At(c, state) == pc' = [pc EXCEPT ![c] = state]

----------------------------------------------------------------------------
(* The consumer group.                                                      *)

\* run() subscribes.
Start(c) ==
  /\ pc[c] = "down"
  /\ At(c, "polling")
  /\ UNCHANGED <<kind, groupVars, position, hand, resultVars, faults>>

\* Mutant: auto.offset.reset = latest.
Gets_Latest(c) ==
  /\ owner' = c
  /\ position' = [position EXCEPT ![c] =
                    IF committed = 1 THEN NumMessages + 1 ELSE committed]

\* A live member is given the partition and reads on from the committed offset
\* ("earliest" is where a group without one begins).
Gets(c) ==
  /\ owner' = c
  /\ position' = [position EXCEPT ![c] = committed]

Assign(c) ==
  /\ pc[c] # "down"
  /\ owner = Nobody
  /\ Gets(c)
  /\ UNCHANGED <<kind, committed, hand, pc, resultVars, faults>>

\* The group takes the partition from a member that may be in the midst of an
\* event (a new member joins, or the old one was slow to poll).
Rebalance(c) ==
  /\ pc[c] # "down"
  /\ owner \notin {c, Nobody}
  /\ Gets(c)
  /\ Fault
  /\ UNCHANGED <<kind, committed, hand, pc, resultVars>>

\* run() ends, or its process does, with all it knew, and the group notices.
Leaves(c) ==
  /\ At(c, "down")
  /\ owner' = IF owner = c THEN Nobody ELSE owner
  /\ position' = [position EXCEPT ![c] = 1]
  /\ hand' = [hand EXCEPT ![c] = 0]
  /\ UNCHANGED <<kind, committed, resultVars>>

\* A kill, or a Kafka error other than the end of the partition: poll's caller
\* raises and closes the consumer.
Crash(c) ==
  /\ pc[c] # "down"
  /\ Fault
  /\ Leaves(c)

----------------------------------------------------------------------------
(* run().                                                                   *)

Poll(c) ==
  /\ pc[c] = "polling"
  /\ owner = c
  /\ position[c] \in Offsets
  /\ hand' = [hand EXCEPT ![c] = position[c]]
  /\ position' = [position EXCEPT ![c] = @ + 1]
  /\ At(c, "handling")
  /\ UNCHANGED <<kind, groupVars, resultVars, faults>>

\* deserialize and process: both raise for a malformed message only.
Handle(c) ==
  /\ pc[c] = "handling"
  /\ IF kind[hand[c]] = "valid"
       THEN At(c, "commit") /\ processed' = processed \cup {hand[c]}
       ELSE At(c, "dead_letter") /\ UNCHANGED processed
  /\ UNCHANGED <<kind, groupVars, position, hand, deadLetters, undelivered, faults>>

\* Mutant: the offset after the next message is committed.
CommitsHand_SkipsOne(c) ==
  /\ committed' = hand[c] + 2
  /\ At(c, "polling")
  /\ UNCHANGED <<kind, owner, position, hand, resultVars, faults>>

\* commit(message): the offset after the message, wherever the group stands.
CommitsHand(c) ==
  /\ committed' = hand[c] + 1
  /\ At(c, "polling")
  /\ UNCHANGED <<kind, owner, position, hand, resultVars, faults>>

\* The group refuses a commit from a member it has dropped; otherwise the call
\* fails for a reason of its own.
Refused(c) == IF owner = c THEN Fault ELSE UNCHANGED faults

Commit(c) == pc[c] = "commit" /\ CommitsHand(c)

\* A commit that raises is handled like an event that could not be processed.
CommitRaises(c) ==
  /\ pc[c] = "commit"
  /\ Refused(c)
  /\ At(c, "dead_letter")
  /\ UNCHANGED <<kind, groupVars, position, hand, resultVars>>

\* Mutant: the event is logged and skipped.
DeadLetter_LogsOnly(c) ==
  /\ pc[c] = "dead_letter"
  /\ At(c, "commit_dead")
  /\ UNCHANGED <<kind, groupVars, position, hand, resultVars, faults>>

\* _send_to_dlq: flush returns once the copy is delivered or given up, and the
\* consumer does not ask which.
DeadLetter(c) ==
  /\ pc[c] = "dead_letter"
  /\ \/ /\ deadLetters' = deadLetters \cup {hand[c]}
        /\ UNCHANGED <<undelivered, faults>>
     \/ /\ undelivered' = undelivered \cup {hand[c]}
        /\ Fault
        /\ UNCHANGED deadLetters
  /\ At(c, "commit_dead")
  /\ UNCHANGED <<kind, groupVars, position, hand, processed>>

CommitDead(c) == pc[c] = "commit_dead" /\ CommitsHand(c)

\* This commit is outside the try: run() ends.
CommitDeadRaises(c) ==
  /\ pc[c] = "commit_dead"
  /\ Refused(c)
  /\ Leaves(c)

Works(c) ==
  \/ Poll(c)
  \/ Handle(c)
  \/ Commit(c)
  \/ CommitRaises(c)
  \/ DeadLetter(c)
  \/ CommitDead(c)
  \/ CommitDeadRaises(c)

Next ==
  \E c \in Consumers :
    Start(c) \/ Assign(c) \/ Rebalance(c) \/ Crash(c) \/ Works(c)

Spec == Init /\ [][Next]_vars

\* A consumer that runs gets on with its loop, and the group does not leave the
\* partition unassigned while it has a member.
FairSpec ==
  /\ Spec
  /\ WF_vars(\E c \in Consumers : Assign(c))
  /\ \A c \in Consumers : WF_vars(Works(c))

----------------------------------------------------------------------------
(* Properties.                                                              *)

\* What becomes of an event that was taken care of: a valid one was processed,
\* a malformed one was sent to the dead-letter topic.
Handled(m) ==
  IF kind[m] = "valid" THEN m \in processed ELSE m \in deadLetters \cup undelivered

\* Nothing below the committed offset was passed over, whoever crashed, lost
\* the partition, committed late or had a commit refused.
CommittedIsHandled == \A m \in Offsets : m < committed => Handled(m)

\* A consumer at work holds a message.
HandsFull ==
  \A c \in Consumers :
    pc[c] \in {"handling", "commit", "dead_letter", "commit_dead"} => hand[c] \in Offsets

\* No consumer reads past an event that nobody took care of, its own apart.
ReadsOn ==
  \A c \in Consumers :
    /\ \A m \in Offsets : m < position[c] =>
         Handled(m) \/ (m = hand[c] /\ pc[c] \in {"handling", "dead_letter"})
    /\ \A m \in Offsets : m < hand[c] => Handled(m)

\* What it commits has been taken care of, and a valid event on its way to the
\* dead-letter topic was processed before (its commit was refused).
CommitsHandled ==
  \A c \in Consumers :
    /\ pc[c] \in {"commit", "commit_dead"} => Handled(hand[c])
    /\ pc[c] = "dead_letter" /\ kind[hand[c]] = "valid" => hand[c] \in processed

\* The inductive invariant behind CommittedIsHandled.
GroupInv ==
  /\ TypeOK
  /\ HandsFull
  /\ ReadsOn
  /\ CommitsHandled
  /\ CommittedIsHandled

\* The group implements EventLog: an event is answered when it is taken care of.
Log == INSTANCE EventLog WITH Size <- NumMessages, events <- Offsets,
                              answered <- {m \in Offsets : Handled(m)}

\* Whatever the members of the group do to each other, each step takes care of at most
\* one event or moves the committed offset, never past an event not yet taken care of.
LogKept == Log!Spec

\* As long as some consumer is running again and again, every event is taken
\* care of in the end.
EveryEventIsHandled ==
  ([]<>(\E c \in Consumers : pc[c] # "down")) =>
    \A m \in Offsets : <>Handled(m)

=============================================================================

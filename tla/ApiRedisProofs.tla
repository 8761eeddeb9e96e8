---------------------------- MODULE ApiRedisProofs ----------------------------
(***************************************************************************)
(* Theorems about what the API keeps in Redis.  The score cache, for any   *)
(* processes, types and lifetimes: only a race brings an overtaken score   *)
(* back, and the set of tested types outlives the recalls of its members.  *)
(* The rate limiter, for any requests, clients, limits and faults: the     *)
(* window holds, to the second, for the requests that the count admitted   *)
(* in time, and no refused request stays in it.                            *)
(***************************************************************************)
EXTENDS ScoreCache, RateLimit, FiniteSetTheorems, TLAPS

(***************************************************************************)
(* The score cache.                                                        *)
(***************************************************************************)

\* Processes whose call is counted and has its invalidation still to come.
Owing == {p \in Procs : proc[p].pc \in {"invalidate", "reset_cache"}}

\* No invalidation returns that no call began.
EpochsWereCalled == epoch + Cardinality(Owing) <= calls

\* A recall is counted once: before the GET of type n, at most n - 1 are.
CountsWhatItRead == \A p \in Procs : proc[p].pc = "recalls" => proc[p].covered < proc[p].next

\* A computation whose inputs an invalidation has overtaken is one of those that were
\* under way when the last invalidation returned.
OnlyRacesFallBehind ==
  \A p \in Procs : Computing(p) =>
    /\ proc[p].asOf <= epoch
    /\ proc[p].asOf < epoch => p \in racing

OnlyApiResets == \A p \in Procs : proc[p].pc \in {"reset_cache", "reset_tested"} => p \in Api

\* The set of tested types lives as long as any recall of a type in it.
TestedIsRenewed == \A a \in tested : recallLeft[a] <= testedLeft

\* The inductive invariant.
CacheInv ==
  /\ StateTypeOK
  /\ EpochsWereCalled
  /\ CountsWhatItRead
  /\ OnlyRacesFallBehind
  /\ OnlyApiResets
  /\ TestedIsRenewed
  /\ OnlyRacesReviveScores

----------------------------------------------------------------------------

LEMMA ProcsFinite == IsFiniteSet(Procs)
BY FS_Union, CacheConstantsOK DEF Procs

LEMMA OwingCount == IsFiniteSet(Owing) /\ Cardinality(Owing) \in Nat
<1>1. Owing \subseteq Procs
  BY DEF Owing
<1> QED
  BY <1>1, ProcsFinite, FS_Subset, FS_CardinalityType

\* A diversity is a number of types.
LEMMA DiversityType ==
  ASSUME tested \subseteq Types
  PROVE  Cardinality(tested) \in 0 .. NumTypes
<1>1. IsFiniteSet(Types) /\ Cardinality(Types) = NumTypes
  <2>1. 1 \in Int /\ NumTypes \in Int /\ NumTypes >= 1
    BY CacheConstantsOK
  <2> QED
    BY <2>1, FS_Interval DEF Types
<1>2. Cardinality(tested) <= Cardinality(Types) /\ IsFiniteSet(tested)
  BY <1>1, FS_Subset
<1>3. Cardinality(tested) \in Nat
  BY <1>2, FS_CardinalityType
<1> QED
  BY <1>1, <1>2, <1>3, CacheConstantsOK

\* The states a process can be given.
LEMMA ProcStates ==
  /\ Idle \in Proc
  /\ \A s \in Proc, pc \in Pcs : [s EXCEPT !.pc = pc] \in Proc
  /\ \A s \in Proc : s.pc \in Pcs /\ s.next \in Types /\ s.covered \in 0 .. NumTypes
                       /\ s.diverse \in 0 .. NumTypes /\ s.asOf \in 0 .. MaxCalls
BY CacheConstantsOK DEF Idle, Proc, Pcs, Types

\* What moving one process to a state it may be in does to the parts of the invariant
\* that speak of processes one by one, whatever else the step does.
LEMMA MoveKeeps ==
  ASSUME CacheInv, NEW p \in Procs, NEW s \in Proc, Goes(p, s),
         epoch' = epoch, racing' = racing,
         s.pc = "recalls" => s.covered < s.next,
         s.pc \in {"recalls", "diversity", "store"} =>
           s.asOf <= epoch /\ (s.asOf < epoch => p \in racing),
         s.pc \in {"reset_cache", "reset_tested"} => p \in Api
  PROVE  /\ proc' \in [Procs -> Proc]
         /\ CountsWhatItRead' /\ OnlyRacesFallBehind' /\ OnlyApiResets'
<1>1. proc \in [Procs -> Proc] /\ proc' = [proc EXCEPT ![p] = s]
  BY DEF CacheInv, StateTypeOK, Goes
<1>2. proc' \in [Procs -> Proc] /\ proc'[p] = s /\ \A q \in Procs : q # p => proc'[q] = proc[q]
  BY <1>1
<1>3. CountsWhatItRead /\ OnlyRacesFallBehind /\ OnlyApiResets
  BY DEF CacheInv
<1>4. CountsWhatItRead'
  BY <1>2, <1>3 DEF CountsWhatItRead
<1>5. OnlyRacesFallBehind'
  BY <1>2, <1>3 DEF OnlyRacesFallBehind, Computing
<1>6. OnlyApiResets'
  BY <1>2, <1>3 DEF OnlyApiResets
<1> QED
  BY <1>2, <1>4, <1>5, <1>6

\* The same for a step that notes an invalidation: the mover is not computing.
LEMMA InvalidationKeeps ==
  ASSUME CacheInv, NEW p \in Procs, NEW s \in Proc, Goes(p, s), NotesInvalidation,
         s.pc \notin {"recalls", "diversity", "store"},
         s.pc \in {"reset_cache", "reset_tested"} => p \in Api
  PROVE  /\ proc' \in [Procs -> Proc]
         /\ CountsWhatItRead' /\ OnlyRacesFallBehind' /\ OnlyApiResets'
         /\ racing' \subseteq Procs
<1>1. proc \in [Procs -> Proc] /\ proc' = [proc EXCEPT ![p] = s] /\ epoch \in Int
  BY DEF CacheInv, StateTypeOK, Goes
<1>2. proc' \in [Procs -> Proc] /\ proc'[p] = s /\ \A q \in Procs : q # p => proc'[q] = proc[q]
  BY <1>1
<1>3. CountsWhatItRead /\ OnlyRacesFallBehind /\ OnlyApiResets
  BY DEF CacheInv
<1>4. epoch' = epoch + 1 /\ racing' = {q \in Procs : Computing(q)}
  BY DEF NotesInvalidation
<1>5. CountsWhatItRead'
  BY <1>2, <1>3 DEF CountsWhatItRead
<1>6. OnlyRacesFallBehind'
  <2> SUFFICES ASSUME NEW q \in Procs, Computing(q)'
               PROVE  proc'[q].asOf <= epoch' /\ q \in racing'
    BY DEF OnlyRacesFallBehind
  <2>1. q # p
    BY <1>2 DEF Computing
  <2>2. Computing(q) /\ proc'[q] = proc[q]
    BY <2>1, <1>2 DEF Computing
  <2>3. proc[q].asOf <= epoch /\ proc[q].asOf \in Int
    BY <2>2, <1>1, <1>3 DEF OnlyRacesFallBehind, Proc
  <2> QED
    BY <2>2, <2>3, <1>1, <1>4
<1>7. OnlyApiResets'
  BY <1>2, <1>3 DEF OnlyApiResets
<1> QED
  BY <1>2, <1>4, <1>5, <1>6, <1>7

\* How a move changes the number of processes that owe an invalidation.
LEMMA MoveOwes ==
  ASSUME CacheInv, NEW p \in Procs, NEW s \in Proc, Goes(p, s)
  PROVE  /\ s.pc \notin {"invalidate", "reset_cache"} => Cardinality(Owing') <= Cardinality(Owing)
         /\ s.pc \notin {"invalidate", "reset_cache"} /\ p \in Owing =>
              Cardinality(Owing') = Cardinality(Owing) - 1
         /\ Cardinality(Owing') <= Cardinality(Owing) + 1
         /\ Cardinality(Owing') \in Nat
<1>1. proc \in [Procs -> Proc] /\ proc' = [proc EXCEPT ![p] = s]
  BY DEF CacheInv, StateTypeOK, Goes
<1>2. IsFiniteSet(Owing) /\ Cardinality(Owing) \in Nat
  BY OwingCount
<1>3. CASE s.pc \in {"invalidate", "reset_cache"}
  <2>1. Owing' = Owing \cup {p}
    BY <1>1, <1>3 DEF Owing
  <2>2. Cardinality(Owing') \in {Cardinality(Owing), Cardinality(Owing) + 1}
    BY <2>1, <1>2, FS_AddElement
  <2> QED
    BY <2>2, <1>2, <1>3
<1>4. CASE s.pc \notin {"invalidate", "reset_cache"}
  <2>1. Owing' = Owing \ {p}
    BY <1>1, <1>4 DEF Owing
  <2>2. IsFiniteSet(Owing') /\ Cardinality(Owing') \in Nat
    BY <2>1, <1>2, FS_RemoveElement, FS_CardinalityType
  <2>3. CASE p \in Owing
    <3>1. Cardinality(Owing') = Cardinality(Owing) - 1
      BY <2>1, <2>3, <1>2, FS_RemoveElement
    <3> QED
      BY <3>1, <2>2, <1>2
  <2>4. CASE p \notin Owing
    <3>1. Owing' = Owing
      BY <2>1, <2>4
    <3> QED
      BY <3>1, <2>4, <1>2
  <2> QED
    BY <2>3, <2>4
<1> QED
  BY <1>3, <1>4

\* A process that moves on without touching Redis or beginning a call.
LEMMA MoveIsKept ==
  ASSUME CacheInv, NEW p \in Procs, NEW s \in Proc, Goes(p, s),
         UNCHANGED <<up, outages, calls, redisVars, epoch, racing>>, history' \in BOOLEAN,
         s.pc \notin {"invalidate", "reset_cache"},
         s.pc = "recalls" => s.covered < s.next,
         s.pc \in {"recalls", "diversity", "store"} =>
           s.asOf <= epoch /\ (s.asOf < epoch => p \in racing),
         s.pc \in {"reset_cache", "reset_tested"} => p \in Api
  PROVE  CacheInv'
<1>1. /\ proc' \in [Procs -> Proc]
      /\ CountsWhatItRead' /\ OnlyRacesFallBehind' /\ OnlyApiResets'
  BY MoveKeeps
<1>2. StateTypeOK' /\ TestedIsRenewed' /\ OnlyRacesReviveScores'
  BY <1>1 DEF CacheInv, StateTypeOK, redisVars, TestedIsRenewed, OnlyRacesReviveScores
<1>3. EpochsWereCalled'
  <2>1. Cardinality(Owing') <= Cardinality(Owing) /\ Cardinality(Owing') \in Nat
    BY MoveOwes
  <2> QED
    BY <2>1, OwingCount DEF CacheInv, StateTypeOK, EpochsWereCalled
<1> QED
  BY <1>1, <1>2, <1>3 DEF CacheInv

\* invalidate_cache, by a process whose call it settles or which begins a call with it.
LEMMA InvalidationIsKept ==
  ASSUME CacheInv, NEW p \in Procs, NEW s \in Proc, Invalidates(p, s),
         s.pc \notin {"recalls", "diversity", "store", "invalidate", "reset_cache"},
         s.pc \in {"reset_cache", "reset_tested"} => p \in Api,
         calls' \in 0 .. MaxCalls,
         calls' = calls + 1 \/ (calls' = calls /\ p \in Owing)
  PROVE  CacheInv'
<1> USE CacheConstantsOK
<1>t. /\ StateTypeOK /\ calls \in Nat /\ epoch \in Nat /\ cache \in Payload
  BY DEF CacheInv, StateTypeOK
<1>g. Goes(p, s) /\ UNCHANGED <<up, outages, recall, recallLeft, tested, testedLeft, history>>
  BY DEF Invalidates
<1>o. /\ Cardinality(Owing) \in Nat /\ Cardinality(Owing') \in Nat
      /\ epoch + Cardinality(Owing) <= calls
      /\ Cardinality(Owing') <= Cardinality(Owing)
      /\ p \in Owing => Cardinality(Owing') = Cardinality(Owing) - 1
  BY <1>g, OwingCount, MoveOwes DEF CacheInv, EpochsWereCalled
<1>r. TestedIsRenewed'
  BY <1>g DEF CacheInv, TestedIsRenewed
<1>n. NoScore \in Payload
  BY DEF NoScore, Payload
<1>1. CASE up
  <2>1. cache' = NoScore /\ cacheLeft' = 0 /\ NotesInvalidation
    BY <1>1 DEF Invalidates, DropsScore
  <2>2. /\ proc' \in [Procs -> Proc] /\ racing' \subseteq Procs
        /\ CountsWhatItRead' /\ OnlyRacesFallBehind' /\ OnlyApiResets'
    BY <1>g, <2>1, InvalidationKeeps
  <2>3. epoch' = epoch + 1
    BY <2>1 DEF NotesInvalidation
  <2>4. epoch' + Cardinality(Owing') <= calls'
    BY <2>3, <1>o, <1>t
  <2>5. epoch' \in 0 .. MaxCalls
    BY <2>3, <2>4, <1>o, <1>t
  <2>6. StateTypeOK'
    BY <1>t, <1>g, <1>n, <2>1, <2>2, <2>5 DEF StateTypeOK
  <2>7. OnlyRacesReviveScores'
    BY <2>1 DEF OnlyRacesReviveScores
  <2> QED
    BY <1>r, <2>2, <2>4, <2>6, <2>7 DEF CacheInv, EpochsWereCalled
<1>2. CASE ~up
  <2>1. UNCHANGED <<cache, cacheLeft, epoch, racing>>
    BY <1>2 DEF Invalidates
  <2>2. /\ proc' \in [Procs -> Proc]
        /\ CountsWhatItRead' /\ OnlyRacesFallBehind' /\ OnlyApiResets'
    BY <1>g, <2>1, MoveKeeps
  <2>3. epoch' + Cardinality(Owing') <= calls'
    BY <2>1, <1>o, <1>t
  <2>4. StateTypeOK'
    BY <1>t, <1>g, <2>1, <2>2 DEF StateTypeOK
  <2>5. OnlyRacesReviveScores'
    BY <2>1 DEF CacheInv, OnlyRacesReviveScores
  <2> QED
    BY <1>r, <2>2, <2>3, <2>4, <2>5 DEF CacheInv, EpochsWereCalled
<1> QED
  BY <1>1, <1>2

LEMMA CacheInvInit == Init => CacheInv
<1> SUFFICES ASSUME Init PROVE CacheInv
  OBVIOUS
<1>1. StateTypeOK
  <2>1. NoScore \in Payload
    BY CacheConstantsOK DEF NoScore, Payload
  <2>2. Idle \in Proc
    BY ProcStates
  <2>3. proc \in [Procs -> Proc] /\ cache \in Payload
    BY <2>1, <2>2 DEF Init
  <2>4. /\ recall \in [Types -> {"none", "low", "good"}]
        /\ recallLeft \in [Types -> 0 .. Window]
    BY CacheConstantsOK DEF Init
  <2>5. up \in BOOLEAN /\ history \in BOOLEAN
    BY DEF Init
  <2> QED
    BY <2>3, <2>4, <2>5, CacheConstantsOK DEF Init, StateTypeOK
<1>2. EpochsWereCalled
  <2>1. Owing = {}
    BY DEF Init, Owing, Idle
  <2> QED
    BY <2>1, FS_EmptySet DEF Init, EpochsWereCalled
<1>3. CountsWhatItRead /\ OnlyRacesFallBehind /\ OnlyApiResets
  BY DEF Init, Idle, Computing, CountsWhatItRead, OnlyRacesFallBehind, OnlyApiResets
<1>4. TestedIsRenewed /\ OnlyRacesReviveScores
  BY DEF Init, TestedIsRenewed, OnlyRacesReviveScores
<1> QED
  BY <1>1, <1>2, <1>3, <1>4 DEF CacheInv

----------------------------------------------------------------------------
(* The clock and Redis.                                                     *)

LEMMA TickKeeps == CacheInv /\ Tick => CacheInv'
<1> SUFFICES ASSUME CacheInv, Tick PROVE CacheInv'
  OBVIOUS
<1> USE CacheConstantsOK
<1>t. StateTypeOK
  BY DEF CacheInv
<1>l. \A n \in Nat : Less(n) \in Nat /\ Less(n) <= n /\ (n <= 1 => Less(n) = 0)
                       /\ (n > 0 => Less(n) = n - 1)
  BY DEF Less
<1>1. /\ recall' \in [Types -> {"none", "low", "good"}]
      /\ recallLeft' \in [Types -> 0 .. Window]
      /\ \A a \in Types : recallLeft'[a] = Less(recallLeft[a])
  <2>1. \A a \in Types : recallLeft[a] \in 0 .. Window /\ recall[a] \in {"none", "low", "good"}
    BY <1>t DEF StateTypeOK
  <2>2. \A a \in Types : Less(recallLeft[a]) \in 0 .. Window
    BY <2>1, <1>l
  <2>3. \A a \in Types : (IF recallLeft[a] <= 1 THEN "none" ELSE recall[a]) \in {"none", "low", "good"}
    BY <2>1
  <2> QED
    BY <2>2, <2>3 DEF Tick
<1>2. testedLeft' = Less(testedLeft) /\ testedLeft' \in 0 .. Window
  BY <1>t, <1>l DEF Tick, StateTypeOK
<1>3. tested' \subseteq Types
  BY <1>t DEF Tick, StateTypeOK
<1>4. cacheLeft' \in 0 .. Ttl /\ cacheLeft' = Less(cacheLeft)
  BY <1>t, <1>l DEF Tick, StateTypeOK
<1>5. cache' \in Payload
  <2>1. NoScore \in Payload
    BY DEF NoScore, Payload
  <2> QED
    BY <2>1, <1>t DEF Tick, StateTypeOK
<1>u. UNCHANGED <<up, outages, calls, history, epoch, racing, proc>>
  BY DEF Tick
<1>6. StateTypeOK'
  BY <1>t, <1>u, <1>1, <1>2, <1>3, <1>4, <1>5 DEF StateTypeOK
<1>7. TestedIsRenewed'
  <2> SUFFICES ASSUME NEW a \in tested' PROVE recallLeft'[a] <= testedLeft'
    BY DEF TestedIsRenewed
  <2>1. testedLeft > 1 /\ a \in tested /\ a \in Types
    BY <1>t DEF Tick, StateTypeOK
  <2>2. /\ testedLeft' = testedLeft - 1 /\ recallLeft[a] <= testedLeft
        /\ testedLeft \in Nat /\ recallLeft[a] \in Nat
    BY <1>t, <1>l, <1>2, <2>1 DEF StateTypeOK, CacheInv, TestedIsRenewed
  <2>3. CASE recallLeft[a] = 0
    <3>1. recallLeft'[a] = 0
      BY <2>1, <2>3, <1>1, <1>l
    <3> QED
      BY <3>1, <2>1, <2>2
  <2>4. CASE recallLeft[a] > 0
    <3>1. recallLeft'[a] = recallLeft[a] - 1
      BY <2>1, <2>2, <2>4, <1>1, <1>l
    <3> QED
      BY <3>1, <2>2
  <2> QED
    BY <2>2, <2>3, <2>4
<1>8. OnlyRacesReviveScores'
  <2> SUFFICES ASSUME cacheLeft' > 0 PROVE cache' = cache /\ cacheLeft > 0
    BY <1>u DEF CacheInv, OnlyRacesReviveScores
  <2>1. cacheLeft \in Nat /\ ~(cacheLeft <= 1)
    BY <1>t, <1>4, <1>l DEF StateTypeOK
  <2>2. cache' = cache
    BY <2>1 DEF Tick
  <2> QED
    BY <2>1, <2>2, <1>4, <1>l
<1>9. EpochsWereCalled' /\ CountsWhatItRead' /\ OnlyRacesFallBehind' /\ OnlyApiResets'
  <2>1. Owing' = Owing
    BY <1>u DEF Owing
  <2> QED
    BY <2>1, <1>u DEF CacheInv, EpochsWereCalled, CountsWhatItRead, OnlyRacesFallBehind, Computing,
                      OnlyApiResets
<1> QED
  BY <1>6, <1>7, <1>8, <1>9 DEF CacheInv

\* Redis going out of reach and coming back, and steps that leave everything alone.
LEMMA RedisKeeps ==
  ASSUME CacheInv, UNCHANGED <<calls, redisVars, history, epoch, racing, proc>>,
         up' \in BOOLEAN, outages' \in 0 .. MaxOutages
  PROVE  CacheInv'
<1>1. Owing' = Owing
  BY DEF Owing
<1> QED
  BY <1>1 DEF CacheInv, StateTypeOK, redisVars, EpochsWereCalled, CountsWhatItRead,
              OnlyRacesFallBehind, Computing, OnlyApiResets, TestedIsRenewed, OnlyRacesReviveScores

----------------------------------------------------------------------------
(* get_score and the calls that change its inputs.                          *)

LEMMA LookupKeeps == CacheInv /\ (\E p \in Procs : Lookup(p)) => CacheInv'
<1> SUFFICES ASSUME CacheInv, NEW p \in Procs, Lookup(p) PROVE CacheInv'
  OBVIOUS
<1> DEFINE s == IF up /\ cacheLeft > 0 THEN Idle
                ELSE [Idle EXCEPT !.pc = "recalls", !.asOf = epoch]
<1>1. s \in Proc
  <2>1. epoch \in 0 .. MaxCalls /\ Idle \in Proc
    BY ProcStates DEF CacheInv, StateTypeOK
  <2>2. [Idle EXCEPT !.pc = "recalls", !.asOf = epoch] \in Proc
    BY <2>1 DEF Proc, Pcs
  <2> QED
    BY <2>1, <2>2
<1>2. /\ s.pc \in {"idle", "recalls"}
      /\ s.pc = "recalls" => s.covered < s.next /\ s.asOf = epoch
      /\ epoch \in Nat
  BY DEF Idle, CacheInv, StateTypeOK
<1>3. Goes(p, s) /\ UNCHANGED <<up, outages, calls, redisVars, history, epoch, racing>>
  BY DEF Lookup
<1>4. history' \in BOOLEAN
  BY <1>3 DEF CacheInv, StateTypeOK
<1> HIDE DEF s
<1> QED
  BY <1>1, <1>2, <1>3, <1>4, MoveIsKept

LEMMA ReadRecallKeeps == CacheInv /\ (\E p \in Procs : ReadRecall(p)) => CacheInv'
<1> SUFFICES ASSUME CacheInv, NEW p \in Procs, ReadRecall(p) PROVE CacheInv'
  OBVIOUS
<1> DEFINE o == proc[p]
           n == o.covered + (IF Covers(o.next) THEN 1 ELSE 0)
           s == IF ~up THEN [o EXCEPT !.pc = "diversity", !.covered = 0]
                ELSE IF LastType(o.next) THEN [o EXCEPT !.pc = "diversity", !.covered = n]
                ELSE [o EXCEPT !.next = o.next + 1, !.covered = n]
<1>1. o \in Proc /\ o.pc = "recalls" /\ o.covered < o.next
  BY DEF CacheInv, StateTypeOK, CountsWhatItRead, ReadRecall
<1>2. o.covered \in Nat /\ o.next \in Nat /\ o.next <= NumTypes /\ NumTypes \in Nat
  BY <1>1, CacheConstantsOK DEF Proc, Types
<1>3. n \in Nat /\ n <= o.next
  BY <1>1, <1>2
<1>4. /\ ~LastType(o.next) => o.next + 1 \in Types /\ n < o.next + 1
      /\ n \in 0 .. NumTypes /\ 0 \in 0 .. NumTypes
  BY <1>2, <1>3, CacheConstantsOK DEF LastType, Types
<1>5. /\ s \in Proc /\ s.pc \in {"recalls", "diversity"} /\ s.asOf = o.asOf
      /\ s.pc = "recalls" => s.covered < s.next
  <2> HIDE DEF n
  <2>1. CASE ~up
    BY <1>1, <1>4, <2>1 DEF Proc, Pcs
  <2>2. CASE up /\ LastType(o.next)
    BY <1>1, <1>4, <2>2 DEF Proc, Pcs
  <2>3. CASE up /\ ~LastType(o.next)
    BY <1>1, <1>4, <2>3 DEF Proc, Pcs
  <2> QED
    BY <2>1, <2>2, <2>3
<1>6. Goes(p, s) /\ UNCHANGED <<up, outages, calls, redisVars, history, epoch, racing>>
  BY DEF ReadRecall
<1>7. o.asOf <= epoch /\ (o.asOf < epoch => p \in racing)
  BY <1>1 DEF CacheInv, OnlyRacesFallBehind, Computing
<1>8. history' \in BOOLEAN
  BY <1>6 DEF CacheInv, StateTypeOK
<1> HIDE DEF s, o
<1> QED
  BY <1>5, <1>6, <1>7, <1>8, MoveIsKept

LEMMA ReadTestedKeeps == CacheInv /\ (\E p \in Procs : ReadTested(p)) => CacheInv'
<1> SUFFICES ASSUME CacheInv, NEW p \in Procs, ReadTested(p) PROVE CacheInv'
  OBVIOUS
<1> DEFINE d == IF up THEN Cardinality(tested) ELSE 0
           s == [proc[p] EXCEPT !.pc = "store", !.diverse = d]
<1>1. proc[p] \in Proc /\ proc[p].pc = "diversity"
  BY DEF CacheInv, StateTypeOK, ReadTested
<1>2. d \in 0 .. NumTypes
  BY DiversityType, CacheConstantsOK DEF CacheInv, StateTypeOK
<1>3. s \in Proc /\ s.pc = "store" /\ s.asOf = proc[p].asOf
  <2> HIDE DEF d
  <2> QED
    BY <1>1, <1>2 DEF Proc, Pcs
<1>4. Goes(p, s) /\ UNCHANGED <<up, outages, calls, redisVars, history, epoch, racing>>
  BY DEF ReadTested
<1>5. proc[p].asOf <= epoch /\ (proc[p].asOf < epoch => p \in racing)
  BY <1>1 DEF CacheInv, OnlyRacesFallBehind, Computing
<1>6. history' \in BOOLEAN
  BY <1>4 DEF CacheInv, StateTypeOK
<1> HIDE DEF s
<1> QED
  BY <1>3, <1>4, <1>5, <1>6, MoveIsKept

\* The step that could revive a score: only a racing process stores one that is behind.
LEMMA StoreKeeps == CacheInv /\ (\E p \in Procs : Store(p)) => CacheInv'
<1> SUFFICES ASSUME CacheInv, NEW p \in Procs, Store(p) PROVE CacheInv'
  OBVIOUS
<1> USE CacheConstantsOK
<1> DEFINE s == [Idle EXCEPT !.pc = "persist"]
<1>t. StateTypeOK
  BY DEF CacheInv
<1>1. s \in Proc /\ s.pc = "persist"
  BY DEF Idle, Proc, Pcs, Types
<1>2. /\ Goes(p, s) /\ proc[p].pc = "store" /\ proc[p] \in Proc
      /\ UNCHANGED <<up, outages, calls, recall, recallLeft, tested, testedLeft, history,
                     epoch, racing>>
      /\ cache' = IF up THEN Computed(p) ELSE cache
      /\ cacheLeft' = IF up THEN Ttl ELSE cacheLeft
  BY <1>t DEF Store, StateTypeOK
<1> HIDE DEF s
<1>3. /\ proc' \in [Procs -> Proc]
      /\ CountsWhatItRead' /\ OnlyRacesFallBehind' /\ OnlyApiResets'
  BY <1>1, <1>2, MoveKeeps
<1>4. Computed(p) \in Payload
  BY <1>2 DEF Computed, Payload, Proc
<1>5. StateTypeOK'
  <2>1. cache' \in Payload /\ cacheLeft' \in 0 .. Ttl
    BY <1>2, <1>4, <1>t DEF StateTypeOK
  <2> QED
    BY <1>2, <1>3, <2>1, <1>t DEF StateTypeOK
<1>6. EpochsWereCalled'
  <2>1. Cardinality(Owing') <= Cardinality(Owing) /\ Cardinality(Owing') \in Nat
    BY <1>1, <1>2, MoveOwes
  <2> QED
    BY <2>1, <1>2, OwingCount DEF CacheInv, StateTypeOK, EpochsWereCalled
<1>7. TestedIsRenewed'
  BY <1>2 DEF CacheInv, TestedIsRenewed
<1>8. OnlyRacesReviveScores'
  <2>1. proc[p].asOf < epoch => p \in racing
    BY <1>2 DEF CacheInv, OnlyRacesFallBehind, Computing
  <2>2. CASE up
    <3>1. cache'.asOf = proc[p].asOf /\ cache'.by = p
      BY <1>2, <2>2 DEF Computed
    <3> QED
      BY <2>1, <3>1, <1>2 DEF OnlyRacesReviveScores
  <2>3. CASE ~up
    BY <1>2, <2>3 DEF CacheInv, OnlyRacesReviveScores
  <2> QED
    BY <2>2, <2>3
<1> QED
  BY <1>3, <1>5, <1>6, <1>7, <1>8 DEF CacheInv

\* Persist, ResetHistory and Crash: the process is idle again, and Redis is left alone.
LEMMA EndKeeps ==
  CacheInv /\ (\E p \in Procs : Persist(p) \/ ResetHistory(p) \/ Crash(p)) => CacheInv'
<1> SUFFICES ASSUME CacheInv, NEW p \in Procs, Persist(p) \/ ResetHistory(p) \/ Crash(p)
             PROVE  CacheInv'
  OBVIOUS
<1>1. Goes(p, Idle) /\ UNCHANGED <<up, outages, calls, redisVars, epoch, racing>>
  BY DEF Persist, ResetHistory, Crash
<1>2. history' \in BOOLEAN
  BY DEF Persist, ResetHistory, Crash, CacheInv, StateTypeOK
<1>3. Idle \in Proc /\ Idle.pc = "idle"
  BY ProcStates DEF Idle
<1> QED
  BY <1>1, <1>2, <1>3, MoveIsKept

\* The calls that begin or settle with invalidate_cache.
LEMMA InvalidatorsKeep ==
  CacheInv /\ (\E p \in Procs : \/ InvalidateRequest(p) \/ StartBaseline(p)
                                \/ FinishRecord(p) \/ ResetCache(p)) => CacheInv'
<1> SUFFICES ASSUME CacheInv, NEW p \in Procs,
                    \/ InvalidateRequest(p) \/ StartBaseline(p)
                    \/ FinishRecord(p) \/ ResetCache(p)
             PROVE  CacheInv'
  OBVIOUS
<1>t. calls \in 0 .. MaxCalls /\ proc[p] \in Proc /\ MaxCalls \in Nat
  BY CacheConstantsOK DEF CacheInv, StateTypeOK
<1>i. Idle \in Proc /\ Idle.pc = "idle"
  BY ProcStates DEF Idle
<1>c. Calls(p) => calls' = calls + 1 /\ calls' \in 0 .. MaxCalls
  BY <1>t DEF Calls
<1>1. CASE InvalidateRequest(p)
  BY <1>1, <1>i, <1>c, InvalidationIsKept DEF InvalidateRequest
<1>2. CASE StartBaseline(p)
  <2>1. Pc(p, "lookup") \in Proc /\ Pc(p, "lookup").pc = "lookup"
    BY <1>t DEF Pc, Proc, Pcs
  <2> QED
    BY <1>2, <2>1, <1>c, InvalidationIsKept DEF StartBaseline
<1>3. CASE FinishRecord(p)
  <2>1. p \in Owing /\ calls' = calls /\ Invalidates(p, Idle)
    BY <1>3 DEF FinishRecord, Owing
  <2> QED
    BY <2>1, <1>i, <1>t, InvalidationIsKept
<1>4. CASE ResetCache(p)
  <2> DEFINE s == OrHistory(Pc(p, "reset_tested"))
  <2>1. p \in Owing /\ calls' = calls /\ Invalidates(p, s)
    BY <1>4 DEF ResetCache, Owing
  <2>2. s \in Proc /\ s.pc \in {"reset_tested", "reset_history"}
    BY <1>t, <1>i DEF OrHistory, Pc, Proc, Pcs, Idle
  <2>3. p \in Api
    BY <1>4 DEF ResetCache, CacheInv, OnlyApiResets
  <2> HIDE DEF s
  <2> QED
    BY <2>1, <2>2, <2>3, <1>t, InvalidationIsKept
<1> QED
  BY <1>1, <1>2, <1>3, <1>4

\* The pipeline of record_scenario_run renews the set and the key of its type; the call
\* now owes an invalidation.
LEMMA RecordRunKeeps == CacheInv /\ (\E p \in Procs : RecordRun(p)) => CacheInv'
<1> SUFFICES ASSUME CacheInv, NEW p \in Procs, RecordRun(p) PROVE CacheInv'
  OBVIOUS
<1> USE CacheConstantsOK
<1> DEFINE s == AfterRecording(p)
<1>t. StateTypeOK /\ proc[p] \in Proc
  BY DEF CacheInv, StateTypeOK
<1>1. s \in Proc /\ s.pc = "invalidate"
  BY <1>t DEF AfterRecording, Pc, Proc, Pcs
<1>2. /\ Goes(p, s) /\ calls' = calls + 1 /\ calls < MaxCalls
      /\ UNCHANGED <<up, outages, cache, cacheLeft, history, epoch, racing>>
      /\ testedLeft' = Window
  BY DEF RecordRun, Calls, TestedLife
<1> HIDE DEF s
<1>3. PICK a \in Types, r \in {"low", "good"} :
        /\ recall' = [recall EXCEPT ![a] = r]
        /\ recallLeft' = [recallLeft EXCEPT ![a] = Window]
        /\ tested' = tested \cup {a}
  BY DEF RecordRun
<1>4. /\ proc' \in [Procs -> Proc]
      /\ CountsWhatItRead' /\ OnlyRacesFallBehind' /\ OnlyApiResets'
  BY <1>1, <1>2, MoveKeeps
<1>5. recallLeft' \in [Types -> 0 .. Window]
  BY <1>3, <1>t DEF StateTypeOK
<1>6. StateTypeOK'
  <2>1. recall' \in [Types -> {"none", "low", "good"}] /\ tested' \subseteq Types
    BY <1>3, <1>t DEF StateTypeOK
  <2>2. calls' \in 0 .. MaxCalls /\ testedLeft' \in 0 .. Window
    BY <1>2, <1>t DEF StateTypeOK
  <2> QED
    BY <2>1, <2>2, <1>2, <1>4, <1>5, <1>t DEF StateTypeOK
<1>7. EpochsWereCalled'
  <2>1. Cardinality(Owing') <= Cardinality(Owing) + 1 /\ Cardinality(Owing') \in Nat
    BY <1>1, <1>2, MoveOwes
  <2> QED
    BY <2>1, <1>2, OwingCount DEF CacheInv, StateTypeOK, EpochsWereCalled
<1>8. TestedIsRenewed'
  BY <1>2, <1>5, <1>6 DEF TestedIsRenewed, StateTypeOK
<1>9. OnlyRacesReviveScores'
  BY <1>2 DEF CacheInv, OnlyRacesReviveScores
<1> QED
  BY <1>4, <1>6, <1>7, <1>8, <1>9 DEF CacheInv

\* The pipeline of the admin seed writes every key and drops the cached score at once.
LEMMA SeedKeeps == CacheInv /\ (\E p \in Procs : Seed(p)) => CacheInv'
<1> SUFFICES ASSUME CacheInv, NEW p \in Procs, Seed(p) PROVE CacheInv'
  OBVIOUS
<1> USE CacheConstantsOK
<1>t. StateTypeOK /\ proc[p] \in Proc
  BY DEF CacheInv, StateTypeOK
<1>1. /\ proc[p].pc = "idle" /\ calls < MaxCalls /\ calls' = calls + 1
      /\ UNCHANGED <<up, outages, proc>> /\ history' \in BOOLEAN
  BY <1>t DEF Seed, Calls, StateTypeOK
<1>2. Goes(p, proc[p])
  BY <1>1, <1>t DEF Goes, StateTypeOK
<1>3. Owing' = Owing
  BY <1>1 DEF Owing
<1>4. Cardinality(Owing) \in Nat /\ epoch + Cardinality(Owing) <= calls /\ epoch \in Nat /\ calls \in Nat
  BY <1>t, OwingCount DEF CacheInv, EpochsWereCalled, StateTypeOK
<1>5. calls' \in 0 .. MaxCalls
  BY <1>1, <1>4
<1>6. CASE up
  <2>1. /\ recall' = [a \in Types |-> IF a \in DemoCovered THEN "good" ELSE "low"]
        /\ recallLeft' = [a \in Types |-> Window]
        /\ tested' = Types /\ testedLeft' = Window
        /\ cache' = NoScore /\ cacheLeft' = 0 /\ NotesInvalidation
    BY <1>6 DEF Seed, DropsScore
  <2>2. epoch' = epoch + 1
    BY <2>1 DEF NotesInvalidation
  <2>3. /\ racing' \subseteq Procs
        /\ CountsWhatItRead' /\ OnlyRacesFallBehind' /\ OnlyApiResets'
    BY <1>1, <1>2, <1>t, <2>1, InvalidationKeeps
  <2>4. EpochsWereCalled' /\ epoch' \in 0 .. MaxCalls
    BY <1>1, <1>3, <1>4, <2>2 DEF EpochsWereCalled
  <2>5. StateTypeOK'
    <3>1. NoScore \in Payload
      BY DEF NoScore, Payload
    <3>2. /\ recall' \in [Types -> {"none", "low", "good"}]
          /\ recallLeft' \in [Types -> 0 .. Window]
      BY <2>1
    <3> QED
      BY <3>1, <3>2, <1>1, <1>5, <1>t, <2>1, <2>3, <2>4 DEF StateTypeOK
  <2>6. TestedIsRenewed' /\ OnlyRacesReviveScores'
    BY <2>1 DEF TestedIsRenewed, OnlyRacesReviveScores
  <2> QED
    BY <2>3, <2>4, <2>5, <2>6 DEF CacheInv
<1>7. CASE ~up
  <2>1. UNCHANGED <<redisVars, epoch, racing>>
    BY <1>7 DEF Seed
  <2>2. StateTypeOK'
    BY <1>1, <1>5, <1>t, <2>1 DEF StateTypeOK, redisVars
  <2>3. EpochsWereCalled'
    BY <1>1, <1>3, <1>4, <2>1 DEF EpochsWereCalled
  <2> QED
    BY <1>1, <2>1, <2>2, <2>3 DEF CacheInv, redisVars, CountsWhatItRead, OnlyRacesFallBehind,
          Computing, OnlyApiResets, TestedIsRenewed, OnlyRacesReviveScores
<1> QED
  BY <1>6, <1>7

\* A reset begins: it owes an invalidation.
LEMMA StartResetKeeps == CacheInv /\ (\E p \in Procs : StartReset(p)) => CacheInv'
<1> SUFFICES ASSUME CacheInv, NEW p \in Procs, StartReset(p) PROVE CacheInv'
  OBVIOUS
<1> USE CacheConstantsOK
<1> DEFINE s == Pc(p, "reset_cache")
<1>t. StateTypeOK /\ proc[p] \in Proc
  BY DEF CacheInv, StateTypeOK
<1>1. s \in Proc /\ s.pc = "reset_cache"
  BY <1>t DEF Pc, Proc, Pcs
<1>2. /\ Goes(p, s) /\ calls' = calls + 1 /\ calls < MaxCalls /\ p \in Api
      /\ UNCHANGED <<up, outages, redisVars, history, epoch, racing>>
  BY DEF StartReset, Calls
<1> HIDE DEF s
<1>3. /\ proc' \in [Procs -> Proc]
      /\ CountsWhatItRead' /\ OnlyRacesFallBehind' /\ OnlyApiResets'
  BY <1>1, <1>2, MoveKeeps
<1>4. StateTypeOK'
  <2>1. calls' \in 0 .. MaxCalls
    BY <1>2, <1>t DEF StateTypeOK
  <2> QED
    BY <2>1, <1>2, <1>3, <1>t DEF StateTypeOK, redisVars
<1>5. EpochsWereCalled'
  <2>1. Cardinality(Owing') <= Cardinality(Owing) + 1 /\ Cardinality(Owing') \in Nat
    BY <1>1, <1>2, MoveOwes
  <2> QED
    BY <2>1, <1>2, OwingCount DEF CacheInv, StateTypeOK, EpochsWereCalled
<1>6. TestedIsRenewed' /\ OnlyRacesReviveScores'
  BY <1>2 DEF redisVars, CacheInv, TestedIsRenewed, OnlyRacesReviveScores
<1> QED
  BY <1>3, <1>4, <1>5, <1>6 DEF CacheInv

\* The deletions of a reset, after the cached score's.
LEMMA DeletionsKeep ==
  CacheInv /\ (\E p \in Procs : ResetTested(p) \/ ResetRecall(p)) => CacheInv'
<1> SUFFICES ASSUME CacheInv, NEW p \in Procs, ResetTested(p) \/ ResetRecall(p)
             PROVE  CacheInv'
  OBVIOUS
<1> USE CacheConstantsOK
<1>t. StateTypeOK /\ proc[p] \in Proc /\ Idle \in Proc
  BY ProcStates DEF CacheInv, StateTypeOK
<1>1. PICK s \in Proc : /\ Goes(p, s)
                        /\ s.pc \in {"reset_recalls", "reset_history"}
  <2> DEFINE h == [Idle EXCEPT !.pc = "reset_history"]
  <2>1. h \in Proc /\ h.pc = "reset_history"
    BY <1>t DEF Proc, Pcs
  <2>2. CASE ResetTested(p)
    <3>1. Pc(p, "reset_recalls") \in Proc /\ Pc(p, "reset_recalls").pc = "reset_recalls"
      BY <1>t DEF Pc, Proc, Pcs
    <3> QED
      BY <2>1, <2>2, <3>1 DEF ResetTested, OrHistory
  <2>3. CASE ResetRecall(p)
    <3> DEFINE n == [proc[p] EXCEPT !.next = proc[p].next + 1]
    <3>1. ~LastType(proc[p].next) => n \in Proc /\ n.pc = "reset_recalls"
      BY <1>t, <2>3 DEF LastType, Proc, Types, ResetRecall
    <3> HIDE DEF n, h
    <3>2. Goes(p, IF up THEN IF LastType(proc[p].next) THEN h ELSE n ELSE h)
      BY <2>3 DEF ResetRecall, OrHistory, n, h
    <3> QED
      BY <2>1, <3>1, <3>2
  <2> QED
    BY <2>2, <2>3
<1>2. UNCHANGED <<up, outages, calls, cache, cacheLeft, history, epoch, racing>>
  BY DEF ResetTested, ResetRecall
<1>3. /\ proc' \in [Procs -> Proc]
      /\ CountsWhatItRead' /\ OnlyRacesFallBehind' /\ OnlyApiResets'
  BY <1>1, <1>2, MoveKeeps
<1>4. EpochsWereCalled'
  <2>1. Cardinality(Owing') <= Cardinality(Owing) /\ Cardinality(Owing') \in Nat
    BY <1>1, MoveOwes
  <2> QED
    BY <2>1, <1>2, OwingCount DEF CacheInv, StateTypeOK, EpochsWereCalled
<1>5. /\ recall' \in [Types -> {"none", "low", "good"}]
      /\ recallLeft' \in [Types -> 0 .. Window]
      /\ tested' \subseteq Types /\ testedLeft' \in 0 .. Window
      /\ TestedIsRenewed'
  <2>1. CASE ResetTested(p)
    BY <2>1, <1>t DEF ResetTested, CacheInv, StateTypeOK, TestedIsRenewed
  <2>2. CASE ResetRecall(p)
    <3>1. /\ tested' = tested /\ testedLeft' = testedLeft
          /\ recall' = IF up THEN [recall EXCEPT ![proc[p].next] = "none"] ELSE recall
          /\ recallLeft' = IF up THEN [recallLeft EXCEPT ![proc[p].next] = 0] ELSE recallLeft
      BY <2>2 DEF ResetRecall
    <3>2. /\ recall' \in [Types -> {"none", "low", "good"}]
          /\ recallLeft' \in [Types -> 0 .. Window]
      <4>1. /\ recall \in [Types -> {"none", "low", "good"}]
            /\ recallLeft \in [Types -> 0 .. Window] /\ 0 \in 0 .. Window
        BY <1>t DEF StateTypeOK
      <4>2. recall' \in [Types -> {"none", "low", "good"}]
        BY <3>1, <4>1
      <4> QED
        BY <3>1, <4>1, <4>2
    <3>3. \A a \in Types : recallLeft'[a] <= recallLeft[a]
      BY <3>1, <1>t DEF StateTypeOK
    <3>4. TestedIsRenewed'
      <4> SUFFICES ASSUME NEW a \in tested PROVE recallLeft'[a] <= testedLeft
        BY <3>1 DEF TestedIsRenewed
      <4>1. a \in Types /\ recallLeft[a] <= testedLeft /\ recallLeft'[a] <= recallLeft[a]
        BY <1>t, <3>3 DEF CacheInv, StateTypeOK, TestedIsRenewed
      <4>2. recallLeft[a] \in Nat /\ recallLeft'[a] \in Nat /\ testedLeft \in Nat
        BY <4>1, <1>t, <3>2 DEF StateTypeOK
      <4> QED
        BY <4>1, <4>2
    <3> QED
      BY <3>1, <3>2, <3>4, <1>t DEF StateTypeOK
  <2> QED
    BY <2>1, <2>2
<1>6. StateTypeOK'
  BY <1>2, <1>3, <1>5, <1>t DEF StateTypeOK
<1>7. OnlyRacesReviveScores'
  BY <1>2 DEF CacheInv, OnlyRacesReviveScores
<1> QED
  BY <1>3, <1>4, <1>5, <1>6, <1>7 DEF CacheInv

\* Every step of the clock, of Redis and of a process keeps the invariant.
LEMMA CacheInvStep == CacheInv /\ [Next]_vars => CacheInv'
<1> SUFFICES ASSUME CacheInv, [Next]_vars PROVE CacheInv'
  OBVIOUS
<1>1. CASE Tick
  BY <1>1, TickKeeps
<1>2. CASE RedisFails \/ RedisReturns \/ UNCHANGED vars
  <2>1. UNCHANGED <<calls, redisVars, history, epoch, racing, proc>>
    BY <1>2 DEF RedisFails, RedisReturns, vars, redisVars
  <2>2. up' \in BOOLEAN
    BY <1>2 DEF RedisFails, RedisReturns, vars, CacheInv, StateTypeOK
  <2>3. outages' \in 0 .. MaxOutages
    BY <1>2, CacheConstantsOK DEF RedisFails, RedisReturns, vars, CacheInv, StateTypeOK
  <2> QED
    BY <2>1, <2>2, <2>3, RedisKeeps
<1>3. CASE \E p \in Procs : Continue(p) \/ Call(p) \/ Crash(p)
  BY <1>3, LookupKeeps, ReadRecallKeeps, ReadTestedKeeps, StoreKeeps, EndKeeps, InvalidatorsKeep,
     RecordRunKeeps, SeedKeeps, StartResetKeeps, DeletionsKeep DEF Continue, Call
<1> QED
  BY <1>1, <1>2, <1>3 DEF Next

\* The inductive invariant of the score cache, on which the theorems below rest.
THEOREM CacheInvariant == Spec => []CacheInv
<1>1. Init => CacheInv
  BY CacheInvInit
<1>2. CacheInv /\ [Next]_vars => CacheInv'
  BY CacheInvStep
<1> QED
  BY <1>1, <1>2, PTL DEF Spec

\* invalidate_cache against get_score: a score that an invalidation has overtaken is in
\* the cache only if a computation that was under way then has stored it.
THEOREM StaleScoresComeFromRaces == Spec => []OnlyRacesReviveScores
<1>1. CacheInv => OnlyRacesReviveScores
  BY DEF CacheInv
<1> QED
  BY <1>1, CacheInvariant, PTL

\* record_scenario_run's two expiries: as long as a type's recall is on file, the type is
\* in scenarios_tested_30d, unless a reset has taken the set away.
THEOREM TestedTypesOutliveRecalls == Spec => TestedOutlivesRecall
<1> DEFINE Step == \A a \in Types :
             (a \in tested /\ recallLeft[a] > 0 /\ recallLeft'[a] > 0) =>
               (a \in tested' \/ \E p \in Api : ResetTested(p))
<1>1. CacheInv /\ [Next]_vars => [Step]_vars
  <2> SUFFICES ASSUME CacheInv, Next, NEW a \in Types,
                      a \in tested, recallLeft[a] > 0, recallLeft'[a] > 0
               PROVE  a \in tested' \/ \E p \in Api : ResetTested(p)
    OBVIOUS
  <2>1. CASE Tick
    <3>1. recallLeft'[a] = Less(recallLeft[a]) /\ recallLeft[a] \in Nat /\ testedLeft \in Nat
      BY <2>1 DEF Tick, CacheInv, StateTypeOK
    <3>2. recallLeft[a] > 1
      BY <3>1 DEF Less
    <3>3. testedLeft > 1
      BY <3>1, <3>2 DEF CacheInv, TestedIsRenewed
    <3> QED
      BY <2>1, <3>1, <3>3 DEF Tick
  <2>2. ASSUME NEW p \in Procs, ResetTested(p) PROVE \E q \in Api : ResetTested(q)
    BY <2>2 DEF ResetTested, CacheInv, OnlyApiResets
  <2>3. ASSUME NEW p \in Procs, Continue(p) \/ Call(p) \/ Crash(p), ~ResetTested(p)
        PROVE  a \in tested'
    <3>1. tested' = tested \/ tested' = Types \/ \E b \in Types : tested' = tested \cup {b}
      <4>1. CASE RecordRun(p)
        BY <4>1 DEF RecordRun
      <4>2. CASE Seed(p)
        BY <4>2 DEF Seed, redisVars
      <4>3. CASE Lookup(p) \/ ReadRecall(p) \/ ReadTested(p) \/ Store(p) \/ Persist(p) \/ Crash(p)
        BY <4>3 DEF Lookup, ReadRecall, ReadTested, Store, Persist, Crash, redisVars
      <4>4. CASE InvalidateRequest(p) \/ StartBaseline(p) \/ FinishRecord(p) \/ ResetCache(p)
        BY <4>4 DEF InvalidateRequest, StartBaseline, FinishRecord, ResetCache, Invalidates
      <4>5. CASE ResetRecall(p) \/ ResetHistory(p) \/ StartReset(p)
        BY <4>5 DEF ResetRecall, ResetHistory, StartReset, redisVars
      <4> QED
        BY <2>3, <4>1, <4>2, <4>3, <4>4, <4>5 DEF Continue, Call
    <3> QED
      BY <3>1
  <2>4. CASE RedisFails \/ RedisReturns
    BY <2>4 DEF RedisFails, RedisReturns, redisVars
  <2> QED
    BY <2>1, <2>2, <2>3, <2>4 DEF Next
<1>2. Spec => [][Step]_vars
  BY <1>1, CacheInvariant, PTL DEF Spec
<1> QED
  BY <1>2 DEF TestedOutlivesRecall

----------------------------------------------------------------------------
(* What the cached score agrees with.                                       *)

Pending == \E p \in Procs : proc[p].pc = "invalidate"

\* The figures of a computation agree with the keys it has read so far.
FiguresOf(s) ==
  /\ s.pc = "recalls" => s.covered = Cardinality({a \in Types : a < s.next /\ Covers(a)})
  /\ s.pc \in {"diversity", "store"} => s.covered = Cardinality({a \in Types : Covers(a)})
  /\ s.pc = "store" => s.diverse = Cardinality(tested)

\* So they do unless an invalidation has overtaken it, is to come, or will not come.
FiguresFit ==
  ~Pending => \A p \in Procs \ torn : Computing(p) /\ proc[p].asOf = epoch => FiguresOf(proc[p])

\* The same of the cached score.
ScoreFits ==
  ~Pending /\ cacheLeft > 0 /\ ~worn /\ cache.asOf = epoch =>
    /\ cache.covered = Cardinality({a \in Types : Covers(a)})
    /\ cache.diverse = Cardinality(tested)

ScoreNotAhead == cache.asOf <= epoch

Fits ==
  /\ torn \subseteq Procs /\ worn \in BOOLEAN
  /\ FiguresFit
  /\ ScoreFits
  /\ ScoreNotAhead

FitInv == CacheInv /\ Fits

LEMMA FitStutters ==
  ASSUME FitInv, UNCHANGED <<recall, tested, cache, cacheLeft, epoch, torn, worn, proc>>
  PROVE  Fits'
BY DEF FitInv, Fits, FiguresFit, ScoreFits, ScoreNotAhead, Pending, FiguresOf, Covers, Computing

\* A step of one process that leaves the keys and the score alone.
LEMMA QuietMove ==
  ASSUME FitInv, NEW p \in Procs, NEW s \in Proc, Goes(p, s),
         UNCHANGED <<recall, tested, cache, cacheLeft, epoch, worn>>,
         torn' \in SUBSET Procs, torn \ {p} \subseteq torn',
         proc[p].pc # "invalidate",
         ~Pending /\ s.pc \in {"recalls", "diversity", "store"} /\ p \notin torn' /\ s.asOf = epoch =>
           FiguresOf(s)
  PROVE  Fits'
<1>1. proc'[p] = s /\ \A q \in Procs : q # p => proc'[q] = proc[q]
  BY DEF FitInv, CacheInv, StateTypeOK, Goes
<1>2. Pending => Pending'
  BY <1>1 DEF Pending
<1>3. FiguresOf(s)' <=> FiguresOf(s)
  BY DEF FiguresOf, Covers
<1>4. FiguresFit'
  <2> SUFFICES ASSUME ~Pending', NEW q \in Procs, q \notin torn', Computing(q)', proc'[q].asOf = epoch'
               PROVE  FiguresOf(proc[q])'
    BY DEF FiguresFit
  <2>1. CASE q = p
    BY <1>1, <1>2, <1>3, <2>1 DEF Computing, FiguresOf
  <2>2. CASE q # p
    <3>1. q \notin torn /\ Computing(q) /\ proc[q].asOf = epoch /\ proc'[q] = proc[q]
      BY <1>1, <2>2 DEF Computing
    <3>2. FiguresOf(proc[q])
      BY <1>2, <3>1 DEF FitInv, Fits, FiguresFit
    <3> QED
      BY <3>1, <3>2 DEF FiguresOf, Covers
  <2> QED
    BY <2>1, <2>2
<1>5. ScoreFits' /\ ScoreNotAhead'
  BY <1>2 DEF FitInv, Fits, ScoreFits, ScoreNotAhead, Covers
<1> QED
  BY <1>4, <1>5 DEF FitInv, Fits

\* An invalidation leaves no score, and no computation of its epoch.
LEMMA InvalidationFits ==
  ASSUME FitInv, NEW p \in Procs, NEW s \in Proc, Goes(p, s), NotesInvalidation, DropsScore,
         s.pc \notin {"recalls", "diversity", "store"}
  PROVE  Fits'
<1>1. proc'[p] = s /\ \A q \in Procs : q # p => proc'[q] = proc[q]
  BY DEF FitInv, CacheInv, StateTypeOK, Goes
<1>2. epoch' = epoch + 1 /\ worn' = FALSE /\ torn' = torn /\ epoch \in Nat
  BY DEF NotesInvalidation, FitInv, CacheInv, StateTypeOK
<1>3. FiguresFit'
  <2> SUFFICES ASSUME NEW q \in Procs, Computing(q)' PROVE proc'[q].asOf # epoch'
    BY DEF FiguresFit
  <2>1. Computing(q) /\ proc'[q] = proc[q]
    BY <1>1 DEF Computing
  <2>2. proc[q].asOf <= epoch /\ proc[q].asOf \in Int
    BY <2>1 DEF FitInv, CacheInv, OnlyRacesFallBehind, StateTypeOK, Proc
  <2> QED
    BY <1>2, <2>1, <2>2
<1>4. ScoreFits' /\ ScoreNotAhead'
  BY <1>2 DEF DropsScore, NoScore, ScoreFits, ScoreNotAhead
<1> QED
  BY <1>2, <1>3, <1>4 DEF FitInv, Fits

\* After a silent change neither the score nor any computation counts on the keys.
LEMMA SilenceFits ==
  ASSUME FitInv, NotesSilence, epoch' = epoch, cache' \in {cache, NoScore},
         \A q \in Procs : Computing(q)' => Computing(q)
  PROVE  Fits'
<1>1. torn' = {q \in Procs : Computing(q)} /\ worn' = (cacheLeft' > 0)
  BY DEF NotesSilence
<1>2. FiguresFit'
  BY <1>1 DEF FiguresFit
<1>3. ScoreFits'
  BY <1>1 DEF ScoreFits
<1>4. ScoreNotAhead'
  BY DEF FitInv, Fits, ScoreNotAhead, NoScore, CacheInv, StateTypeOK
<1> QED
  BY <1>1, <1>2, <1>3, <1>4 DEF Fits

LEMMA TickFits ==
  ASSUME FitInv, Tick
  PROVE  Fits'
<1>1. UNCHANGED <<epoch, proc>> /\ cache' \in {cache, NoScore} /\ NotesChange
  BY DEF Tick
<1>2. CASE NotesSilence
  BY <1>1, <1>2, SilenceFits DEF Computing
<1>3. CASE UNCHANGED <<recall, tested, torn, worn>>
  <2>1. CASE cacheLeft' > 0
    <3>1. cache' = cache /\ cacheLeft > 0
      BY <2>1 DEF Tick, Less, FitInv, CacheInv, StateTypeOK
    <3> QED
      BY <1>1, <1>3, <2>1, <3>1
      DEF FitInv, Fits, FiguresFit, ScoreFits, ScoreNotAhead, Pending, FiguresOf, Covers, Computing
  <2>2. CASE ~(cacheLeft' > 0)
    <3>1. ScoreFits'
      BY <2>2 DEF ScoreFits
    <3>2. ScoreNotAhead'
      BY <1>1 DEF FitInv, Fits, ScoreNotAhead, NoScore, CacheInv, StateTypeOK
    <3>3. FiguresFit'
      BY <1>1, <1>3 DEF FitInv, Fits, FiguresFit, Pending, FiguresOf, Covers, Computing
    <3> QED
      BY <1>3, <3>1, <3>2, <3>3 DEF FitInv, Fits
  <2> QED
    BY <2>1, <2>2
<1> QED
  BY <1>1, <1>2, <1>3 DEF NotesChange

\* A computation begins with no recall read.
LEMMA LookupFits ==
  ASSUME FitInv, NEW p \in Procs, Lookup(p)
  PROVE  Fits'
<1> DEFINE s == IF up /\ cacheLeft > 0 THEN Idle
                ELSE [Idle EXCEPT !.pc = "recalls", !.asOf = epoch]
<1>1. s \in Proc
  <2>1. epoch \in 0 .. MaxCalls /\ Idle \in Proc
    BY ProcStates DEF FitInv, CacheInv, StateTypeOK
  <2>2. [Idle EXCEPT !.pc = "recalls", !.asOf = epoch] \in Proc
    BY <2>1 DEF Proc, Pcs
  <2> QED
    BY <2>1, <2>2
<1>2. s.pc \in {"idle", "recalls"} /\ s.next = 1 /\ s.covered = 0
  BY DEF Idle
<1>3. /\ Goes(p, s) /\ UNCHANGED <<recall, tested, cache, cacheLeft, epoch, torn, worn>>
      /\ proc[p].pc # "invalidate" /\ torn \in SUBSET Procs
  BY DEF Lookup, redisVars, FitInv, Fits
<1> HIDE DEF s
<1>4. FiguresOf(s)
  <2>1. {a \in Types : a < 1 /\ Covers(a)} = {}
    BY DEF Types
  <2> QED
    BY <1>2, <2>1, FS_EmptySet DEF FiguresOf
<1> QED
  BY <1>1, <1>3, <1>4, QuietMove

\* One GET more.
LEMMA ReadRecallFits ==
  ASSUME FitInv, NEW p \in Procs, ReadRecall(p)
  PROVE  Fits'
<1> DEFINE o == proc[p]
           n == o.covered + (IF Covers(o.next) THEN 1 ELSE 0)
           s == IF ~up THEN [o EXCEPT !.pc = "diversity", !.covered = 0]
                ELSE IF LastType(o.next) THEN [o EXCEPT !.pc = "diversity", !.covered = n]
                ELSE [o EXCEPT !.next = o.next + 1, !.covered = n]
<1>1. /\ o \in Proc /\ o.pc = "recalls" /\ o.next \in Types /\ o.next \in Nat
      /\ NumTypes \in Nat /\ o.next <= NumTypes
  BY CacheConstantsOK DEF FitInv, CacheInv, StateTypeOK, ReadRecall, Proc, Types
<1>2. proc'[p] \in Proc /\ Goes(p, s) /\ s = proc'[p]
  <2>1. proc' \in [Procs -> Proc]
    BY ReadRecallKeeps DEF FitInv, CacheInv, StateTypeOK
  <2>2. Goes(p, s) /\ proc \in [Procs -> Proc]
    BY DEF ReadRecall, FitInv, CacheInv, StateTypeOK
  <2> HIDE DEF s
  <2> QED
    BY <2>1, <2>2 DEF Goes
<1>3. /\ UNCHANGED <<recall, tested, cache, cacheLeft, epoch, worn>>
      /\ torn' = IF up THEN torn ELSE torn \cup {p}
      /\ torn \in SUBSET Procs /\ torn' \in SUBSET Procs
  BY DEF ReadRecall, NotesRead, redisVars, FitInv, Fits
<1> DEFINE below(k) == {a \in Types : a < k /\ Covers(a)}
<1>4. \A k \in Nat : IsFiniteSet(below(k))
  <2>1. IsFiniteSet(Types)
    BY CacheConstantsOK, FS_Interval DEF Types
  <2>2. \A k \in Nat : below(k) \in SUBSET Types
    OBVIOUS
  <2> QED
    BY <2>1, <2>2, FS_Subset
<1>5. ASSUME o.covered = Cardinality(below(o.next)) PROVE n = Cardinality(below(o.next + 1))
  <2>1. CASE Covers(o.next)
    <3>1. below(o.next + 1) = below(o.next) \cup {o.next} /\ o.next \notin below(o.next)
      BY <1>1, <2>1 DEF Types
    <3>2. IsFiniteSet(below(o.next))
      BY <1>1, <1>4
    <3> HIDE DEF below
    <3>3. Cardinality(below(o.next + 1)) = Cardinality(below(o.next)) + 1
      BY <3>1, <3>2, FS_AddElement
    <3> QED
      BY <1>5, <2>1, <3>3
  <2>2. CASE ~Covers(o.next)
    <3>1. below(o.next + 1) = below(o.next)
      BY <1>1, <2>2 DEF Types
    <3>2. o.covered \in Int
      BY <1>1 DEF Proc
    <3> HIDE DEF below, o
    <3>3. n = o.covered
      BY <2>2, <3>2
    <3> QED
      BY <1>5, <3>1, <3>3
  <2> QED
    BY <2>1, <2>2
<1>6. ASSUME ~Pending, s.pc \in {"recalls", "diversity", "store"}, p \notin torn', s.asOf = epoch
      PROVE  FiguresOf(s)
  <2>1. up /\ p \notin torn /\ s.asOf = o.asOf
    BY <1>1, <1>3, <1>6 DEF Proc
  <2>2. o.covered = Cardinality(below(o.next))
    BY <1>1, <1>6, <2>1 DEF FitInv, Fits, FiguresFit, FiguresOf, Computing
  <2>3. n = Cardinality(below(o.next + 1))
    BY <1>5, <2>2
  <2>4. CASE LastType(o.next)
    <3>1. s.pc = "diversity" /\ s.covered = n
      BY <1>1, <2>1, <2>4 DEF Proc
    <3>2. below(o.next + 1) = {a \in Types : Covers(a)}
      BY <1>1, <2>4 DEF LastType, Types
    <3> QED
      BY <2>3, <3>1, <3>2 DEF FiguresOf
  <2>5. CASE ~LastType(o.next)
    <3>1. s.pc = "recalls" /\ s.covered = n /\ s.next = o.next + 1
      BY <1>1, <2>1, <2>5 DEF Proc
    <3> QED
      BY <2>3, <3>1 DEF FiguresOf
  <2> QED
    BY <2>4, <2>5
<1> HIDE DEF s
<1>7. s \in Proc /\ proc[p].pc # "invalidate"
  BY <1>1, <1>2
<1> QED
  BY <1>2, <1>3, <1>6, <1>7, QuietMove

LEMMA ReadTestedFits ==
  ASSUME FitInv, NEW p \in Procs, ReadTested(p)
  PROVE  Fits'
<1> DEFINE o == proc[p]
           s == [o EXCEPT !.pc = "store", !.diverse = IF up THEN Cardinality(tested) ELSE 0]
<1>1. o \in Proc /\ o.pc = "diversity"
  BY DEF FitInv, CacheInv, StateTypeOK, ReadTested
<1>2. proc'[p] \in Proc /\ Goes(p, s) /\ s = proc'[p]
  <2>1. proc' \in [Procs -> Proc]
    BY ReadTestedKeeps DEF FitInv, CacheInv, StateTypeOK
  <2>2. Goes(p, s) /\ proc \in [Procs -> Proc]
    BY DEF ReadTested, FitInv, CacheInv, StateTypeOK
  <2> HIDE DEF s
  <2> QED
    BY <2>1, <2>2 DEF Goes
<1>3. /\ UNCHANGED <<recall, tested, cache, cacheLeft, epoch, worn>>
      /\ torn' = IF up THEN torn ELSE torn \cup {p}
      /\ torn \in SUBSET Procs /\ torn' \in SUBSET Procs
  BY DEF ReadTested, NotesRead, redisVars, FitInv, Fits
<1>4. s.pc = "store" /\ s.covered = o.covered /\ s.asOf = o.asOf
      /\ s.diverse = IF up THEN Cardinality(tested) ELSE 0
  BY <1>1 DEF Proc
<1> HIDE DEF s
<1>5. ASSUME ~Pending, p \notin torn', s.asOf = epoch PROVE FiguresOf(s)
  <2>1. up /\ p \notin torn
    BY <1>3, <1>5
  <2>2. o.covered = Cardinality({a \in Types : Covers(a)})
    BY <1>1, <1>4, <1>5, <2>1 DEF FitInv, Fits, FiguresFit, FiguresOf, Computing
  <2> QED
    BY <1>4, <2>1, <2>2 DEF FiguresOf
<1>6. s \in Proc /\ proc[p].pc # "invalidate"
  BY <1>1, <1>2
<1> QED
  BY <1>2, <1>3, <1>5, <1>6, QuietMove

\* The score takes its figures over, with what they are worth.
LEMMA StoreFits ==
  ASSUME FitInv, NEW p \in Procs, Store(p)
  PROVE  Fits'
<1> DEFINE s == [Idle EXCEPT !.pc = "persist"]
<1>1. s \in Proc /\ s.pc = "persist"
  BY ProcStates DEF Idle, Pcs
<1>2. /\ Goes(p, s) /\ proc[p].pc = "store" /\ torn' = torn \ {p}
      /\ UNCHANGED <<recall, tested, epoch>> /\ torn \in SUBSET Procs /\ worn \in BOOLEAN
  BY DEF Store, FitInv, Fits
<1> HIDE DEF s
<1>3. CASE ~up
  <2>1. UNCHANGED <<cache, cacheLeft, worn>>
    BY <1>3 DEF Store
  <2> QED
    BY <1>1, <1>2, <2>1, QuietMove
<1>4. CASE up
  <2>1. cache' = Computed(p) /\ worn' = (p \in torn)
    BY <1>4 DEF Store
  <2>2. /\ cache'.asOf = proc[p].asOf /\ cache'.covered = proc[p].covered
        /\ cache'.diverse = proc[p].diverse
    BY <2>1 DEF Computed
  <2>3. proc'[p] = s /\ \A q \in Procs : q # p => proc'[q] = proc[q]
    BY <1>2 DEF FitInv, CacheInv, StateTypeOK, Goes
  <2>4. Pending => Pending'
    BY <1>2, <2>3 DEF Pending
  <2>5. ScoreNotAhead'
    BY <1>2, <2>2 DEF FitInv, CacheInv, OnlyRacesFallBehind, Computing, ScoreNotAhead
  <2>6. ScoreFits'
    <3> SUFFICES ASSUME ~Pending', ~worn', cache'.asOf = epoch'
                 PROVE  /\ cache'.covered = Cardinality({a \in Types : Covers(a)}')
                        /\ cache'.diverse = Cardinality(tested')
      BY DEF ScoreFits
    <3>1. FiguresOf(proc[p])
      BY <1>2, <2>1, <2>2, <2>4 DEF FitInv, Fits, FiguresFit, Computing
    <3> QED
      BY <1>2, <2>2, <3>1 DEF FiguresOf, Covers
  <2>7. FiguresFit'
    <3> SUFFICES ASSUME ~Pending', NEW q \in Procs, q \notin torn', Computing(q)', proc'[q].asOf = epoch'
                 PROVE  FiguresOf(proc[q])'
      BY DEF FiguresFit
    <3>1. q # p
      BY <1>1, <2>3 DEF Computing
    <3>2. q \notin torn /\ Computing(q) /\ proc[q].asOf = epoch /\ proc'[q] = proc[q]
      BY <1>2, <2>3, <3>1 DEF Computing
    <3>3. FiguresOf(proc[q])
      BY <2>4, <3>2 DEF FitInv, Fits, FiguresFit
    <3> QED
      BY <1>2, <3>2, <3>3 DEF FiguresOf, Covers
  <2>8. torn' \subseteq Procs /\ worn' \in BOOLEAN
    BY <1>2, <2>1
  <2> QED
    BY <2>5, <2>6, <2>7, <2>8 DEF Fits
<1> QED
  BY <1>3, <1>4

\* The steps that end a call, killed or not, and StartReset.
LEMMA EndFits ==
  ASSUME FitInv, NEW p \in Procs, Persist(p) \/ ResetHistory(p) \/ Crash(p) \/ StartReset(p)
  PROVE  Fits'
<1>t. torn \in SUBSET Procs /\ proc[p] \in Proc /\ proc \in [Procs -> Proc]
  BY DEF FitInv, Fits, CacheInv, StateTypeOK
<1>i. Idle \in Proc /\ Idle.pc = "idle"
  BY ProcStates DEF Idle
<1>1. CASE Persist(p) \/ ResetHistory(p)
  <2>1. /\ Goes(p, Idle) /\ proc[p].pc # "invalidate"
        /\ UNCHANGED <<recall, tested, cache, cacheLeft, epoch, torn, worn>>
    BY <1>1 DEF Persist, ResetHistory, redisVars
  <2> QED
    BY <1>t, <1>i, <2>1, QuietMove
<1>2. CASE Crash(p)
  <2>1. Goes(p, Idle) /\ UNCHANGED <<recall, tested, cache, cacheLeft, epoch>>
    BY <1>2 DEF Crash, redisVars
  <2>2. CASE proc[p].pc = "invalidate"
    <3>1. NotesSilence
      BY <1>2, <2>2 DEF Crash
    <3>2. \A q \in Procs : Computing(q)' => Computing(q)
      BY <1>t, <1>i, <2>1 DEF Goes, Computing
    <3> QED
      BY <2>1, <3>1, <3>2, SilenceFits
  <2>3. CASE proc[p].pc # "invalidate"
    <3>1. torn' = torn \ {p} /\ worn' = worn
      BY <1>2, <2>3 DEF Crash
    <3> QED
      BY <1>t, <1>i, <2>1, <2>3, <3>1, QuietMove
  <2> QED
    BY <2>2, <2>3
<1>3. CASE StartReset(p)
  <2>1. Pc(p, "reset_cache") \in Proc /\ Pc(p, "reset_cache").pc = "reset_cache"
    BY <1>t DEF Pc, Proc, Pcs
  <2>2. /\ Goes(p, Pc(p, "reset_cache")) /\ proc[p].pc = "idle"
        /\ UNCHANGED <<recall, tested, cache, cacheLeft, epoch, torn, worn>>
    BY <1>3 DEF StartReset, Calls, redisVars
  <2> QED
    BY <1>t, <2>1, <2>2, QuietMove
<1> QED
  BY <1>1, <1>2, <1>3

LEMMA InvalidatesFits ==
  ASSUME FitInv, NEW p \in Procs, NEW s \in Proc, Invalidates(p, s),
         s.pc \notin {"recalls", "diversity", "store"}
  PROVE  Fits'
<1>t. torn \in SUBSET Procs /\ proc \in [Procs -> Proc]
  BY DEF FitInv, Fits, CacheInv, StateTypeOK
<1>1. Goes(p, s) /\ UNCHANGED <<recall, tested>>
  BY DEF Invalidates
<1>2. CASE up
  BY <1>1, <1>2, InvalidationFits DEF Invalidates
<1>3. CASE ~up
  <2>1. UNCHANGED <<cache, cacheLeft, epoch>>
    BY <1>3 DEF Invalidates
  <2>2. CASE proc[p].pc = "invalidate"
    <3>1. NotesSilence
      BY <1>3, <2>2 DEF Invalidates
    <3>2. \A q \in Procs : Computing(q)' => Computing(q)
      BY <1>t, <1>1 DEF Goes, Computing
    <3> QED
      BY <2>1, <3>1, <3>2, SilenceFits
  <2>3. CASE proc[p].pc # "invalidate"
    <3>1. UNCHANGED <<torn, worn>>
      BY <1>3, <2>3 DEF Invalidates
    <3> QED
      BY <1>t, <1>1, <2>1, <2>3, <3>1, QuietMove
  <2> QED
    BY <2>2, <2>3
<1> QED
  BY <1>2, <1>3

LEMMA InvalidatorsFit ==
  ASSUME FitInv, NEW p \in Procs,
         InvalidateRequest(p) \/ StartBaseline(p) \/ FinishRecord(p) \/ ResetCache(p)
  PROVE  Fits'
<1>t. proc[p] \in Proc
  BY DEF FitInv, CacheInv, StateTypeOK
<1>i. Idle \in Proc /\ Idle.pc = "idle"
  BY ProcStates DEF Idle
<1>1. CASE InvalidateRequest(p) \/ FinishRecord(p)
  BY <1>1, <1>i, InvalidatesFits DEF InvalidateRequest, FinishRecord
<1>2. CASE StartBaseline(p)
  <2>1. Pc(p, "lookup") \in Proc /\ Pc(p, "lookup").pc = "lookup"
    BY <1>t DEF Pc, Proc, Pcs
  <2> QED
    BY <1>2, <2>1, InvalidatesFits DEF StartBaseline
<1>3. CASE ResetCache(p)
  <2> DEFINE s == OrHistory(Pc(p, "reset_tested"))
  <2>1. s \in Proc /\ s.pc \in {"reset_tested", "reset_history"}
    BY <1>t, <1>i DEF OrHistory, Pc, Proc, Pcs, Idle
  <2>2. Invalidates(p, s)
    BY <1>3 DEF ResetCache
  <2> HIDE DEF s
  <2> QED
    BY <2>1, <2>2, InvalidatesFits
<1> QED
  BY <1>1, <1>2, <1>3

\* A recording changes the keys and has the invalidation still to come.
LEMMA RecordRunFits ==
  ASSUME FitInv, NEW p \in Procs, RecordRun(p)
  PROVE  Fits'
<1>1. /\ Goes(p, AfterRecording(p)) /\ UNCHANGED <<cache, epoch, torn, worn>>
      /\ proc \in [Procs -> Proc]
  BY DEF RecordRun, FitInv, CacheInv, StateTypeOK
<1>2. AfterRecording(p).pc = "invalidate"
  BY <1>1 DEF AfterRecording, Pc, Proc
<1>3. Pending'
  BY <1>1, <1>2 DEF Pending, Goes
<1> QED
  BY <1>1, <1>3 DEF FitInv, Fits, FiguresFit, ScoreFits, ScoreNotAhead

LEMMA SeedFits ==
  ASSUME FitInv, NEW p \in Procs, Seed(p)
  PROVE  Fits'
<1>1. proc' = proc /\ proc[p].pc = "idle" /\ proc[p] \in Proc /\ proc \in [Procs -> Proc]
  BY DEF Seed, Calls, FitInv, CacheInv, StateTypeOK
<1>2. CASE up
  <2>1. NotesInvalidation /\ DropsScore
    BY <1>2 DEF Seed
  <2>2. Goes(p, proc[p])
    BY <1>1 DEF Goes
  <2> QED
    BY <1>1, <2>1, <2>2, InvalidationFits
<1>3. CASE ~up
  BY <1>1, <1>3, FitStutters DEF Seed, redisVars
<1> QED
  BY <1>2, <1>3

\* The deletions of a reset, after the cached score's, announce themselves to nobody.
LEMMA DeletionsFit ==
  ASSUME FitInv, NEW p \in Procs, ResetTested(p) \/ ResetRecall(p)
  PROVE  Fits'
<1>t. torn \in SUBSET Procs /\ proc \in [Procs -> Proc] /\ proc' \in [Procs -> Proc]
  BY DeletionsKeep DEF FitInv, Fits, CacheInv, StateTypeOK
<1>1. PICK s : Goes(p, s) /\ s.pc \in {"reset_recalls", "reset_history"}
  <2>1. proc[p].pc \in {"reset_tested", "reset_recalls"} /\ proc[p] \in Proc
    BY <1>t DEF ResetTested, ResetRecall
  <2>2. [Idle EXCEPT !.pc = "reset_history"].pc = "reset_history"
    BY DEF Idle
  <2>3. Pc(p, "reset_recalls").pc = "reset_recalls"
    BY <2>1 DEF Pc, Proc
  <2>4. CASE ResetTested(p)
    BY <2>2, <2>3, <2>4 DEF ResetTested, OrHistory
  <2>5. CASE ResetRecall(p)
    <3>1. [proc[p] EXCEPT !.next = proc[p].next + 1].pc = proc[p].pc /\ proc[p].pc = "reset_recalls"
      BY <2>1, <2>5 DEF ResetRecall, Proc
    <3>2. \/ Goes(p, [Idle EXCEPT !.pc = "reset_history"])
          \/ Goes(p, [proc[p] EXCEPT !.next = proc[p].next + 1])
      BY <2>5 DEF ResetRecall, OrHistory
    <3> QED
      BY <2>2, <3>1, <3>2
  <2> QED
    BY <2>4, <2>5
<1>2. s \in Proc
  BY <1>1, <1>t DEF Goes
<1>3. /\ UNCHANGED <<cache, cacheLeft, epoch>> /\ NotesChange /\ proc[p].pc # "invalidate"
  BY DEF ResetTested, ResetRecall
<1>4. CASE NotesSilence
  <2>1. \A q \in Procs : Computing(q)' => Computing(q)
    BY <1>t, <1>1 DEF Goes, Computing
  <2> QED
    BY <1>3, <1>4, <2>1, SilenceFits
<1>5. CASE UNCHANGED <<recall, tested, torn, worn>>
  BY <1>t, <1>1, <1>2, <1>3, <1>5, QuietMove
<1> QED
  BY <1>3, <1>4, <1>5 DEF NotesChange

LEMMA FitsStep == FitInv /\ [Next]_vars => Fits'
<1> SUFFICES ASSUME FitInv, [Next]_vars PROVE Fits'
  OBVIOUS
<1>1. CASE RedisFails \/ RedisReturns \/ UNCHANGED vars
  BY <1>1, FitStutters DEF RedisFails, RedisReturns, vars, redisVars
<1>2. ASSUME NEW p \in Procs, Continue(p) \/ Call(p) \/ Crash(p) PROVE Fits'
  BY <1>2, LookupFits, ReadRecallFits, ReadTestedFits, StoreFits, EndFits, InvalidatorsFit,
     RecordRunFits, SeedFits, DeletionsFit DEF Continue, Call
<1> QED
  BY <1>1, <1>2, TickFits DEF Next

LEMMA FitsInit == Init => Fits
<1> SUFFICES ASSUME Init PROVE Fits
  OBVIOUS
<1>1. torn = {} /\ worn = FALSE /\ cacheLeft = 0 /\ cache.asOf = 0 /\ epoch = 0
  BY DEF Init, NoScore
<1>2. FiguresFit
  BY DEF Init, Idle, Computing, FiguresFit
<1>3. ScoreFits
  BY <1>1 DEF ScoreFits
<1>4. ScoreNotAhead
  BY <1>1 DEF ScoreNotAhead
<1> QED
  BY <1>1, <1>2, <1>3, <1>4 DEF Fits

\* The inductive invariant of what the score agrees with.
THEOREM FitInvariant == Spec => []FitInv
<1>1. Init => FitInv
  BY CacheInvInit, FitsInit DEF FitInv
<1>2. FitInv /\ [Next]_vars => FitInv'
  BY CacheInvStep, FitsStep DEF FitInv
<1> QED
  BY <1>1, <1>2, PTL DEF Spec

\* The score's keys, the cache and the processes that use them are well-typed.
THEOREM ScoreCacheTypes == Spec => []TypeOK
<1>1. FitInv => TypeOK
  BY DEF FitInv, CacheInv, Fits, TypeOK
<1> QED
  BY <1>1, FitInvariant, PTL

\* What invalidation achieves: a score served from the cache disagrees with the keys only
\* for a recording whose invalidation is to come, for a computation that one overtook, or
\* for reads and changes that nothing announced.
THEOREM StaleScoresAreExplained == Spec => []StaleScoresHaveACause
<1>1. FitInv => StaleScoresHaveACause
  <2> SUFFICES ASSUME FitInv, StaleScore, ~Pending, ~worn
               PROVE  cache.asOf < epoch /\ cache.by \in racing
    BY DEF StaleScoresHaveACause, Pending
  <2>1. cacheLeft > 0 /\ cache.asOf # epoch
    BY DEF StaleScore, FitInv, Fits, ScoreFits
  <2>2. cache.asOf \in Nat /\ epoch \in Nat
    BY DEF FitInv, CacheInv, StateTypeOK, Payload
  <2>3. cache.asOf < epoch
    BY <2>1, <2>2 DEF FitInv, Fits, ScoreNotAhead
  <2> QED
    BY <2>1, <2>3 DEF FitInv, CacheInv, OnlyRacesReviveScores
<1> QED
  BY <1>1, FitInvariant, PTL

----------------------------------------------------------------------------
(***************************************************************************)
(* The rate limiter.                                                       *)
(***************************************************************************)

\* A request is stamped before it does anything else, and no clock runs backwards.
StampsArePast == \A r \in Requests : at[r] # "new" => stamp[r] <= clock

PromptAreServed == \A r \in prompt : at[r] = "served"

\* A key lives as long as its prompt members count, so they are there when counted.
KeysOutlive == \A r \in prompt : expiry[KeyOf(r)] >= stamp[r] + WindowS + 1

PromptArePresent ==
  \A r \in prompt : stamp[r] + WindowS > clock => r \in zset[KeyOf(r)]

\* The inductive invariant.
WindowInv ==
  /\ LimiterTypeOK
  /\ StampsArePast
  /\ PromptAreServed
  /\ KeysOutlive
  /\ PromptArePresent
  /\ RefusedLeaveNoTrace
  /\ WindowHolds

----------------------------------------------------------------------------

LEMMA KeyType == \A r \in Requests : KeyOf(r) \in Keys
BY DEF Keys

\* Requests of one key have one bucket.
LEMMA OneBucket ==
  ASSUME NEW r \in Requests, NEW q \in Requests, KeyOf(q) = KeyOf(r)
  PROVE  Bucket[q] = Bucket[r]
BY DEF KeyOf

LEMMA AddOne ==
  ASSUME NEW S, NEW x, IsFiniteSet(S), NEW n \in Nat, Cardinality(S) < n
  PROVE  Cardinality(S \cup {x}) <= n
<1> DEFINE c == Cardinality(S)
<1>1. c \in Nat
  BY FS_CardinalityType
<1>2. Cardinality(S \cup {x}) \in {c, c + 1}
  BY FS_AddElement
<1> HIDE DEF c
<1>3. c < n
  BY DEF c
<1>4. \A d \in {c, c + 1} : d <= n
  BY <1>1, <1>3
<1> QED
  BY <1>2, <1>4

\* The requests WindowHolds counts for a key and a second.
Counted(k, s) == {q \in prompt : KeyOf(q) = k /\ s - WindowS < stamp[q] /\ stamp[q] <= s}

LEMMA CountedFinite ==
  ASSUME LimiterTypeOK, NEW k, NEW s
  PROVE  IsFiniteSet(Counted(k, s)) /\ Cardinality(Counted(k, s)) \in Nat
<1>1. Counted(k, s) \in SUBSET Requests
  BY DEF LimiterTypeOK, Counted
<1> QED
  BY <1>1, FS_Subset, FS_CardinalityType, RateLimitConstantsOK

\* In the initial state nobody was admitted.
LEMMA WindowInvInit == LimiterInit => WindowInv
<1> SUFFICES ASSUME LimiterInit PROVE WindowInv
  OBVIOUS
<1>1. LimiterTypeOK
  BY RateLimitConstantsOK DEF LimiterInit, LimiterTypeOK, Ats
<1>2. WindowHolds
  <2> SUFFICES ASSUME NEW k \in Keys, NEW r \in Requests, NEW s \in 0 .. MaxTime
               PROVE  Cardinality({q \in prompt : KeyOf(q) = k /\ s - WindowS < stamp[q] /\ stamp[q] <= s})
                        <= Limit[Bucket[r]]
    BY DEF WindowHolds
  <2>1. {q \in prompt : KeyOf(q) = k /\ s - WindowS < stamp[q] /\ stamp[q] <= s} = {}
    BY DEF LimiterInit
  <2> QED
    BY <2>1, FS_EmptySet, RateLimitConstantsOK
<1> QED
  BY <1>1, <1>2 DEF LimiterInit, WindowInv, StampsArePast, PromptAreServed, KeysOutlive,
                    PromptArePresent, RefusedLeaveNoTrace

\* As long as prompt and the stamps of its members are kept, so is WindowHolds.
LEMMA WindowKept ==
  ASSUME WindowHolds, prompt' = prompt, \A r \in prompt : stamp'[r] = stamp[r]
  PROVE  WindowHolds'
<1>1. \A k, s : {q \in prompt' : KeyOf(q) = k /\ s - WindowS < stamp'[q] /\ stamp'[q] <= s}
              = {q \in prompt : KeyOf(q) = k /\ s - WindowS < stamp[q] /\ stamp[q] <= s}
  OBVIOUS
<1> QED
  BY <1>1 DEF WindowHolds

\* What AddsMember does to the window of a request that has just been stamped or is late.
LEMMA AddKeeps ==
  ASSUME WindowInv, NEW r \in Requests, at[r] = "stamped", AddsMember(r),
         clock' = clock, stamp' = stamp, prompt' \in {prompt, prompt \cup {r}},
         NEW to \in {"over", "served"}, at' = [at EXCEPT ![r] = to],
         r \in prompt' => stamp[r] = clock
  PROVE  /\ zset' \in [Keys -> SUBSET Requests]
         /\ expiry' \in [Keys -> Nat]
         /\ KeysOutlive'
         /\ PromptArePresent'
         /\ RefusedLeaveNoTrace'
<1> USE RateLimitConstantsOK, KeyType
<1>t. /\ clock \in Nat /\ stamp \in [Requests -> 0 .. MaxTime] /\ prompt \subseteq Requests
      /\ zset \in [Keys -> SUBSET Requests] /\ expiry \in [Keys -> Nat]
      /\ at \in [Requests -> Ats]
  BY DEF WindowInv, LimiterTypeOK
<1>s. \A q \in Requests : stamp[q] \in Nat
  BY <1>t
<1>k. KeyOf(r) \in Keys
  OBVIOUS
<1>l. Live(r) = {q \in zset[KeyOf(r)] : stamp[q] > stamp[r] - WindowS}
  BY DEF Live
<1>1. zset' \in [Keys -> SUBSET Requests]
  <2>1. Live(r) \cup {r} \subseteq Requests
    BY <1>t, <1>k, <1>l
  <2> QED
    BY <2>1, <1>t DEF AddsMember
<1>2. expiry' \in [Keys -> Nat]
  BY <1>t DEF AddsMember
<1>3. stamp[r] <= clock
  BY DEF WindowInv, StampsArePast
<1>4. \A k \in Keys : /\ k # KeyOf(r) => zset'[k] = zset[k] /\ expiry'[k] = expiry[k]
                      /\ k = KeyOf(r) => zset'[k] = Live(r) \cup {r}
                      /\ k = KeyOf(r) => expiry'[k] = clock + WindowS + 1
  BY <1>t DEF AddsMember
<1>5. KeysOutlive'
  <2> SUFFICES ASSUME NEW q \in prompt'
               PROVE  expiry'[KeyOf(q)] >= stamp[q] + WindowS + 1
    BY DEF KeysOutlive
  <2>0. q \in Requests /\ KeyOf(q) \in Keys /\ stamp[q] \in Nat
    BY <1>t, <1>s
  <2>1. stamp[q] <= clock
    <3>1. CASE q = r
      BY <3>1, <1>3
    <3>2. CASE q \in prompt
      BY <3>2, <2>0 DEF WindowInv, PromptAreServed, StampsArePast
    <3> QED
      BY <3>1, <3>2
  <2>2. CASE KeyOf(q) = KeyOf(r)
    BY <2>0, <2>1, <2>2, <1>4, <1>t
  <2>3. CASE KeyOf(q) # KeyOf(r)
    <3>1. q \in prompt
      BY <2>3
    <3> QED
      BY <3>1, <2>3, <2>0, <1>4 DEF WindowInv, KeysOutlive
  <2> QED
    BY <2>2, <2>3
<1>6. PromptArePresent'
  <2> SUFFICES ASSUME NEW q \in prompt', stamp[q] + WindowS > clock
               PROVE  q \in zset'[KeyOf(q)]
    BY DEF PromptArePresent
  <2>0. q \in Requests /\ KeyOf(q) \in Keys /\ stamp[q] \in Nat
    BY <1>t, <1>s
  <2>1. CASE q = r
    BY <2>1, <1>4, <1>k
  <2>2. CASE q \in prompt
    <3>1. q \in zset[KeyOf(q)]
      BY <2>2 DEF WindowInv, PromptArePresent
    <3>2. CASE KeyOf(q) = KeyOf(r)
      <4>1. stamp[q] > stamp[r] - WindowS
        BY <1>3, <1>s, <2>0, <1>t
      <4> QED
        BY <4>1, <3>1, <3>2, <1>4, <1>l, <1>k
    <3>3. CASE KeyOf(q) # KeyOf(r)
      BY <3>1, <3>3, <1>4, <2>0
    <3> QED
      BY <3>2, <3>3
  <2> QED
    BY <2>1, <2>2
<1>7. RefusedLeaveNoTrace'
  <2> SUFFICES ASSUME NEW k \in Keys, NEW q \in zset'[k]
               PROVE  KeyOf(q) = k /\ at'[q] \in {"served", "over", "lost"}
    BY DEF RefusedLeaveNoTrace
  <2>0. q \in Requests
    BY <1>1
  <2>1. CASE q = r
    <3>1. r \notin zset[k]
      BY DEF WindowInv, RefusedLeaveNoTrace
    <3>2. k = KeyOf(r)
      BY <3>1, <2>1, <1>4
    <3> QED
      BY <3>2, <2>1, <1>t
  <2>2. CASE q # r
    <3>1. q \in zset[k]
      BY <2>2, <1>4, <1>l
    <3> QED
      BY <3>1, <2>2, <2>0, <1>t DEF WindowInv, RefusedLeaveNoTrace
  <2> QED
    BY <2>1, <2>2
<1> QED
  BY <1>1, <1>2, <1>5, <1>6, <1>7

\* The heart of the matter: an admitted request finds every request that counts with it
\* in the sorted set, so the limit bounds them all.
LEMMA AdmittedFits ==
  ASSUME WindowInv, NEW r \in Requests, at[r] = "stamped", stamp[r] = clock,
         ~OverLimit(r), stamp' = stamp, prompt' = prompt \cup {r}
  PROVE  WindowHolds'
<1> USE RateLimitConstantsOK, KeyType
<1>t. /\ clock \in Nat /\ stamp \in [Requests -> 0 .. MaxTime] /\ prompt \subseteq Requests
      /\ zset \in [Keys -> SUBSET Requests]
  BY DEF WindowInv, LimiterTypeOK
<1>s. \A q \in Requests : stamp[q] \in Nat
  BY <1>t
<1> SUFFICES ASSUME NEW k \in Keys, NEW p \in Requests, NEW s \in 0 .. MaxTime, KeyOf(p) = k
             PROVE  Cardinality({q \in prompt' : KeyOf(q) = k /\ s - WindowS < stamp[q] /\ stamp[q] <= s})
                      <= Limit[Bucket[p]]
  BY DEF WindowHolds
<1> DEFINE new == {q \in prompt' : KeyOf(q) = k /\ s - WindowS < stamp[q] /\ stamp[q] <= s}
<1>0. Cardinality(Counted(k, s)) <= Limit[Bucket[p]]
  BY DEF WindowInv, WindowHolds, Counted
<1>1. CASE r \notin new
  <2>1. new = Counted(k, s)
    BY <1>1 DEF Counted
  <2> QED
    BY <2>1, <1>0
<1>2. CASE r \in new
  <2>1. KeyOf(r) = k /\ s - WindowS < clock /\ clock <= s
    BY <1>2
  <2>2. new = Counted(k, s) \cup {r}
    BY <1>2 DEF Counted
  <2>3. Counted(k, s) \subseteq Live(r)
    <3> SUFFICES ASSUME NEW q \in Counted(k, s)
                 PROVE  q \in Live(r)
      OBVIOUS
    <3>1. q \in prompt /\ KeyOf(q) = k /\ s - WindowS < stamp[q] /\ stamp[q] \in Nat
      BY <1>t, <1>s DEF Counted
    <3>2. stamp[q] > clock - WindowS /\ stamp[q] + WindowS > clock
      BY <2>1, <3>1, <1>t
    <3>3. q \in zset[k]
      BY <3>1, <3>2 DEF WindowInv, PromptArePresent
    <3> QED
      BY <3>2, <3>3, <2>1 DEF Live
  <2>4. Live(r) \subseteq Requests
    BY <1>t DEF Live
  <2>5. IsFiniteSet(Live(r)) /\ Cardinality(Live(r)) \in Nat
    BY <2>4, FS_Subset, FS_CardinalityType
  <2>6. Cardinality(Counted(k, s)) <= Cardinality(Live(r))
    BY <2>3, <2>5, FS_Subset
  <2>7. Cardinality(Live(r)) < Limit[Bucket[r]] /\ Limit[Bucket[r]] \in Nat
    BY <2>5 DEF OverLimit
  <2>8. IsFiniteSet(Counted(k, s)) /\ Cardinality(Counted(k, s)) \in Nat
    BY CountedFinite DEF WindowInv
  <2>9. Cardinality(Counted(k, s)) < Limit[Bucket[r]]
    BY <2>5, <2>6, <2>7, <2>8
  <2>10. Cardinality(Counted(k, s) \cup {r}) <= Limit[Bucket[r]]
    BY <2>7, <2>8, <2>9, AddOne
  <2>11. Bucket[p] = Bucket[r]
    BY <2>1, OneBucket
  <2> QED
    BY <2>2, <2>10, <2>11
<1> QED
  BY <1>1, <1>2

\* Every step of a request, and of the clock, keeps the invariant.
LEMMA WindowInvStep == WindowInv /\ [LimiterNext]_limiterVars => WindowInv'
<1> SUFFICES ASSUME WindowInv, [LimiterNext]_limiterVars PROVE WindowInv'
  OBVIOUS
<1> USE RateLimitConstantsOK, KeyType
<1>t. /\ clock \in 0 .. MaxTime /\ stamp \in [Requests -> 0 .. MaxTime]
      /\ prompt \subseteq Requests /\ faults \in 0 .. MaxFaults
      /\ zset \in [Keys -> SUBSET Requests] /\ expiry \in [Keys -> Nat]
      /\ at \in [Requests -> Ats]
  BY DEF WindowInv, LimiterTypeOK
<1>a. {"new", "stamped", "over", "served", "refused", "lost"} \subseteq Ats
  BY DEF Ats
<1>f. Fault => faults' \in 0 .. MaxFaults
  BY <1>t DEF Fault
<1>i. StampsArePast /\ PromptAreServed /\ KeysOutlive /\ PromptArePresent /\ RefusedLeaveNoTrace
      /\ WindowHolds
  BY DEF WindowInv
<1>1. ASSUME NEW r \in Requests, Receive(r) PROVE WindowInv'
  <2>1. /\ at[r] = "new" /\ at' = [at EXCEPT ![r] = "stamped"]
        /\ stamp' = [stamp EXCEPT ![r] = clock]
        /\ UNCHANGED <<clock, zset, expiry, prompt, faults>>
    BY <1>1 DEF Receive, Moves
  <2>2. LimiterTypeOK'
    BY <2>1, <1>t, <1>a DEF LimiterTypeOK
  <2>3. StampsArePast'
    BY <2>1, <1>t, <1>i DEF StampsArePast
  <2>4. r \notin prompt
    BY <2>1, <1>i DEF PromptAreServed
  <2>5. \A q \in prompt : stamp'[q] = stamp[q] /\ at'[q] = at[q]
    BY <2>1, <2>4, <1>t
  <2>6. PromptAreServed' /\ KeysOutlive' /\ PromptArePresent'
    BY <2>1, <2>5, <1>i DEF PromptAreServed, KeysOutlive, PromptArePresent
  <2>7. RefusedLeaveNoTrace'
    BY <2>1, <1>t, <1>i DEF RefusedLeaveNoTrace
  <2>8. WindowHolds'
    BY <2>1, <2>5, <1>i, WindowKept
  <2> QED
    BY <2>2, <2>3, <2>6, <2>7, <2>8 DEF WindowInv
<1>2. ASSUME NEW r \in Requests, RunPipeline(r) PROVE WindowInv'
  <2>1. at[r] = "stamped" /\ AddsMember(r) /\ UNCHANGED <<clock, stamp, faults>>
    BY <1>2 DEF RunPipeline
  <2>2. PICK to \in {"over", "served"} : at' = [at EXCEPT ![r] = to]
    BY <1>2 DEF RunPipeline, Moves
  <2>3. /\ prompt' \in {prompt, prompt \cup {r}}
        /\ r \in prompt' => stamp[r] = clock /\ ~OverLimit(r) /\ to = "served"
    <3>1. r \notin prompt
      BY <2>1, <1>i DEF PromptAreServed
    <3>2. OverLimit(r) => prompt' = prompt
      BY <1>2 DEF RunPipeline
    <3>3. ~OverLimit(r) => /\ at' = [at EXCEPT ![r] = "served"]
                           /\ prompt' = IF stamp[r] = clock THEN prompt \cup {r} ELSE prompt
      BY <1>2 DEF RunPipeline, Moves
    <3>4. ~OverLimit(r) => to = "served"
      BY <3>3, <2>2, <1>t
    <3> QED
      BY <3>1, <3>2, <3>3, <3>4
  <2>4. /\ zset' \in [Keys -> SUBSET Requests] /\ expiry' \in [Keys -> Nat]
        /\ KeysOutlive' /\ PromptArePresent' /\ RefusedLeaveNoTrace'
    BY <2>1, <2>2, <2>3, AddKeeps
  <2>5. LimiterTypeOK'
    BY <2>1, <2>2, <2>3, <2>4, <1>t, <1>a DEF LimiterTypeOK
  <2>6. StampsArePast'
    BY <2>1, <2>2, <1>t, <1>i DEF StampsArePast
  <2>7. PromptAreServed'
    <3> SUFFICES ASSUME NEW q \in prompt' PROVE at'[q] = "served"
      BY DEF PromptAreServed
    <3>1. CASE q = r
      BY <3>1, <2>2, <2>3, <1>t
    <3>2. CASE q # r
      BY <3>2, <2>2, <2>3, <1>t, <1>i DEF PromptAreServed
    <3> QED
      BY <3>1, <3>2
  <2>8. WindowHolds'
    <3>1. CASE prompt' = prompt
      BY <3>1, <2>1, <1>i, WindowKept
    <3>2. CASE prompt' = prompt \cup {r}
      BY <3>2, <2>1, <2>3, AdmittedFits
    <3> QED
      BY <3>1, <3>2, <2>3
  <2> QED
    BY <2>4, <2>5, <2>6, <2>7, <2>8 DEF WindowInv
<1>3. ASSUME NEW r \in Requests, PipelineFails(r) PROVE WindowInv'
  <2>1. /\ at[r] = "stamped" /\ at' = [at EXCEPT ![r] = "served"]
        /\ Fault /\ UNCHANGED <<clock, stamp, prompt>>
        /\ AddsMember(r) \/ UNCHANGED <<zset, expiry>>
    BY <1>3 DEF PipelineFails, Moves
  <2>2. r \notin prompt
    BY <2>1, <1>i DEF PromptAreServed
  <2>3. /\ zset' \in [Keys -> SUBSET Requests] /\ expiry' \in [Keys -> Nat]
        /\ KeysOutlive' /\ PromptArePresent' /\ RefusedLeaveNoTrace'
    <3>1. CASE AddsMember(r)
      BY <3>1, <2>1, <2>2, AddKeeps
    <3>2. CASE UNCHANGED <<zset, expiry>>
      BY <3>2, <2>1, <1>t, <1>i DEF KeysOutlive, PromptArePresent, RefusedLeaveNoTrace
    <3> QED
      BY <3>1, <3>2, <2>1
  <2>4. LimiterTypeOK'
    BY <2>1, <2>3, <1>t, <1>a, <1>f DEF LimiterTypeOK
  <2>5. StampsArePast' /\ PromptAreServed'
    BY <2>1, <1>t, <1>i DEF StampsArePast, PromptAreServed
  <2>6. WindowHolds'
    BY <2>1, <1>i, WindowKept
  <2> QED
    BY <2>3, <2>4, <2>5, <2>6 DEF WindowInv
<1>4. ASSUME NEW r \in Requests, at[r] = "over", NEW to \in {"served", "refused"},
             at' = [at EXCEPT ![r] = to], UNCHANGED <<clock, stamp, expiry, prompt>>,
             faults' \in 0 .. MaxFaults,
             \/ zset' = [zset EXCEPT ![KeyOf(r)] = TakenBack(r)]
             \/ zset' = zset /\ to = "served"
      PROVE  WindowInv'
  <2>1. r \notin prompt
    BY <1>4, <1>i DEF PromptAreServed
  <2>2. zset' \in [Keys -> SUBSET Requests] /\ \A k \in Keys : zset'[k] \subseteq zset[k]
    BY <1>4, <1>t DEF TakenBack
  <2>3. \A k \in Keys : zset[k] \ {r} \subseteq zset'[k]
    BY <1>4, <1>t DEF TakenBack
  <2>4. LimiterTypeOK'
    BY <1>4, <2>2, <1>t, <1>a DEF LimiterTypeOK
  <2>5. StampsArePast' /\ PromptAreServed' /\ KeysOutlive'
    BY <1>4, <2>1, <1>t, <1>i DEF StampsArePast, PromptAreServed, KeysOutlive
  <2>6. PromptArePresent'
    <3> SUFFICES ASSUME NEW q \in prompt, stamp[q] + WindowS > clock
                 PROVE  q \in zset'[KeyOf(q)]
      BY <1>4 DEF PromptArePresent
    <3>1. q \in Requests /\ q # r
      BY <1>t, <2>1
    <3>2. q \in zset[KeyOf(q)]
      BY <1>i DEF PromptArePresent
    <3> QED
      BY <3>1, <3>2, <2>3
  <2>7. RefusedLeaveNoTrace'
    <3> SUFFICES ASSUME NEW k \in Keys, NEW q \in zset'[k]
                 PROVE  KeyOf(q) = k /\ at'[q] \in {"served", "over", "lost"}
      BY DEF RefusedLeaveNoTrace
    <3>1. q \in zset[k] /\ q \in Requests
      BY <2>2, <1>t
    <3>2. KeyOf(q) = k /\ at[q] \in {"served", "over", "lost"}
      BY <3>1, <1>i DEF RefusedLeaveNoTrace
    <3>3. CASE q = r
      <4>1. to = "served"
        <5>1. r \notin TakenBack(r) /\ k = KeyOf(r)
          BY <3>2, <3>3 DEF TakenBack
        <5> QED
          BY <5>1, <3>3, <1>4, <1>t
      <4> QED
        BY <4>1, <3>2, <3>3, <1>4, <1>t
    <3>4. CASE q # r
      BY <3>1, <3>2, <3>4, <1>4, <1>t
    <3> QED
      BY <3>3, <3>4
  <2>8. WindowHolds'
    BY <1>4, <1>i, WindowKept
  <2> QED
    BY <2>4, <2>5, <2>6, <2>7, <2>8 DEF WindowInv
<1>5. ASSUME NEW r \in Requests, Refuse(r) PROVE WindowInv'
  BY <1>4, <1>5, <1>t DEF Refuse, Moves
<1>6. ASSUME NEW r \in Requests, RefuseFails(r) PROVE WindowInv'
  BY <1>4, <1>6, <1>f DEF RefuseFails, Moves
<1>7. ASSUME NEW r \in Requests, ProcessDies(r) PROVE WindowInv'
  <2>1. /\ at[r] \in {"stamped", "over"} /\ at' = [at EXCEPT ![r] = "lost"]
        /\ Fault /\ UNCHANGED <<clock, stamp, zset, expiry, prompt>>
    BY <1>7 DEF ProcessDies, Moves
  <2>2. LimiterTypeOK'
    BY <2>1, <1>t, <1>a, <1>f DEF LimiterTypeOK
  <2>3. StampsArePast' /\ KeysOutlive' /\ PromptArePresent'
    BY <2>1, <1>t, <1>i DEF StampsArePast, KeysOutlive, PromptArePresent
  <2>4. PromptAreServed' /\ RefusedLeaveNoTrace'
    BY <2>1, <1>t, <1>i DEF PromptAreServed, RefusedLeaveNoTrace
  <2>5. WindowHolds'
    BY <2>1, <1>i, WindowKept
  <2> QED
    BY <2>2, <2>3, <2>4, <2>5 DEF WindowInv
<1>8. CASE ClockTicks
  <2>1. /\ clock < MaxTime /\ clock' = clock + 1
        /\ zset' = [k \in Keys |-> IF expiry[k] <= clock + 1 THEN {} ELSE zset[k]]
        /\ UNCHANGED <<at, stamp, expiry, prompt, faults>>
    BY <1>8 DEF ClockTicks
  <2>2. LimiterTypeOK'
    <3>1. clock' \in 0 .. MaxTime
      BY <2>1, <1>t
    <3>2. zset' \in [Keys -> SUBSET Requests]
      BY <2>1, <1>t
    <3> QED
      BY <2>1, <3>1, <3>2, <1>t DEF LimiterTypeOK
  <2>3. \A q \in Requests : stamp[q] \in Nat
    BY <1>t
  <2>4. StampsArePast'
    BY <2>1, <2>3, <1>t, <1>i DEF StampsArePast
  <2>5. PromptAreServed' /\ KeysOutlive'
    BY <2>1, <1>i DEF PromptAreServed, KeysOutlive
  <2>6. PromptArePresent'
    <3> SUFFICES ASSUME NEW q \in prompt, stamp[q] + WindowS > clock + 1
                 PROVE  q \in zset'[KeyOf(q)]
      BY <2>1 DEF PromptArePresent
    <3>1. q \in Requests /\ KeyOf(q) \in Keys /\ stamp[q] \in Nat
      BY <1>t, <2>3
    <3>2. q \in zset[KeyOf(q)]
      BY <3>1, <1>t, <1>i DEF PromptArePresent
    <3>3. expiry[KeyOf(q)] >= stamp[q] + WindowS + 1 /\ expiry[KeyOf(q)] \in Nat
      BY <3>1, <1>t, <1>i DEF KeysOutlive
    <3>4. ~(expiry[KeyOf(q)] <= clock + 1)
      BY <3>1, <3>3, <1>t
    <3> QED
      BY <3>1, <3>2, <3>4, <2>1
  <2>7. RefusedLeaveNoTrace'
    BY <2>1, <1>i DEF RefusedLeaveNoTrace
  <2>8. WindowHolds'
    BY <2>1, <1>i, WindowKept
  <2> QED
    BY <2>2, <2>4, <2>5, <2>6, <2>7, <2>8 DEF WindowInv
<1>9. CASE UNCHANGED limiterVars
  <2>1. UNCHANGED <<clock, at, stamp, zset, expiry, prompt, faults>>
    BY <1>9 DEF limiterVars
  <2>2. WindowHolds'
    BY <2>1, <1>i, WindowKept
  <2> QED
    BY <2>1, <2>2, <1>t, <1>i DEF WindowInv, LimiterTypeOK, StampsArePast, PromptAreServed, KeysOutlive,
                                  PromptArePresent, RefusedLeaveNoTrace
<1> QED
  BY <1>1, <1>2, <1>3, <1>5, <1>6, <1>7, <1>8, <1>9 DEF LimiterNext

\* The inductive invariant of the rate limiter, on which the theorems below rest.
THEOREM WindowInvariant == LimiterSpec => []WindowInv
<1>1. LimiterInit => WindowInv
  BY WindowInvInit
<1>2. WindowInv /\ [LimiterNext]_limiterVars => WindowInv'
  BY WindowInvStep
<1> QED
  BY <1>1, <1>2, PTL DEF LimiterSpec

----------------------------------------------------------------------------

\* The state is well-typed.
THEOREM RateLimitTypes == LimiterSpec => []LimiterTypeOK
<1>1. WindowInv => LimiterTypeOK
  BY DEF WindowInv
<1> QED
  BY <1>1, WindowInvariant, PTL

\* "Exact sliding-window counter", for the requests whose pipeline is not late: the
\* optimistic add, the removals, failures and expiries never admit one too many.
THEOREM SlidingWindowIsExact == LimiterSpec => []WindowHolds
<1>1. WindowInv => WindowHolds
  BY DEF WindowInv
<1> QED
  BY <1>1, WindowInvariant, PTL

\* A refused request does not count against its client.
THEOREM RefusalsAreUndone == LimiterSpec => []RefusedLeaveNoTrace
<1>1. WindowInv => RefusedLeaveNoTrace
  BY DEF WindowInv
<1> QED
  BY <1>1, WindowInvariant, PTL
=============================================================================

-------------------------- MODULE ScenarioLibraryProofs --------------------------
(***************************************************************************)
(* Theorems about ScenarioLibrary for any agents, budgets, costs, retries  *)
(* and faults: what a run may cost, and what its report may hide.          *)
(***************************************************************************)
EXTENDS ScenarioLibrary, FiniteSetTheorems, TLAPS

\* Between runs the directory holds, under names that may be written again, loadable
\* files with redacted ids only.
AtRest ==
  /\ variants = <<>> /\ dates = {}
  /\ \A n \in Names : file[n] # "absent" => n[3] = 0 /\ file[n] = "whole" /\ n[2] \in Known

\* The i-th variant's file is written in full under the date tag d.
Written(d, i) == variants[i].type # Unwritable /\ file[Name(d, i)] = "whole"

\* What is in the directory is old, counted by the audit, or has the name of a variant.
Accounts(old) ==
  /\ before = library + Cardinality(old)
  /\ \A n \in old : n[3] = 0 /\ file[n] # "absent"
  /\ \A n \in Names : file[n] # "absent" =>
       \/ n \in old
       \/ \E d \in dates : \E i \in DOMAIN variants :
            variants[i].type # Unwritable /\ n = Name(d, i)

\* The files of a run: those below next are written under the attempt's date, and after
\* write_new_configs all of them under the date of one attempt.
FilesOK ==
  /\ Len(variants) <= NumVariants
  /\ pc \in {"idle", "audit"} => AtRest
  /\ pc = "generate" => variants = <<>>
  /\ pc \in {"generate", "write", "report"} =>
       broken = 0 /\ \E old \in SUBSET Names : Accounts(old)
  /\ date # 0 => date \in dates
  /\ pc # "write" => date = 0
  /\ pc = "write" => /\ next <= Len(variants) + 1
                     /\ date = 0 => next = 1
                     /\ \A i \in 1 .. next - 1 : Written(date, i)
  /\ pc = "report" => \E d \in dates : \A i \in 1 .. Len(variants) : Written(d, i)

\* The loops of generate_variants: a scenario for each pass at most, and no more spent
\* than the calls since the last check allow.
LoopsOK ==
  /\ made <= (agent - 1) * PerAgent + (variant - 1)
  /\ agent = NumAgents + 1 => variant = 1 /\ call = 0 /\ spent = 0
  /\ call > 0 => spent <= (Budget - Estimate) + call * MaxCost
  /\ pc # "generate" => agent = 1 /\ variant = 1 /\ call = 0 /\ spent = 0 /\ made = 0

NothingBilled == pc # "generate" => billed = 0

LibraryInv ==
  /\ TypeOK
  /\ FilesOK
  /\ LoopsOK
  /\ NothingBilled
  /\ SpendBounded

----------------------------------------------------------------------------
(* Products.                                                                *)

LEMMA TimesNat == \A a, b \in Nat : a * b \in Nat
OBVIOUS

LEMMA TimesNext == \A a, b \in Nat : (a + 1) * b = a * b + b
OBVIOUS

LEMMA TimesGrows == \A a, b, c \in Nat : a <= b => a * c <= b * c
<1> TAKE a, b, c \in Nat
<1> HAVE a <= b
<1>1. (b - a) * c >= 0
  OBVIOUS
<1>2. b * c = (b - a) * c + a * c
  OBVIOUS
<1> QED
  BY <1>1, <1>2

LEMMA Sizes ==
  /\ NumAgents \in Nat /\ NumAgents >= 1
  /\ PerAgent \in Nat /\ PerAgent >= 1
  /\ Calls \in Nat /\ Calls >= 1
  /\ MaxCost \in Nat
  /\ Budget - Estimate \in Nat
  /\ AgentBound \in Nat
  /\ NumVariants \in Nat
  /\ Retries \in Nat /\ MaxRuns \in Nat /\ MaxFaults \in Nat /\ Shipped \in Nat
<1>1. Calls * MaxCost \in Nat /\ NumAgents * PerAgent \in Nat
  BY LibraryConstantsOK, TimesNat
<1>2. Budget - Estimate \in Nat
  BY LibraryConstantsOK
<1> QED
  BY <1>1, <1>2, LibraryConstantsOK DEF AgentBound, NumVariants

Files == [Names -> {"absent", "partial", "whole"}]

LEMMA Counters ==
  ASSUME TypeOK
  PROVE  /\ tries \in Nat /\ tries <= Retries
         /\ agent \in Nat /\ agent >= 1 /\ agent <= NumAgents + 1
         /\ variant \in Nat /\ variant >= 1 /\ variant <= PerAgent
         /\ call \in Nat /\ call <= Calls
         /\ spent \in Nat /\ spent <= AgentBound
         /\ next \in Nat /\ next >= 1
         /\ billed \in Nat /\ library \in Nat /\ broken \in Nat /\ before \in Nat
         /\ file \in Files /\ dates \in SUBSET (1 .. MaxDays) /\ date \in 0 .. MaxDays
         /\ made \in Nat /\ variants \in Seq(Scenarios)
<1>1. /\ tries \in 0 .. Retries /\ agent \in 1 .. NumAgents + 1 /\ variant \in 1 .. PerAgent
      /\ call \in 0 .. Calls /\ spent \in 0 .. AgentBound /\ next \in Nat \ {0}
  BY DEF TypeOK
<1>2. /\ billed \in Nat /\ library \in Nat /\ broken \in Nat /\ before \in Nat
      /\ file \in Files /\ dates \in SUBSET (1 .. MaxDays) /\ date \in 0 .. MaxDays /\ made \in Nat /\ variants \in Seq(Scenarios)
  BY DEF TypeOK, Files
<1> QED
  BY <1>1, <1>2, Sizes

----------------------------------------------------------------------------
(* The ends of attempts and runs.                                           *)

LEMMA AfreshLoops ==
  ASSUME Afresh
  PROVE  /\ agent' \in 1 .. NumAgents + 1 /\ variant' \in 1 .. PerAgent
         /\ call' \in 0 .. Calls /\ spent' \in 0 .. AgentBound
         /\ made' \in Nat /\ next' \in Nat \ {0} /\ next' = 1
         /\ date' \in 0 .. MaxDays /\ date' = 0
         /\ LoopsOK'
<1>1. /\ agent' = 1 /\ variant' = 1 /\ call' = 0 /\ spent' = 0 /\ made' = 0
      /\ next' = 1 /\ date' = 0
  BY DEF Afresh
<1>2. /\ 1 \in 1 .. NumAgents + 1 /\ 1 \in 1 .. PerAgent /\ 0 \in 0 .. Calls
      /\ 0 \in 0 .. AgentBound /\ 0 \in 0 .. MaxDays
  BY Sizes, LibraryConstantsOK
<1>3. 0 <= (1 - 1) * PerAgent + (1 - 1) /\ 1 # NumAgents + 1
  BY Sizes
<1> QED
  BY <1>1, <1>2, <1>3 DEF LoopsOK

\* The names of files, of which there are finitely many.
LEMMA NamesFinite == IsFiniteSet(Names)
<1>1. IsFiniteSet(1 .. MaxDays) /\ IsFiniteSet(0 .. NumVariants)
  BY Sizes, LibraryConstantsOK, FS_Interval
<1>2. IsFiniteSet(Known \cup Invented)
  BY LibraryConstantsOK, FS_Union
<1> DEFINE D == 1 .. MaxDays
<1> DEFINE T == Known \cup Invented
<1> DEFINE I == 0 .. NumVariants
<1>3. IsFiniteSet(D) /\ IsFiniteSet(T) /\ IsFiniteSet(I)
  BY <1>1, <1>2
<1> HIDE DEF D, T, I
<1>4. IsFiniteSet((D \X I) \X T)
  BY <1>3, FS_Product
<1> DEFINE f == [x \in (D \X I) \X T |-> <<x[1][1], x[2], x[1][2]>>]
<1>5. f \in Surjection((D \X I) \X T, D \X T \X I)
  <2>1. \A x \in (D \X I) \X T : f[x] \in D \X T \X I
    OBVIOUS
  <2>2. ASSUME NEW n \in D \X T \X I
        PROVE  \E x \in (D \X I) \X T : f[x] = n
    <3>1. <<<<n[1], n[3]>>, n[2]>> \in (D \X I) \X T /\ f[<<<<n[1], n[3]>>, n[2]>>] = n
      BY <2>2
    <3> QED
      BY <3>1
  <2> QED
    BY <2>1, <2>2 DEF Surjection
<1>6. IsFiniteSet(D \X T \X I)
  BY <1>4, <1>5, FS_Surjection
<1> QED
  BY <1>6 DEF Names, D, T, I

LEMMA NameParts ==
  ASSUME TypeOK, Len(variants) <= NumVariants, NEW d \in 1 .. MaxDays,
         NEW i \in DOMAIN variants, variants[i].type # Unwritable
  PROVE  /\ Name(d, i) \in Names
         /\ Name(d, i)[1] = d /\ Name(d, i)[2] = variants[i].type
         /\ Name(d, i)[3] = IF variants[i].redacted THEN 0 ELSE i
<1>1. i \in 1 .. NumVariants /\ variants[i] \in Scenarios
  <2>1. variants \in Seq(Scenarios) /\ NumVariants \in Nat
    BY Counters, Sizes
  <2> QED
    BY <2>1
<1>2. variants[i].type \in Known \cup Invented
  BY <1>1 DEF Scenarios
<1>3. (IF variants[i].redacted THEN 0 ELSE i) \in 0 .. NumVariants
  BY <1>1, Sizes
<1> QED
  BY <1>2, <1>3 DEF Name, Names

LEMMA DiskCounts ==
  ASSUME TypeOK, NEW disk
  PROVE  /\ Total(disk) \in Nat /\ Cardinality(Spoilt(disk)) \in Nat
         /\ Cardinality({n \in Good(disk) : n[3] # 0}) \in Nat
<1>1. /\ Good(disk) \in SUBSET Names /\ Spoilt(disk) \in SUBSET Names
      /\ {n \in Good(disk) : n[3] # 0} \in SUBSET Names
  BY DEF Good, Spoilt
<1>2. /\ Cardinality(Good(disk)) \in Nat /\ Cardinality(Spoilt(disk)) \in Nat
      /\ Cardinality({n \in Good(disk) : n[3] # 0}) \in Nat
  BY <1>1, NamesFinite, FS_Subset, FS_CardinalityType
<1> QED
  BY <1>2, Counters DEF Total

LEMMA EndRunKeeps ==
  ASSUME LibraryInv, NEW ended \in {"failed", "skipped", "reported"}, NEW disk \in Files,
         EndRun(ended, disk), faults' \in 0 .. MaxFaults
  PROVE  LibraryInv'
<1>t. TypeOK
  BY DEF LibraryInv
<1>1. /\ Total(disk) \in Nat /\ Cardinality(Spoilt(disk)) \in Nat
      /\ Cardinality({n \in Good(disk) : n[3] # 0}) \in Nat
  BY <1>t, DiskCounts
<1>2. /\ pc' = "idle" /\ tries' = 0 /\ Afresh /\ variants' = <<>> /\ before' = 0 /\ billed' = 0
      /\ library' = library + Cardinality({n \in Good(disk) : n[3] # 0})
      /\ broken' = broken + Cardinality(Spoilt(disk)) /\ runs' = runs /\ day' = day
      /\ file' = [n \in Names |-> IF n \in Good(disk) /\ n[3] = 0 THEN "whole" ELSE "absent"]
      /\ dates' = {}
  BY DEF EndRun
<1>3. library' \in Nat /\ broken' \in Nat
  BY <1>1, <1>2, <1>t, Counters
<1>4. report' \in Outcomes
  <2>1. Len(variants) \in Nat
    BY <1>t, Counters
  <2> QED
    BY <1>1, <2>1 DEF EndRun, Outcomes
<1>5. TypeOK'
  <2>1. tries' \in 0 .. Retries
    BY <1>2, Sizes
  <2>2. file' \in [Names -> {"absent", "partial", "whole"}]
    BY <1>2
  <2>3. /\ variants' \in Seq(Scenarios) /\ runs' \in 0 .. MaxRuns
        /\ day' \in 1 .. MaxDays /\ dates' \in SUBSET (1 .. MaxDays)
    BY <1>2, <1>t DEF TypeOK
  <2> QED
    BY <1>2, <1>3, <1>4, <2>1, <2>2, <2>3, AfreshLoops DEF TypeOK
<1>6. FilesOK'
  <2>1. Len(<<>>) <= NumVariants
    BY Sizes
  <2>2. \A n \in Names : file'[n] # "absent" =>
           n[3] = 0 /\ file'[n] = "whole" /\ n[2] \in Known
    BY <1>2 DEF Good
  <2>3. AtRest'
    BY <1>2, <2>2 DEF AtRest
  <2> QED
    BY <1>2, <2>1, <2>3, AfreshLoops DEF FilesOK
<1>7. SpendBounded' /\ NothingBilled'
  BY <1>2 DEF SpendBounded, NothingBilled
<1> QED
  BY <1>2, <1>5, <1>6, <1>7, AfreshLoops DEF LibraryInv

\* An attempt at generate_variants costs no more than what all its agents may overdraw.
LEMMA AttemptCosts ==
  ASSUME LibraryInv, pc = "generate"
  PROVE  billed <= ((tries + 1) * NumAgents) * AgentBound
<1> DEFINE T == tries * NumAgents
<1> DEFINE B == AgentBound
<1>1. T \in Nat /\ B \in Nat /\ (tries + 1) * NumAgents = T + NumAgents
  <2>1. tries \in Nat /\ NumAgents \in Nat /\ B \in Nat
    BY Counters, Sizes DEF LibraryInv
  <2> QED
    BY <2>1, TimesNat, TimesNext, Zenon
<1>2. billed <= (T + agent - 1) * B + spent
  BY DEF LibraryInv, SpendBounded
<1>3. /\ agent \in Nat /\ agent >= 1 /\ agent <= NumAgents + 1 /\ spent \in Nat /\ spent <= B
      /\ billed \in Nat
  BY Counters DEF LibraryInv
<1>4. agent = NumAgents + 1 => spent = 0
  BY DEF LibraryInv, LoopsOK
<1>s. NumAgents \in Nat
  BY Sizes
<1> HIDE DEF T, B
<1>5. CASE agent = NumAgents + 1
  <2>1. T + agent - 1 = T + NumAgents
    BY <1>1, <1>5, <1>s
  <2>2. (T + NumAgents) * B \in Nat
    <3>1. T + NumAgents \in Nat
      BY <1>1, <1>s
    <3> QED
      BY <1>1, <3>1, TimesNat, Zenon
  <2>3. billed <= (T + NumAgents) * B
    BY <1>2, <1>3, <1>4, <1>5, <2>1, <2>2
  <2> QED
    BY <1>1, <2>3 DEF B
<1>6. CASE agent <= NumAgents
  <2> DEFINE a == T + agent - 1
  <2>1. a \in Nat /\ a + 1 \in Nat /\ T + NumAgents \in Nat /\ a + 1 <= T + NumAgents
    BY <1>1, <1>3, <1>6, <1>s
  <2>2. (a + 1) * B = a * B + B /\ (a + 1) * B <= (T + NumAgents) * B
    BY <1>1, <2>1, TimesNext, TimesGrows, Zenon
  <2>3. a * B \in Nat /\ (a + 1) * B \in Nat /\ (T + NumAgents) * B \in Nat
    BY <1>1, <2>1, TimesNat, Zenon
  <2>4. billed <= a * B + spent
    BY <1>2
  <2> HIDE DEF a
  <2>5. billed <= (T + NumAgents) * B
    BY <1>1, <1>3, <2>2, <2>3, <2>4
  <2> QED
    BY <1>1, <2>5 DEF B
<1> QED
  BY <1>3, <1>5, <1>6, <1>s

\* The accounts of the directory bear more files of the run's variants, and more dates.
LEMMA AccountsKept ==
  ASSUME NEW old, Accounts(old), dates \subseteq dates',
         UNCHANGED <<before, library, variants>>,
         \A n \in Names : file[n] # "absent" => file'[n] # "absent",
         old \subseteq Names,
         \A n \in Names : file'[n] # "absent" =>
           \/ file[n] # "absent"
           \/ \E d \in dates : \E i \in DOMAIN variants :
                variants[i].type # Unwritable /\ n = Name(d, i)
  PROVE  Accounts(old)'
<1>1. before' = library' + Cardinality(old)
  BY DEF Accounts
<1>2. \A n \in old : n[3] = 0 /\ file'[n] # "absent"
  BY DEF Accounts
<1>3. ASSUME NEW n \in Names, file'[n] # "absent", n \notin old
      PROVE  \E d \in dates' : \E i \in DOMAIN variants' :
               variants'[i].type # Unwritable /\ n = Name(d, i)'
  <2>1. PICK d \in dates : \E i \in DOMAIN variants :
          variants[i].type # Unwritable /\ n = Name(d, i)
    BY <1>3 DEF Accounts
  <2>2. PICK i \in DOMAIN variants : variants[i].type # Unwritable /\ n = Name(d, i)
    BY <2>1
  <2>3. /\ d \in dates' /\ i \in DOMAIN variants' /\ variants'[i].type # Unwritable
        /\ n = Name(d, i)'
    BY <2>2 DEF Name
  <2> QED
    BY <2>3
<1> QED
  BY <1>1, <1>2, <1>3 DEF Accounts

\* What a dying attempt leaves: the files, the one it was writing cut off.
Leaves(disk) ==
  \/ disk = file
  \/ /\ Writing /\ variants[next].type # Unwritable
     /\ disk = [file EXCEPT ![Name(date, next)] = "partial"]

LEMMA CutOff ==
  ASSUME LibraryInv, NEW disk, Leaves(disk)
  PROVE  /\ disk \in Files
         /\ \A n \in Names : file[n] # "absent" => disk[n] # "absent"
         /\ \A n \in Names : disk[n] # "absent" =>
              \/ file[n] # "absent"
              \/ \E d \in dates : \E i \in DOMAIN variants :
                   variants[i].type # Unwritable /\ n = Name(d, i)
<1>1. file \in Files
  BY Counters DEF LibraryInv
<1>2. CASE disk = file
  BY <1>1, <1>2
<1>3. CASE /\ Writing /\ variants[next].type # Unwritable
           /\ disk = [file EXCEPT ![Name(date, next)] = "partial"]
  <2>1. next \in DOMAIN variants /\ date \in dates
    BY <1>3 DEF Writing, LibraryInv, FilesOK
  <2> DEFINE m == Name(date, next)
  <2>2. disk = [file EXCEPT ![m] = "partial"]
    BY <1>3
  <2>3. \E d \in dates : \E i \in DOMAIN variants :
          variants[i].type # Unwritable /\ m = Name(d, i)
    BY <1>3, <2>1
  <2> HIDE DEF m
  <2>4. disk \in Files /\ \A n \in Names : IF n = m THEN disk[n] = "partial" ELSE disk[n] = file[n]
    BY <1>1, <2>2 DEF Files
  <2> QED
    BY <2>3, <2>4
<1> QED
  BY <1>2, <1>3 DEF Leaves

\* A task's next attempt finds the files its last one left.
LEMMA FailKeeps ==
  ASSUME LibraryInv, NEW disk, Leaves(disk), AttemptFails(disk), faults' \in 0 .. MaxFaults,
         pc # "idle"
  PROVE  LibraryInv'
<1>t. TypeOK /\ FilesOK
  BY DEF LibraryInv
<1>d. disk \in Files
  BY CutOff
<1>1. CASE ~MayRetry
  BY <1>1, <1>d, EndRunKeeps DEF AttemptFails
<1>2. CASE MayRetry
  <2>1. /\ tries' = tries + 1 /\ Afresh /\ file' = disk
        /\ UNCHANGED <<day, library, broken, pc, variants, before, report, billed, dates, runs>>
    BY <1>2 DEF AttemptFails
  <2>2. tries \in Nat /\ tries < Retries /\ tries' \in 0 .. Retries
    BY <1>2, <1>t, <2>1, Counters, Sizes DEF MayRetry
  <2>3. TypeOK'
    <3>1. /\ library' \in Nat /\ broken' \in Nat /\ before' \in Nat /\ billed' \in Nat
          /\ pc' \in {"idle", "audit", "generate", "write", "report"}
          /\ variants' \in Seq(Scenarios) /\ report' \in Outcomes /\ runs' \in 0 .. MaxRuns
          /\ day' \in 1 .. MaxDays /\ dates' \in SUBSET (1 .. MaxDays)
      BY <1>t, <2>1 DEF TypeOK
    <3>2. file' \in [Names -> {"absent", "partial", "whole"}]
      BY <1>d, <2>1 DEF Files
    <3> QED
      BY <2>1, <2>2, <3>1, <3>2, AfreshLoops DEF TypeOK
  <2>4. FilesOK'
    <3>1. next' = 1 /\ date' = 0 /\ Len(variants) \in Nat
      BY <1>t, <2>1, AfreshLoops, Counters
    <3>2. 1 <= Len(variants) + 1 /\ 1 .. 1 - 1 = {}
      BY <3>1
    <3>3. pc # "write" => file' = file
      BY <2>1 DEF Leaves, Writing
    <3>4. ASSUME NEW old \in SUBSET Names, Accounts(old) PROVE Accounts(old)'
      BY <2>1, <3>4, CutOff, AccountsKept
    <3>5. pc' \in {"idle", "audit"} => AtRest'
      BY <1>t, <2>1, <3>3 DEF FilesOK, AtRest
    <3>6. pc' \in {"generate", "write", "report"} =>
            broken' = 0 /\ \E old \in SUBSET Names : Accounts(old)'
      BY <1>t, <2>1, <3>4 DEF FilesOK
    <3>7. pc' = "report" => \E d \in dates' : \A i \in 1 .. Len(variants') : Written(d, i)'
      BY <1>t, <2>1, <3>3 DEF FilesOK, Written, Name
    <3> QED
      BY <1>t, <2>1, <3>1, <3>2, <3>5, <3>6, <3>7 DEF FilesOK
  <2>5. SpendBounded'
    <3>1. CASE pc = "generate"
      <4>1. billed <= ((tries + 1) * NumAgents) * AgentBound
        BY <3>1, AttemptCosts
      <4> DEFINE P == (tries + 1) * NumAgents
      <4>2. P \in Nat
        <5>1. tries + 1 \in Nat /\ NumAgents \in Nat
          BY <2>2, Sizes
        <5> QED
          BY <5>1, TimesNat, Zenon
      <4> DEFINE C == P * AgentBound
      <4>3. C \in Nat /\ billed <= C /\ P + 1 - 1 = P
        BY <4>1, <4>2, Sizes, TimesNat
      <4>4. (P + 1 - 1) * AgentBound = C
        BY <4>3
      <4> HIDE DEF C, P
      <4>5. billed <= (P + 1 - 1) * AgentBound + 0
        BY <4>3, <4>4
      <4>6. agent' = 1 /\ spent' = 0
        BY <2>1 DEF Afresh
      <4>7. billed' <= (tries' * NumAgents + agent' - 1) * AgentBound + spent'
        BY <2>1, <4>5, <4>6, Sizes DEF AgentBound, P
      <4> QED
        BY <3>1, <2>1, <4>7, Sizes DEF SpendBounded, AgentBound
    <3>2. CASE pc # "generate"
      BY <3>2, <2>1 DEF SpendBounded
    <3> QED
      BY <3>1, <3>2
  <2>6. NothingBilled'
    BY <2>1 DEF LibraryInv, NothingBilled
  <2> QED
    BY <2>1, <2>3, <2>4, <2>5, <2>6, AfreshLoops DEF LibraryInv
<1> QED
  BY <1>1, <1>2

----------------------------------------------------------------------------
(* The loops of generate_variants.                                          *)

\* A pass through the loops: the counters move, and what was made, spent and billed with
\* them.
LoopStep ==
  /\ pc = "generate"
  /\ UNCHANGED generateOnly
  /\ agent' \in 1 .. NumAgents + 1 /\ variant' \in 1 .. PerAgent
  /\ call' \in 0 .. Calls /\ spent' \in 0 .. AgentBound
  /\ made' \in Nat /\ billed' \in Nat

LEMMA LoopKeeps ==
  ASSUME LibraryInv, LoopStep, LoopsOK', SpendBounded'
  PROVE  LibraryInv'
<1>1. /\ pc = "generate"
      /\ UNCHANGED <<day, library, broken, pc, tries, variants, next, date, file, before, report,
                     dates, runs, faults>>
  BY DEF LoopStep, generateOnly
<1>2. TypeOK'
  BY <1>1 DEF LoopStep, LibraryInv, TypeOK
<1>3. FilesOK' /\ NothingBilled'
  BY <1>1 DEF LibraryInv, FilesOK, Accounts, Name, NothingBilled
<1> QED
  BY <1>2, <1>3 DEF LibraryInv

\* A call leaves the agent within the bound of its budget.
LEMMA CallCosts ==
  ASSUME LibraryInv, MayCall, NEW cost \in 0 .. MaxCost
  PROVE  /\ spent + cost \in 0 .. AgentBound
         /\ spent + cost <= (Budget - Estimate) + (call + 1) * MaxCost
         /\ call + 1 \in 0 .. Calls
<1> DEFINE room == Budget - Estimate
<1>1. /\ call \in Nat /\ call < Calls /\ spent \in Nat /\ cost \in Nat /\ cost <= MaxCost
      /\ room \in Nat /\ MaxCost \in Nat /\ Calls \in Nat
  BY Counters, Sizes DEF LibraryInv, MayCall
<1>2. spent <= room + call * MaxCost
  <2>1. CASE call = 0
    <3>1. spent + Estimate <= Budget /\ Budget \in Nat /\ Estimate \in Nat
      BY <2>1, LibraryConstantsOK DEF MayCall, Affordable
    <3>2. 0 * MaxCost = 0
      BY <1>1
    <3> QED
      BY <1>1, <2>1, <3>1, <3>2
  <2>2. CASE call > 0
    BY <2>2 DEF LibraryInv, LoopsOK
  <2> QED
    BY <1>1, <2>1, <2>2
<1> DEFINE now == call * MaxCost
<1> DEFINE then == (call + 1) * MaxCost
<1> DEFINE most == Calls * MaxCost
<1>3. now \in Nat /\ then = now + MaxCost /\ then <= most /\ most \in Nat
  <2>1. call + 1 \in Nat /\ call + 1 <= Calls
    BY <1>1
  <2> QED
    BY <1>1, <2>1, TimesNat, TimesNext, TimesGrows, Zenon
<1>4. AgentBound = room + most
  BY DEF AgentBound
<1>5. spent <= room + now
  BY <1>2
<1> HIDE DEF room, now, then, most
<1>6. spent + cost <= room + then /\ spent + cost \in 0 .. AgentBound
  BY <1>1, <1>3, <1>4, <1>5
<1>7. call + 1 \in 0 .. Calls
  BY <1>1
<1> QED
  BY <1>6, <1>7 DEF room, then

\* The next variant, of the next agent if need be, with one scenario more at most.
LEMMA NextVariantKeeps ==
  ASSUME LibraryInv, Generating, UNCHANGED generateOnly, call' = 0,
         NEW cost \in Nat, spent + cost \in 0 .. AgentBound, billed' = billed + cost,
         made' \in {made, made + 1},
         \/ variant < PerAgent /\ variant' = variant + 1 /\ agent' = agent /\ spent' = spent + cost
         \/ ~(variant < PerAgent) /\ variant' = 1 /\ agent' = agent + 1 /\ spent' = 0
  PROVE  LibraryInv'
<1>1. /\ pc = "generate" /\ pc' = pc /\ tries' = tries
  BY DEF Generating, generateOnly
<1>2. /\ agent \in Nat /\ agent >= 1 /\ agent <= NumAgents /\ variant \in Nat /\ variant >= 1
      /\ variant <= PerAgent /\ spent \in Nat /\ billed \in Nat /\ tries \in Nat
      /\ NumAgents \in Nat /\ PerAgent \in Nat /\ PerAgent >= 1 /\ AgentBound \in Nat
      /\ Calls \in Nat /\ made \in Nat
  BY Counters, Sizes DEF LibraryInv, Generating
<1>3. LoopStep
  <2>1. agent' \in 1 .. NumAgents + 1 /\ variant' \in 1 .. PerAgent
    BY <1>2
  <2>2. call' \in 0 .. Calls /\ spent' \in 0 .. AgentBound /\ billed' \in Nat /\ made' \in Nat
    BY <1>2
  <2> QED
    BY <1>1, <2>1, <2>2 DEF LoopStep
<1>4. LoopsOK'
  <2> DEFINE P == (agent - 1) * PerAgent
  <2>1. P \in Nat /\ agent * PerAgent = P + PerAgent
    <3>1. agent - 1 \in Nat /\ (agent - 1) + 1 = agent
      BY <1>2
    <3>2. ((agent - 1) + 1) * PerAgent = (agent - 1) * PerAgent + PerAgent
      BY <3>1, <1>2, TimesNext, Zenon
    <3> QED
      BY <3>1, <3>2, <1>2, TimesNat, Zenon
  <2>2. made <= P + (variant - 1)
    BY DEF LibraryInv, LoopsOK
  <2>3. CASE variant < PerAgent /\ variant' = variant + 1 /\ agent' = agent
    <3>1. (agent' - 1) * PerAgent = P
      BY <2>3
    <3> HIDE DEF P
    <3>2. made' <= P + (variant' - 1)
      BY <1>2, <2>1, <2>2, <2>3
    <3>3. agent' # NumAgents + 1
      BY <1>2, <2>3
    <3> QED
      BY <1>1, <3>1, <3>2, <3>3 DEF LoopsOK
  <2>4. CASE variant' = 1 /\ agent' = agent + 1 /\ spent' = 0 /\ ~(variant < PerAgent)
    <3>1. agent' - 1 = agent /\ variant' - 1 = 0 /\ variant = PerAgent
      BY <1>2, <2>4
    <3>2. (agent' - 1) * PerAgent = P + PerAgent
      BY <2>1, <3>1
    <3> HIDE DEF P
    <3>3. made' <= P + PerAgent + (variant' - 1)
      BY <1>2, <2>1, <2>2, <3>1
    <3> QED
      BY <1>1, <2>4, <3>2, <3>3 DEF LoopsOK
  <2> QED
    BY <2>3, <2>4
<1>5. SpendBounded'
  <2> DEFINE T == tries * NumAgents
  <2> DEFINE a == T + agent - 1
  <2> DEFINE B == AgentBound
  <2>1. T \in Nat /\ B \in Nat /\ billed <= a * B + spent
    BY <1>1, <1>2, TimesNat DEF LibraryInv, SpendBounded
  <2>2. a \in Nat /\ a + 1 = T + (agent + 1) - 1
    <3> HIDE DEF T
    <3> QED
      BY <1>2, <2>1
  <2>3. a * B \in Nat /\ (a + 1) * B = a * B + B
    <3>1. a \in Nat /\ a \in Int /\ B \in Nat /\ B \in Int
      BY <2>1, <2>2
    <3> HIDE DEF a, B
    <3> QED
      BY <3>1, TimesNat, TimesNext, Zenon
  <2>4. CASE agent' = agent /\ spent' = spent + cost
    <3> DEFINE C == a * B
    <3>1. C \in Nat /\ billed <= C + spent
      BY <2>1, <2>3
    <3> HIDE DEF C
    <3>2. billed + cost <= C + (spent + cost)
      BY <1>2, <3>1
    <3>3. billed' <= (T + agent' - 1) * B + spent'
      BY <2>4, <3>2 DEF C
    <3> QED
      BY <1>1, <3>3 DEF SpendBounded, AgentBound
  <2>5. CASE agent' = agent + 1 /\ spent' = 0
    <3> DEFINE C == a * B
    <3> DEFINE D == (a + 1) * B
    <3>1. C \in Nat /\ billed <= C + spent /\ D = C + B /\ spent + cost <= B
      BY <1>2, <2>1, <2>3
    <3> HIDE DEF C, D
    <3>2. billed + cost <= D + 0
      BY <1>2, <2>1, <3>1
    <3>3. D = (T + (agent + 1) - 1) * B
      BY <2>2 DEF D
    <3>4. billed' <= (T + agent' - 1) * B + spent'
      BY <2>5, <3>2, <3>3
    <3> QED
      BY <1>1, <3>4 DEF SpendBounded, AgentBound
  <2> QED
    BY <2>4, <2>5
<1> QED
  BY <1>3, <1>4, <1>5, LoopKeeps

LEMMA GenerateKeeps ==
  ASSUME LibraryInv,
         \/ CallRaises
         \/ \E cost \in 1 .. MaxCost :
              AnswerIsInvalid(cost) \/ AnswerIsValid(cost)
         \/ VariantFails
  PROVE  LibraryInv'
<1>t. /\ made \in Nat /\ spent \in Nat /\ spent <= AgentBound
      /\ AgentBound \in Nat /\ billed \in Nat
  BY Counters, Sizes DEF LibraryInv
<1>1. ASSUME MayCall, NEW cost \in 0 .. MaxCost, call' = call + 1, spent' = spent + cost,
             billed' = billed + cost, UNCHANGED <<generateOnly, agent, variant, made>>
      PROVE  LibraryInv'
  <2>1. /\ spent + cost \in 0 .. AgentBound
        /\ spent + cost <= (Budget - Estimate) + (call + 1) * MaxCost
        /\ call + 1 \in 0 .. Calls
    BY <1>1, CallCosts
  <2>2. cost \in Nat /\ agent' = agent /\ variant' = variant /\ made' = made
    BY <1>1, Sizes
  <2>3. pc = "generate" /\ pc' = pc /\ tries' = tries /\ UNCHANGED generateOnly
    BY <1>1 DEF MayCall, Generating, generateOnly
  <2>4. LoopStep
    BY <1>1, <1>t, <2>1, <2>2, <2>3 DEF LoopStep, LibraryInv, TypeOK
  <2>5. LoopsOK'
    <3>1. agent # NumAgents + 1
      BY <1>1, Counters, Sizes DEF MayCall, Generating, LibraryInv
    <3> QED
      BY <1>1, <2>1, <2>2, <2>3, <3>1 DEF LibraryInv, LoopsOK
  <2>6. SpendBounded'
    <3> DEFINE C == (tries * NumAgents + agent - 1) * AgentBound
    <3>1. C \in Nat
      <4>1. tries * NumAgents \in Nat
        <5>1. tries \in Nat /\ NumAgents \in Nat
          BY Counters, Sizes DEF LibraryInv
        <5> QED
          BY <5>1, TimesNat, Zenon
      <4> DEFINE T == tries * NumAgents
      <4>2. T \in Nat /\ agent \in Nat /\ agent >= 1
        BY <4>1, Counters DEF LibraryInv
      <4> HIDE DEF T
      <4>3. T + agent - 1 \in Nat
        BY <4>2
      <4> QED
        BY <4>3, Sizes, TimesNat DEF T
    <3>2. billed <= C + spent
      BY <2>3 DEF LibraryInv, SpendBounded
    <3> HIDE DEF C
    <3>3. billed' <= C + spent'
      BY <1>1, <1>t, <2>2, <3>1, <3>2
    <3> QED
      BY <2>2, <2>3, <3>3 DEF C, SpendBounded, AgentBound
  <2> QED
    BY <2>4, <2>5, <2>6, LoopKeeps
<1>2. CASE CallRaises
  <2>1. spent' = spent + 0 /\ billed' = billed + 0 /\ 0 \in 0 .. MaxCost
    BY <1>2, <1>t, Sizes DEF CallRaises
  <2> QED
    BY <1>1, <1>2, <2>1 DEF CallRaises
<1>3. ASSUME NEW cost \in 1 .. MaxCost, AnswerIsInvalid(cost) PROVE LibraryInv'
  <2>1. cost \in 0 .. MaxCost
    BY Sizes
  <2> QED
    BY <1>1, <1>3, <2>1 DEF AnswerIsInvalid
<1>4. ASSUME NEW cost \in 1 .. MaxCost, AnswerIsValid(cost) PROVE LibraryInv'
  <2>1. cost \in 0 .. MaxCost /\ cost \in Nat
    BY Sizes
  <2>2. spent + cost \in 0 .. AgentBound
    BY <1>4, <2>1, CallCosts DEF AnswerIsValid
  <2>3. made' = made + 1
    BY <1>4 DEF AnswerIsValid
  <2>4. Generating /\ UNCHANGED generateOnly /\ call' = 0 /\ billed' = billed + cost
    BY <1>4 DEF AnswerIsValid, MayCall
  <2>5. \/ variant < PerAgent /\ variant' = variant + 1 /\ agent' = agent /\ spent' = spent + cost
        \/ ~(variant < PerAgent) /\ variant' = 1 /\ agent' = agent + 1 /\ spent' = 0
    BY <1>4 DEF AnswerIsValid
  <2> QED
    BY <2>1, <2>2, <2>3, <2>4, <2>5, NextVariantKeeps
<1>5. CASE VariantFails
  <2>1. spent + 0 = spent /\ spent + 0 \in 0 .. AgentBound /\ billed + 0 = billed
    BY <1>t
  <2>2. /\ Generating /\ UNCHANGED generateOnly /\ call' = 0 /\ billed' = billed + 0
        /\ made' = made
    BY <1>5, <1>t, <2>1 DEF VariantFails, NextVariant
  <2>3. \/ variant < PerAgent /\ variant' = variant + 1 /\ agent' = agent /\ spent' = spent + 0
        \/ ~(variant < PerAgent) /\ variant' = 1 /\ agent' = agent + 1 /\ spent' = 0
    BY <1>5, <2>1 DEF VariantFails, NextVariant
  <2> QED
    BY <2>1, <2>2, <2>3, NextVariantKeeps
<1> QED
  BY <1>2, <1>3, <1>4, <1>5

----------------------------------------------------------------------------
(* The other actions.                                                       *)

\* A task succeeds and the next begins.
LEMMA MovesKeeps ==
  ASSUME LibraryInv, NEW to \in {"generate", "write", "report"}, MovesOn(to),
         variants' \in Seq(Scenarios), file' = file, before' \in Nat, faults' = faults,
         FilesOK'
  PROVE  LibraryInv'
<1>1. /\ pc' = to /\ tries' = 0 /\ Afresh /\ billed' = 0
      /\ UNCHANGED <<day, library, broken, report, dates, runs>>
  BY DEF MovesOn
<1>2. tries' \in 0 .. Retries
  BY <1>1, Sizes
<1>3. TypeOK'
  <2>1. /\ library' \in Nat /\ broken' \in Nat /\ report' \in Outcomes /\ billed' \in Nat
        /\ runs' \in 0 .. MaxRuns /\ faults' \in 0 .. MaxFaults
        /\ file' \in [Names -> {"absent", "partial", "whole"}]
        /\ day' \in 1 .. MaxDays /\ dates' \in SUBSET (1 .. MaxDays)
    BY <1>1 DEF LibraryInv, TypeOK
  <2> QED
    BY <1>1, <1>2, <2>1, AfreshLoops DEF TypeOK
<1>4. NothingBilled'
  BY <1>1 DEF NothingBilled
<1>5. SpendBounded'
  <2>1. agent' = 1 /\ spent' = 0
    BY <1>1 DEF Afresh
  <2>2. 0 <= (0 * NumAgents + 1 - 1) * AgentBound + 0
    BY Sizes
  <2> QED
    BY <1>1, <2>1, <2>2, Sizes DEF SpendBounded, AgentBound
<1> QED
  BY <1>1, <1>3, <1>4, <1>5, AfreshLoops DEF LibraryInv

LEMMA AuditKeeps ==
  ASSUME LibraryInv, AuditLibrary
  PROVE  LibraryInv'
<1>t. /\ pc = "audit" /\ faults' = faults /\ file \in Files /\ faults' \in 0 .. MaxFaults
      /\ AtRest /\ library \in Nat /\ variants \in Seq(Scenarios)
  BY Counters DEF AuditLibrary, LibraryInv, TypeOK, FilesOK
<1>1. CASE AttemptFails(file)
  BY <1>1, <1>t, FailKeeps DEF Leaves
<1>2. CASE Loads /\ before' = Total(file) /\ MovesOn("generate") /\ UNCHANGED <<variants, file>>
  <2>1. before' = library + Cardinality(Good(file)) /\ before' \in Nat
    BY <1>2, DiskCounts DEF LibraryInv, Total
  <2>2. UNCHANGED <<library, broken, variants, file, dates>> /\ broken = 0
    BY <1>2 DEF MovesOn, Loads
  <2>3. /\ Good(file) \in SUBSET Names
        /\ \A n \in Good(file) : n[3] = 0 /\ file[n] # "absent"
        /\ \A n \in Names : file[n] # "absent" => n \in Good(file)
    BY <1>t DEF Good, AtRest
  <2>4. \E old \in SUBSET Names : Accounts(old)'
    <3>1. PICK old \in SUBSET Names :
            /\ before' = library + Cardinality(old)
            /\ \A n \in old : n[3] = 0 /\ file[n] # "absent"
            /\ \A n \in Names : file[n] # "absent" => n \in old
      BY <2>1, <2>3
    <3>2. Accounts(old)'
      BY <2>2, <3>1 DEF Accounts
    <3> QED
      BY <3>2
  <2>5. FilesOK'
    BY <1>2, <1>t, <2>2, <2>3, <2>4, AfreshLoops DEF LibraryInv, FilesOK, MovesOn, AtRest
  <2> QED
    BY <1>2, <1>t, <2>1, <2>5, MovesKeeps
<1> QED
  BY <1>1, <1>2 DEF AuditLibrary

LEMMA FinishGenerateKeeps ==
  ASSUME LibraryInv, FinishGenerate
  PROVE  LibraryInv'
<1>1. /\ pc = "generate" /\ variants' \in [1 .. made -> Scenarios] /\ MovesOn("write")
      /\ file' = file /\ before' = before /\ faults' = faults
  BY DEF FinishGenerate
<1>2. /\ agent \in Nat /\ agent = NumAgents + 1 /\ NumAgents \in Nat /\ PerAgent \in Nat
      /\ made \in Nat /\ before \in Nat
  BY Counters, Sizes DEF FinishGenerate, LibraryInv
<1>3. made <= NumVariants
  <2>1. made <= (agent - 1) * PerAgent + (variant - 1) /\ variant = 1
    BY <1>2 DEF LibraryInv, LoopsOK
  <2>2. agent - 1 = NumAgents /\ variant - 1 = 0
    BY <1>2, <2>1
  <2>3. NumAgents * PerAgent \in Nat
    BY <1>2, TimesNat
  <2>4. made <= NumAgents * PerAgent + 0
    BY <2>1, <2>2
  <2> QED
    BY <1>2, <2>3, <2>4 DEF NumVariants
<1>4. variants' \in Seq(Scenarios) /\ Len(variants') = made
  BY <1>1, <1>2
<1>5. FilesOK'
  <2>1. /\ next' = 1 /\ date' = 0 /\ pc' = "write"
        /\ UNCHANGED <<library, broken, dates, file, before>>
    BY <1>1 DEF MovesOn, Afresh
  <2>2. 1 <= made + 1 /\ 1 .. 1 - 1 = {}
    BY <1>2
  <2>3. variants = <<>>
    BY <1>1 DEF LibraryInv, FilesOK
  <2>4. ASSUME NEW old \in SUBSET Names, Accounts(old) PROVE Accounts(old)'
    <3>1. \A n \in Names : file[n] # "absent" => n \in old
      BY <2>3, <2>4 DEF Accounts
    <3> QED
      BY <2>1, <2>4, <3>1 DEF Accounts
  <2>5. broken' = 0 /\ \E old \in SUBSET Names : Accounts(old)'
    BY <1>1, <2>1, <2>4 DEF LibraryInv, FilesOK
  <2> QED
    BY <1>3, <1>4, <2>1, <2>2, <2>5 DEF FilesOK
<1> QED
  BY <1>1, <1>2, <1>4, <1>5, MovesKeeps

LEMMA FinishWriteKeeps ==
  ASSUME LibraryInv, FinishWrite
  PROVE  LibraryInv'
<1>1. /\ pc = "write" /\ MovesOn("report") /\ UNCHANGED <<variants, file, before, faults>>
      /\ next > Len(variants) /\ date # 0
  BY DEF FinishWrite
<1>2. next \in Nat /\ Len(variants) \in Nat /\ variants \in Seq(Scenarios) /\ before \in Nat
  BY Counters DEF LibraryInv
<1>3. FilesOK'
  <2>1. /\ next <= Len(variants) + 1 /\ \A i \in 1 .. next - 1 : Written(date, i)
        /\ date \in dates /\ Len(variants) <= NumVariants /\ broken = 0
    BY <1>1 DEF LibraryInv, FilesOK
  <2>2. next - 1 = Len(variants)
    BY <1>1, <1>2, <2>1
  <2>3. pc' = "report" /\ date' = 0 /\ UNCHANGED <<library, broken, dates, variants, file, before>>
    BY <1>1, AfreshLoops DEF MovesOn
  <2>4. \E d \in dates' : \A i \in 1 .. Len(variants') : Written(d, i)'
    <3>1. \A i \in 1 .. Len(variants) : Written(date, i)
      BY <2>1, <2>2
    <3>2. \A d, i : Written(d, i) <=> Written(d, i)'
      BY <2>3 DEF Written, Name
    <3> QED
      BY <2>1, <2>3, <3>1, <3>2
  <2>5. ASSUME NEW old \in SUBSET Names, Accounts(old) PROVE Accounts(old)'
    BY <2>3, <2>5 DEF Accounts, Name
  <2>6. \E old \in SUBSET Names : Accounts(old)'
    BY <1>1, <2>5 DEF LibraryInv, FilesOK
  <2> QED
    BY <2>1, <2>3, <2>4, <2>6 DEF FilesOK
<1> QED
  BY <1>1, <1>2, <1>3, MovesKeeps

\* A step of write_new_configs that leaves the loops and the money alone.
WriteStep ==
  /\ pc = "write" /\ faults' = faults
  /\ UNCHANGED <<day, library, broken, pc, tries, agent, variant, call, spent, made, variants,
                 before, report, billed, runs>>

LEMMA WriteStepKeeps ==
  ASSUME LibraryInv, WriteStep, file' \in Files, next' \in Nat \ {0}, date' \in 0 .. MaxDays,
         dates' \in SUBSET (1 .. MaxDays), FilesOK'
  PROVE  LibraryInv'
<1>1. TypeOK'
  BY DEF WriteStep, LibraryInv, TypeOK, Files
<1>2. LoopsOK' /\ NothingBilled' /\ SpendBounded'
  BY DEF WriteStep, LibraryInv, LoopsOK, NothingBilled, SpendBounded
<1> QED
  BY <1>1, <1>2 DEF LibraryInv

LEMMA ReadDateKeeps ==
  ASSUME LibraryInv, ReadDate
  PROVE  LibraryInv'
<1>1. /\ WriteStep /\ date = 0 /\ date' = day /\ dates' = dates \cup {day}
      /\ UNCHANGED <<next, file>> /\ day \in 1 .. MaxDays
  BY DEF ReadDate, WriteStep, LibraryInv, TypeOK
<1>2. next = 1 /\ file \in Files /\ dates \in SUBSET (1 .. MaxDays) /\ Len(variants) \in Nat
  BY <1>1, Counters DEF LibraryInv, FilesOK, WriteStep
<1>3. FilesOK'
  <2>1. ASSUME NEW old \in SUBSET Names, Accounts(old) PROVE Accounts(old)'
    BY <1>1, <2>1, AccountsKept DEF WriteStep
  <2>2. broken' = 0 /\ \E old \in SUBSET Names : Accounts(old)'
    BY <1>1, <2>1 DEF LibraryInv, FilesOK, WriteStep
  <2>3. next' = 1 /\ next' <= Len(variants') + 1 /\ 1 .. next' - 1 = {}
    BY <1>1, <1>2 DEF WriteStep
  <2>4. pc' = "write" /\ Len(variants') <= NumVariants /\ date' \in dates'
    BY <1>1 DEF WriteStep, LibraryInv, FilesOK
  <2> QED
    BY <2>2, <2>3, <2>4 DEF FilesOK
<1>4. date' \in 0 .. MaxDays /\ dates' \in SUBSET (1 .. MaxDays)
  BY <1>1, <1>2, LibraryConstantsOK
<1> QED
  BY <1>1, <1>2, <1>3, <1>4, WriteStepKeeps

LEMMA WriteKeeps ==
  ASSUME LibraryInv, WriteConfig
  PROVE  LibraryInv'
<1>t. /\ pc = "write" /\ next \in DOMAIN variants /\ date # 0 /\ faults' = faults
      /\ file \in Files /\ faults' \in 0 .. MaxFaults
      /\ next \in Nat /\ next >= 1 /\ variants \in Seq(Scenarios) /\ Len(variants) \in Nat
      /\ date \in dates /\ date \in 0 .. MaxDays /\ dates \in SUBSET (1 .. MaxDays)
      /\ Len(variants) <= NumVariants
  BY Counters DEF WriteConfig, Writing, LibraryInv, TypeOK, FilesOK
<1>1. CASE variants[next].type = Unwritable
  BY <1>1, <1>t, FailKeeps DEF WriteConfig, Leaves
<1>2. CASE variants[next].type # Unwritable
  <2> DEFINE m == Name(date, next)
  <2>1. /\ file' = [file EXCEPT ![m] = "whole"] /\ next' = next + 1
        /\ UNCHANGED <<date, dates>> /\ WriteStep
    BY <1>2, <1>t DEF WriteConfig, WriteStep
  <2>2. next <= Len(variants) /\ next \in 1 .. NumVariants
    BY <1>t, Sizes
  <2>3. m \in Names
    BY <1>2, <1>t, NameParts DEF LibraryInv
  <2>n. \E d \in dates : \E i \in DOMAIN variants :
          variants[i].type # Unwritable /\ m = Name(d, i)
    BY <1>2, <1>t
  <2>m. Name(date, next) = m
    OBVIOUS
  <2> HIDE DEF m
  <2>4. /\ file' \in Files /\ file'[m] = "whole"
        /\ \A n \in Names : n # m => file'[n] = file[n]
    BY <1>t, <2>1, <2>3 DEF Files
  <2>5. FilesOK'
    <3>1. next <= Len(variants) + 1 /\ \A i \in 1 .. next - 1 : Written(date, i)
      BY <1>t DEF LibraryInv, FilesOK
    <3>2. ASSUME NEW i \in 1 .. next' - 1 PROVE Written(date, i)'
      <4>1. i \in DOMAIN variants /\ (i = next \/ i \in 1 .. next - 1)
        BY <1>t, <2>1, <2>2
      <4>2. variants[i].type # Unwritable /\ (i # next => file[Name(date, i)] = "whole")
        BY <1>2, <3>1, <4>1 DEF Written
      <4>3. Name(date, i) \in Names
        BY <1>t, <4>1, <4>2, NameParts DEF LibraryInv
      <4>4. file'[Name(date, i)] = "whole"
        BY <2>4, <2>m, <4>2, <4>3
      <4>5. Name(date, i)' = Name(date, i) /\ variants' = variants
        BY <2>1 DEF Name, WriteStep
      <4> QED
        BY <4>2, <4>4, <4>5 DEF Written
    <3>3. next' <= Len(variants) + 1
      BY <1>t, <2>1, <2>2
    <3>4. ASSUME NEW old \in SUBSET Names, Accounts(old) PROVE Accounts(old)'
      <4>1. \A n \in Names : file[n] # "absent" => file'[n] # "absent"
        BY <2>4
      <4>2. \A n \in Names : file'[n] # "absent" =>
              \/ file[n] # "absent"
              \/ \E d \in dates : \E i \in DOMAIN variants :
                   variants[i].type # Unwritable /\ n = Name(d, i)
        BY <2>4, <2>n
      <4> QED
        BY <2>1, <3>4, <4>1, <4>2, AccountsKept DEF WriteStep
    <3>5. broken' = 0 /\ \E old \in SUBSET Names : Accounts(old)'
      BY <1>t, <2>1, <3>4 DEF LibraryInv, FilesOK, WriteStep
    <3>6. /\ pc' = "write" /\ variants' = variants /\ date' = date /\ dates' = dates
      BY <2>1 DEF WriteStep
    <3> QED
      BY <1>t, <3>2, <3>3, <3>5, <3>6 DEF FilesOK
  <2> QED
    BY <1>t, <2>1, <2>4, <2>5, WriteStepKeeps
<1> QED
  BY <1>1, <1>2

LEMMA EndsKeep ==
  ASSUME LibraryInv, ReportCoverage \/ Skipped \/ WorkerDies
  PROVE  LibraryInv'
<1>t. file \in Files /\ faults \in 0 .. MaxFaults
  BY Counters DEF LibraryInv, TypeOK
<1>1. CASE ReportCoverage
  <2>1. pc = "report" /\ faults' \in 0 .. MaxFaults
    BY <1>1, <1>t DEF ReportCoverage
  <2> QED
    BY <1>1, <1>t, <2>1, EndRunKeeps, FailKeeps DEF ReportCoverage, Leaves
<1>2. CASE Skipped
  BY <1>2, <1>t, EndRunKeeps DEF Skipped
<1>3. CASE WorkerDies
  <2>1. pc # "idle" /\ faults' \in 0 .. MaxFaults
    BY <1>3, <1>t, Sizes DEF WorkerDies
  <2>2. \E disk : Leaves(disk) /\ AttemptFails(disk)
    BY <1>3 DEF WorkerDies, Leaves
  <2> QED
    BY <2>1, <2>2, FailKeeps
<1> QED
  BY <1>1, <1>2, <1>3

LEMMA IdleKeeps ==
  ASSUME LibraryInv, StartRun \/ OperatorCleans \/ NextDay \/ UNCHANGED vars
  PROVE  LibraryInv'
<1>1. /\ UNCHANGED <<library, tries, agent, variant, call, spent, made, variants, next, date, file,
                     before, billed, dates, faults>>
      /\ \/ UNCHANGED <<pc, runs, broken>>
         \/ pc = "idle" /\ pc' \in {"idle", "audit"} /\ broken' \in {broken, 0}
            /\ runs' \in {runs, runs + 1} /\ (runs' # runs => runs < MaxRuns)
      /\ report' \in {report, NoReport}
      /\ day' = day \/ (day < MaxDays /\ day' = day + 1)
  BY DEF StartRun, OperatorCleans, NextDay, vars, attemptVars
<1>2. TypeOK'
  <2>1. runs' \in 0 .. MaxRuns /\ broken' \in Nat
    BY <1>1, Sizes DEF LibraryInv, TypeOK
  <2>2. pc' \in {"idle", "audit", "generate", "write", "report"}
    BY <1>1 DEF LibraryInv, TypeOK
  <2>3. report' \in Outcomes
    BY <1>1 DEF LibraryInv, TypeOK, NoReport, Outcomes
  <2>4. day' \in 1 .. MaxDays
    BY <1>1, LibraryConstantsOK DEF LibraryInv, TypeOK
  <2> QED
    BY <1>1, <2>1, <2>2, <2>3, <2>4 DEF LibraryInv, TypeOK
<1>3. FilesOK'
  BY <1>1 DEF LibraryInv, FilesOK, AtRest, Accounts, Written, Name
<1>4. LoopsOK' /\ NothingBilled'
  BY <1>1 DEF LibraryInv, LoopsOK, NothingBilled
<1>5. SpendBounded'
  BY <1>1 DEF LibraryInv, SpendBounded, AgentBound
<1> QED
  BY <1>2, <1>3, <1>4, <1>5 DEF LibraryInv

LEMMA LibraryInvInit == Init => LibraryInv
<1> SUFFICES ASSUME Init PROVE LibraryInv
  OBVIOUS
<1>1. TypeOK
  <2>1. /\ 0 \in 0 .. Retries /\ 1 \in 1 .. NumAgents + 1 /\ 1 \in 1 .. PerAgent
        /\ 0 \in 0 .. Calls /\ 0 \in 0 .. AgentBound /\ 0 \in 0 .. MaxRuns
        /\ 0 \in 0 .. MaxFaults /\ Shipped \in Nat /\ 1 \in 1 .. MaxDays /\ 0 \in 0 .. MaxDays
    BY Sizes, LibraryConstantsOK
  <2>2. <<>> \in Seq(Scenarios) /\ report \in Outcomes
    BY DEF Init, NoReport, Outcomes
  <2>3. file \in [Names -> {"absent", "partial", "whole"}]
    BY DEF Init
  <2> QED
    BY <2>1, <2>2, <2>3 DEF Init, TypeOK
<1>2. Len(<<>>) = 0 /\ 0 <= NumVariants /\ 1 # NumAgents + 1 /\ 0 <= (1 - 1) * PerAgent + (1 - 1)
  BY Sizes
<1>3. FilesOK /\ LoopsOK /\ NothingBilled
  BY <1>2 DEF Init, FilesOK, AtRest, LoopsOK, NothingBilled
<1>4. SpendBounded
  BY DEF Init, SpendBounded
<1> QED
  BY <1>1, <1>3, <1>4 DEF LibraryInv

LEMMA LibraryInvStep == LibraryInv /\ [Next]_vars => LibraryInv'
BY GenerateKeeps, AuditKeeps, FinishGenerateKeeps, FinishWriteKeeps, ReadDateKeeps, WriteKeeps, EndsKeep,
   IdleKeeps DEF Next, TaskRuns, GenerateVariants

----------------------------------------------------------------------------

\* The invariant the theorems below rest on: besides what they state, the audit left no
\* file behind that does not load, the files below next are whole, and the loops make at
\* most one scenario per variant.
THEOREM LibraryInvariant == Spec => []LibraryInv
BY LibraryInvInit, LibraryInvStep, PTL DEF Spec

\* The tasks' locals, the library and the report keep their types; in particular no agent
\* overdraws its budget by more than the calls of one scenario.
THEOREM LibraryTypes == Spec => []TypeOK
<1>1. LibraryInv => TypeOK
  BY DEF LibraryInv
<1> QED
  BY <1>1, LibraryInvariant, PTL

\* generate_scenario's budget check bounds what a run costs, per attempt and agent.
THEOREM RunCostsAreBounded == Spec => []SpendBounded
<1>1. LibraryInv => SpendBounded
  BY DEF LibraryInv
<1> QED
  BY <1>1, LibraryInvariant, PTL

\* The files found by a run that reports are as many as the audit's and one for each own id
\* at least, and one for each date and variant at most.
LEMMA FilesFound ==
  ASSUME LibraryInv, pc = "report", Loads
  PROVE  /\ Total(file) \in Nat
         /\ Total(file) >= before + Cardinality({i \in DOMAIN variants : ~variants[i].redacted})
         /\ Total(file) <= before + Cardinality(dates) * Len(variants)
<1> DEFINE own == {i \in DOMAIN variants : ~variants[i].redacted}
<1> DEFINE found == Good(file)
<1>t. /\ TypeOK /\ library \in Nat /\ before \in Nat /\ variants \in Seq(Scenarios)
      /\ Len(variants) \in Nat /\ DOMAIN variants = 1 .. Len(variants)
      /\ dates \in SUBSET (1 .. MaxDays) /\ Len(variants) <= NumVariants
  BY Counters DEF LibraryInv, FilesOK
<1>1. PICK old \in SUBSET Names : Accounts(old)
  BY DEF LibraryInv, FilesOK
<1>2. PICK d \in dates : \A i \in 1 .. Len(variants) : Written(d, i)
  BY DEF LibraryInv, FilesOK
<1>3. found = {n \in Names : file[n] # "absent"}
  BY DEF Loads, Spoilt, Good
<1>4. old \subseteq found /\ found \in SUBSET Names
  BY <1>1, <1>3 DEF Accounts
<1> DEFINE more == found \ old
<1>5. /\ IsFiniteSet(found) /\ IsFiniteSet(old) /\ IsFiniteSet(more)
      /\ Cardinality(found) \in Nat /\ Cardinality(old) \in Nat /\ Cardinality(more) \in Nat
      /\ Cardinality(more) = Cardinality(found) - Cardinality(old)
  <2> HIDE DEF found
  <2>1. IsFiniteSet(found) /\ IsFiniteSet(old)
    BY <1>4, NamesFinite, FS_Subset
  <2>2. /\ IsFiniteSet(more)
        /\ Cardinality(more) = Cardinality(found) - Cardinality(found \cap old)
    BY <2>1, FS_Difference
  <2>3. found \cap old = old
    BY <1>4
  <2> QED
    BY <2>1, <2>2, <2>3, FS_CardinalityType
<1>6. IsFiniteSet(own) /\ Cardinality(own) \in Nat /\ Cardinality(own) <= Cardinality(more)
  <2> DEFINE f == [i \in own |-> Name(d, i)]
  <2>1. ASSUME NEW i \in own PROVE f[i] \in more /\ f[i][3] = i
    <3>1. i \in 1 .. Len(variants) /\ variants[i].type # Unwritable /\ file[Name(d, i)] = "whole"
      BY <1>t, <1>2 DEF Written
    <3>2. d \in 1 .. MaxDays /\ i # 0
      BY <1>t, <3>1
    <3>3. Name(d, i) \in Names /\ Name(d, i)[3] = i
      BY <1>t, <3>1, <3>2, NameParts
    <3>4. Name(d, i) \notin old
      BY <1>1, <3>2, <3>3 DEF Accounts
    <3> QED
      BY <1>3, <3>1, <3>3, <3>4
  <2> HIDE DEF found
  <2>2. f \in Injection(own, more)
    <3>1. f \in [own -> more]
      BY <2>1
    <3>2. ASSUME NEW i \in own, NEW j \in own, f[i] = f[j] PROVE i = j
      BY <2>1, <3>2
    <3> HIDE DEF f
    <3> QED
      BY <3>1, <3>2 DEF Injection, IsInjective
  <2> HIDE DEF f, own, more
  <2> QED
    BY <1>5, <2>2, FS_Injection, FS_CardinalityType
<1>7. /\ Cardinality(dates) * Len(variants) \in Nat
      /\ Cardinality(more) <= Cardinality(dates) * Len(variants)
  <2> DEFINE pairs == dates \X (1 .. Len(variants))
  <2> DEFINE g == [n \in more |-> <<n[1], CHOOSE i \in 1 .. Len(variants) : n = Name(n[1], i)>>]
  <2>1. ASSUME NEW n \in more
        PROVE  g[n] \in pairs /\ n = Name(g[n][1], g[n][2])
    <3>1. n \in Names /\ n \notin old /\ file[n] # "absent"
      BY <1>3
    <3>2. PICK e \in dates : \E i \in DOMAIN variants :
            variants[i].type # Unwritable /\ n = Name(e, i)
      BY <1>1, <3>1 DEF Accounts
    <3>3. PICK i \in 1 .. Len(variants) : n = Name(e, i)
      BY <1>t, <3>2
    <3>4. n[1] = e
      BY <3>3 DEF Name
    <3> DEFINE k == CHOOSE j \in 1 .. Len(variants) : n = Name(n[1], j)
    <3>5. k \in 1 .. Len(variants) /\ n = Name(n[1], k)
      BY <3>3, <3>4
    <3>6. g[n] = <<n[1], k>>
      OBVIOUS
    <3> HIDE DEF k
    <3> QED
      BY <3>2, <3>4, <3>5, <3>6
  <2> HIDE DEF found
  <2>2. g \in Injection(more, pairs)
    <3>1. g \in [more -> pairs]
      BY <2>1
    <3>2. ASSUME NEW m \in more, NEW n \in more, g[m] = g[n] PROVE m = n
      BY <2>1, <3>2
    <3> HIDE DEF g
    <3> QED
      BY <3>1, <3>2 DEF Injection, IsInjective
  <2>3. IsFiniteSet(dates) /\ IsFiniteSet(1 .. Len(variants)) /\ Cardinality(1 .. Len(variants)) = Len(variants)
    <3> DEFINE n == Len(variants)
    <3>1. n \in Nat /\ IsFiniteSet(1 .. MaxDays)
      BY <1>t, LibraryConstantsOK, FS_Interval
    <3>2. IsFiniteSet(dates)
      BY <1>t, <3>1, FS_Subset
    <3> HIDE DEF n
    <3>3. IsFiniteSet(1 .. n) /\ Cardinality(1 .. n) = IF 1 > n THEN 0 ELSE n - 1 + 1
      BY <3>1, FS_Interval
    <3>4. Cardinality(1 .. n) = n
      BY <3>1, <3>3
    <3> QED
      BY <3>2, <3>3, <3>4 DEF n
  <2>4. IsFiniteSet(pairs) /\ Cardinality(pairs) = Cardinality(dates) * Len(variants)
    BY <2>3, FS_Product
  <2> HIDE DEF g, pairs, more
  <2>5. Cardinality(more) <= Cardinality(pairs) /\ Cardinality(pairs) \in Nat
    BY <2>2, <2>4, FS_Injection, FS_CardinalityType
  <2> QED
    BY <2>4, <2>5
<1>8. Total(file) = library + Cardinality(found) /\ before = library + Cardinality(old)
  BY <1>1 DEF Total, Accounts
<1> DEFINE most == Cardinality(dates) * Len(variants)
<1>9. most \in Nat /\ Cardinality(more) <= most
  BY <1>7
<1> HIDE DEF own, found, more, most
<1>10. /\ Total(file) \in Nat /\ Total(file) >= before + Cardinality(own)
       /\ Total(file) <= before + most
  BY <1>t, <1>5, <1>6, <1>8, <1>9
<1> QED
  BY <1>10 DEF own, most

\* report_coverage counts a file for every variant with an id of its own besides the
\* audited ones, and more than one for each only by attempts on several dates: no step
\* that raised, died or was retried before it is hidden by the report.
THEOREM ReportsAddUp == Spec => ReportAddsUp
<1> DEFINE Reports == pc = "report" /\ report'.ended = "reported" /\ pc' = "idle"
<1> DEFINE AddsUp ==
      /\ report'.total >= before + Cardinality({i \in DOMAIN variants : ~variants[i].redacted})
      /\ report'.total <= before + Cardinality(dates) * report'.new
      /\ broken' = 0
<1>1. ASSUME LibraryInv, Next, Reports PROVE AddsUp
  <2>1. EndRun("reported", file) /\ Loads
    <3>1. ~EndRun("failed", file) /\ ~EndRun("skipped", file)
      BY <1>1 DEF EndRun
    <3>2. ~AttemptFails(file)
      BY <1>1, <3>1 DEF AttemptFails
    <3>3. ReportCoverage
      BY <1>1, <3>1, <3>2 DEF Next, TaskRuns, GenerateVariants, StartRun, OperatorCleans, Skipped,
                       WorkerDies, Writing, AuditLibrary, CallRaises, AnswerIsInvalid, AnswerIsValid,
                       MayCall, Generating, VariantFails, FinishGenerate, ReadDate, WriteConfig,
                       FinishWrite, NextDay
    <3> QED
      BY <3>2, <3>3 DEF ReportCoverage
  <2>2. report'.total = Total(file) /\ report'.new = Len(variants)
    BY <2>1 DEF EndRun
  <2>3. broken' = 0
    <3>1. broken = 0 /\ Cardinality(Spoilt(file)) = 0
      BY <2>1, FS_EmptySet DEF Loads
    <3> QED
      BY <2>1, <3>1 DEF EndRun
  <2> QED
    BY <1>1, <2>1, <2>2, <2>3, FilesFound
<1>2. LibraryInv /\ [Next]_vars => [Reports => AddsUp]_vars
  BY <1>1
<1> QED
  BY <1>2, LibraryInvariant, PTL DEF Spec, ReportAddsUp

----------------------------------------------------------------------------
(* Runs run down.                                                           *)

\* The steps within a run, and the order they go down.
Within == pc # "idle" /\ pc' # "idle"

UsesUp ==
  \/ Stage' < Stage
  \/ Stage' = Stage /\ tries < tries' /\ tries' <= Retries
  \/ Stage' = Stage /\ tries' = tries /\ AttemptLeft' < AttemptLeft

\* The arithmetic of the loops: n agents of p passes, the one under way being v of a.
LEMMA PassesPositive ==
  ASSUME NEW n \in Nat, NEW p \in Nat, NEW a \in Nat, NEW v \in Nat, a <= n, v <= p
  PROVE  (n + 1 - a) * p - (v - 1) \in Nat \ {0}
<1>1. (n - a) * p >= 0
  OBVIOUS
<1> QED
  BY <1>1

LEMMA PassesOver == \A n, p \in Nat : (n + 1 - (n + 1)) * p - (1 - 1) = 0
OBVIOUS

LEMMA PassOfAgent ==
  \A n, p, a, v \in Nat :
    (n + 1 - a) * p - ((v + 1) - 1) = ((n + 1 - a) * p - (v - 1)) - 1
OBVIOUS

LEMMA PassOfNext ==
  \A n, p, a \in Nat :
    (n + 1 - (a + 1)) * p - (1 - 1) = ((n + 1 - a) * p - (p - 1)) - 1
OBVIOUS

LEMMA CallArithmetic ==
  /\ \A p, m, c \in Nat : p >= 1 /\ c <= m => p * (m + 1) - c \in Nat
  /\ \A m \in Nat : 0 * (m + 1) - 0 = 0
  /\ \A p, m, c \in Nat : p * (m + 1) - (c + 1) < p * (m + 1) - c
  /\ \A p, m, c \in Nat : c <= m => (p - 1) * (m + 1) - 0 < p * (m + 1) - c
<1>1. ASSUME NEW p \in Nat, NEW m \in Nat, NEW c \in Nat, p >= 1, c <= m
      PROVE  p * (m + 1) - c \in Nat
  <2>1. (p - 1) * (m + 1) >= 0
    BY <1>1
  <2> QED
    BY <1>1, <2>1
<1>2. \A m \in Nat : 0 * (m + 1) - 0 = 0
  OBVIOUS
<1>3. \A p, m, c \in Nat : p * (m + 1) - (c + 1) < p * (m + 1) - c
  OBVIOUS
<1>4. \A p, m, c \in Nat : c <= m => (p - 1) * (m + 1) - 0 < p * (m + 1) - c
  OBVIOUS
<1> QED
  BY <1>1, <1>2, <1>3, <1>4

\* The passes left, now and after the pass under way.
LEMMA Passes ==
  ASSUME LibraryInv
  PROVE  /\ agent <= NumAgents => PassesLeft \in Nat \ {0}
         /\ agent = NumAgents + 1 => PassesLeft = 0 /\ call = 0
<1>1. /\ agent \in Nat /\ variant \in Nat /\ variant <= PerAgent
      /\ NumAgents \in Nat /\ PerAgent \in Nat
  BY Counters, Sizes DEF LibraryInv
<1>2. CASE agent = NumAgents + 1
  <2>1. variant = 1 /\ call = 0
    BY <1>2 DEF LibraryInv, LoopsOK
  <2>2. (NumAgents + 1 - (NumAgents + 1)) * PerAgent - (1 - 1) = 0
    BY <1>1, PassesOver, Zenon
  <2>3. PassesLeft = (NumAgents + 1 - agent) * PerAgent - (variant - 1)
    BY DEF PassesLeft
  <2>4. PassesLeft = 0
    BY <1>2, <2>1, <2>2, <2>3, Zenon
  <2> QED
    BY <1>1, <1>2, <2>1, <2>4
<1>3. CASE agent <= NumAgents
  <2>1. PassesLeft \in Nat \ {0}
    BY <1>1, <1>3, PassesPositive, Zenon DEF PassesLeft
  <2> QED
    BY <1>1, <1>3, <2>1
<1> QED
  BY <1>1, <1>2, <1>3

LEMMA PassesStep ==
  ASSUME LibraryInv, agent <= NumAgents,
         \/ variant < PerAgent /\ variant' = variant + 1 /\ agent' = agent
         \/ ~(variant < PerAgent) /\ variant' = 1 /\ agent' = agent + 1
  PROVE  PassesLeft' = PassesLeft - 1
<1>1. /\ agent \in Nat /\ variant \in Nat /\ variant <= PerAgent
      /\ NumAgents \in Nat /\ PerAgent \in Nat
  BY Counters, Sizes DEF LibraryInv
<1> DEFINE Left(a, v) == (NumAgents + 1 - a) * PerAgent - (v - 1)
<1>2. PassesLeft = Left(agent, variant) /\ PassesLeft' = Left(agent', variant')
  BY DEF PassesLeft
<1>3. Left(agent, variant + 1) = Left(agent, variant) - 1
  <2>1. (NumAgents + 1 - agent) * PerAgent - ((variant + 1) - 1)
          = ((NumAgents + 1 - agent) * PerAgent - (variant - 1)) - 1
    BY <1>1, PassOfAgent, Zenon
  <2> QED
    BY <2>1
<1>4. Left(agent + 1, 1) = Left(agent, PerAgent) - 1
  <2>1. (NumAgents + 1 - (agent + 1)) * PerAgent - (1 - 1)
          = ((NumAgents + 1 - agent) * PerAgent - (PerAgent - 1)) - 1
    BY <1>1, PassOfNext, Zenon
  <2> QED
    BY <2>1
<1> HIDE DEF Left
<1>5. CASE variant' = variant + 1 /\ agent' = agent
  BY <1>2, <1>3, <1>5
<1>6. CASE ~(variant < PerAgent) /\ variant' = 1 /\ agent' = agent + 1
  <2>1. variant = PerAgent
    BY <1>1, <1>6
  <2> QED
    BY <1>2, <1>4, <1>6, <2>1
<1> QED
  BY <1>5, <1>6

\* A pass takes Calls calls and a last step at most.
LEMMA AttemptLeftGenerate ==
  ASSUME LibraryInv, pc = "generate"
  PROVE  /\ AttemptLeft = PassesLeft * (Calls + 1) - call
         /\ AttemptLeft \in Nat
<1>1. AttemptLeft = PassesLeft * (Calls + 1) - call
  BY DEF AttemptLeft
<1>2. call \in Nat /\ call <= Calls /\ Calls \in Nat
  BY Counters, Sizes DEF LibraryInv
<1>3. CASE agent <= NumAgents
  <2>1. PassesLeft \in Nat /\ PassesLeft >= 1
    BY <1>3, Passes
  <2> QED
    BY <1>1, <1>2, <2>1, CallArithmetic, Zenon
<1>4. CASE agent = NumAgents + 1
  <2>1. PassesLeft = 0 /\ call = 0
    BY <1>4, Passes
  <2>2. AttemptLeft = 0
    BY <1>1, <1>2, <2>1, CallArithmetic, Zenon
  <2> QED
    BY <1>1, <2>2
<1> QED
  BY <1>1, <1>3, <1>4, Counters, Sizes DEF LibraryInv

LEMMA AttemptLeftNat ==
  ASSUME LibraryInv
  PROVE  AttemptLeft \in Nat
<1>1. CASE pc = "generate"
  BY <1>1, AttemptLeftGenerate
<1>2. CASE pc = "write"
  <2>1. Len(variants) \in Nat /\ next \in Nat /\ next <= Len(variants) + 1
    BY <1>2, Counters DEF LibraryInv, FilesOK
  <2>2. AttemptLeft = Len(variants) + (IF date = 0 THEN 2 ELSE 1) - next
    BY <1>2 DEF AttemptLeft
  <2> QED
    BY <2>1, <2>2
<1>3. CASE pc # "generate" /\ pc # "write"
  BY <1>3 DEF AttemptLeft
<1> QED
  BY <1>1, <1>2, <1>3

\* A retry uses up an attempt.
LEMMA FailUsesUp ==
  ASSUME LibraryInv, Within, NEW disk, AttemptFails(disk)
  PROVE  UsesUp
<1>1. MayRetry
  BY DEF Within, AttemptFails, EndRun
<1>2. tries' = tries + 1 /\ pc' = pc
  BY <1>1 DEF AttemptFails
<1>3. tries \in Nat /\ Retries \in Nat /\ tries < Retries
  BY <1>1, Counters, Sizes DEF LibraryInv, MayRetry
<1> QED
  BY <1>2, <1>3 DEF UsesUp, Stage

\* The loops of generate_variants use up calls and passes.
LEMMA LoopUsesUp ==
  ASSUME LibraryInv, LibraryInv', Within,
         \/ CallRaises
         \/ \E cost \in 1 .. MaxCost :
              AnswerIsInvalid(cost) \/ AnswerIsValid(cost)
         \/ VariantFails
  PROVE  UsesUp
<1>1. /\ Generating /\ UNCHANGED <<pc, tries>>
      /\ \/ call < Calls /\ call' = call + 1 /\ UNCHANGED <<agent, variant>>
         \/ /\ call' = 0
            /\ \/ variant < PerAgent /\ variant' = variant + 1 /\ agent' = agent
               \/ ~(variant < PerAgent) /\ variant' = 1 /\ agent' = agent + 1
  BY DEF CallRaises, AnswerIsInvalid, AnswerIsValid, VariantFails, NextVariant, MayCall,
         Generating, generateOnly
<1>2. pc = "generate" /\ pc' = "generate" /\ tries' = tries /\ agent <= NumAgents
  BY <1>1 DEF Generating
<1>3. /\ AttemptLeft = PassesLeft * (Calls + 1) - call
      /\ AttemptLeft' = PassesLeft' * (Calls + 1) - call'
  BY <1>2 DEF AttemptLeft
<1>4. call \in Nat /\ call <= Calls /\ Calls \in Nat /\ PassesLeft \in Nat
  BY <1>2, Counters, Sizes, Passes DEF LibraryInv
<1>5. AttemptLeft' < AttemptLeft
  <2>1. CASE call' = call + 1 /\ UNCHANGED <<agent, variant>>
    <3>1. PassesLeft' = PassesLeft
      BY <2>1 DEF PassesLeft
    <3> QED
      BY <1>3, <1>4, <2>1, <3>1, CallArithmetic, Zenon
  <2>2. CASE /\ call' = 0
             /\ \/ variant < PerAgent /\ variant' = variant + 1 /\ agent' = agent
                \/ ~(variant < PerAgent) /\ variant' = 1 /\ agent' = agent + 1
    <3>1. PassesLeft' = PassesLeft - 1
      BY <1>2, <2>2, PassesStep
    <3> QED
      BY <1>3, <1>4, <2>2, <3>1, CallArithmetic, Zenon
  <2> QED
    BY <1>1, <2>1, <2>2
<1> QED
  BY <1>2, <1>5 DEF UsesUp, Stage

LEMMA StepUsesUp ==
  ASSUME LibraryInv, LibraryInv', Next, Within, ~NextDay
  PROVE  UsesUp
<1>1. CASE StartRun \/ OperatorCleans \/ Skipped
  BY <1>1 DEF Within, StartRun, OperatorCleans, Skipped, EndRun
<1>2. CASE WorkerDies
  BY <1>2, FailUsesUp DEF WorkerDies
<1>3. CASE AuditLibrary
  <2>1. CASE MovesOn("generate")
    BY <1>3, <2>1 DEF AuditLibrary, MovesOn, UsesUp, Stage
  <2> QED
    BY <1>3, <2>1, FailUsesUp DEF AuditLibrary
<1>4. CASE GenerateVariants
  <2>1. CASE FinishGenerate
    BY <2>1 DEF FinishGenerate, MovesOn, UsesUp, Stage
  <2> QED
    BY <1>4, <2>1, LoopUsesUp DEF GenerateVariants
<1>5. CASE WriteConfig
  <2>1. CASE AttemptFails(file)
    BY <2>1, FailUsesUp
  <2>2. CASE next' = next + 1 /\ UNCHANGED <<pc, tries, variants, date>>
    <3>1. pc = "write" /\ pc' = "write" /\ tries' = tries /\ date # 0 /\ date' # 0
      BY <1>5, <2>2 DEF WriteConfig, Writing
    <3>2. Len(variants) \in Nat /\ next \in Nat
      BY Counters DEF LibraryInv
    <3>3. AttemptLeft = Len(variants) + 1 - next /\ AttemptLeft' = Len(variants) + 1 - (next + 1)
      BY <2>2, <3>1 DEF AttemptLeft
    <3> QED
      BY <3>1, <3>2, <3>3 DEF UsesUp, Stage
  <2> QED
    BY <1>5, <2>1, <2>2 DEF WriteConfig
<1>d. CASE ReadDate
  <2>1. /\ pc = "write" /\ pc' = "write" /\ tries' = tries /\ date = 0 /\ date' = day
        /\ UNCHANGED <<variants, next>>
    BY <1>d DEF ReadDate
  <2>2. date' # 0 /\ Len(variants) \in Nat /\ next \in Nat
    <3>1. day \in 1 .. MaxDays /\ MaxDays \in Nat
      BY LibraryConstantsOK DEF LibraryInv, TypeOK
    <3> QED
      BY <2>1, <3>1, Counters DEF LibraryInv
  <2>3. AttemptLeft = Len(variants) + 2 - next /\ AttemptLeft' = Len(variants) + 1 - next
    BY <2>1, <2>2 DEF AttemptLeft
  <2> QED
    BY <2>1, <2>2, <2>3 DEF UsesUp, Stage
<1>6. CASE FinishWrite
  BY <1>6 DEF FinishWrite, MovesOn, UsesUp, Stage
<1>7. CASE ReportCoverage
  BY <1>7, FailUsesUp DEF ReportCoverage, EndRun, Within
<1> QED
  BY <1>1, <1>2, <1>3, <1>4, <1>5, <1>d, <1>6, <1>7 DEF Next, TaskRuns

\* Retries, failing calls and dying workers cannot keep a run going forever: the tasks,
\* the attempts and what is left of an attempt go down together, lexicographically.
THEOREM RunsGoDown == Spec => RunsRunDown
<1>1. LibraryInv /\ LibraryInv' /\ [Next]_vars => [Within => AttemptLeft \in Nat /\ UsesUp]_runVars
  <2>1. NextDay \/ UNCHANGED vars => UNCHANGED runVars
    BY DEF NextDay, vars, attemptVars, runVars
  <2> QED
    BY <2>1, AttemptLeftNat, StepUsesUp
<1>2. [Within => AttemptLeft \in Nat /\ UsesUp]_runVars
        => [pc # "idle" /\ pc' # "idle" =>
              /\ AttemptLeft \in Nat
              /\ \/ Stage' < Stage
                 \/ Stage' = Stage /\ tries < tries' /\ tries' <= Retries
                 \/ Stage' = Stage /\ tries' = tries /\ AttemptLeft' < AttemptLeft]_runVars
  BY DEF Within, UsesUp
<1> QED
  BY <1>1, <1>2, LibraryInvariant, PTL DEF Spec, RunsRunDown
==============================================================================

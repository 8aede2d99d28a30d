-------------------------- MODULE ItemStages_proofs ---------------------------
(* Theorems about ItemStages: what is shown and recorded of a piece belongs  *)
(* to the photo it has now, no late answer is applied, a deleted piece has   *)
(* no work left, and a photo is paid for no more often than it was asked.    *)
EXTENDS ItemStages, FiniteSetTheorems, TLAPS

(* What the code fixes of the constants: there are revisions, months and     *)
(* attempts, and every piece has a cutout stage.                             *)
Bounds ==
  /\ Revisions \in Nat \ {0} /\ Months \in Nat \ {0} /\ MaxAttempts \in Nat
  /\ MaxManualRetries \in Nat /\ MaxRestores \in Nat /\ "cutout" \in Stages

JobRecords ==
  [state : Waiting \cup Ended \cup {"none", "running"}, gen : 0..MaxGen,
   attempts : 0..MaxAttempts, manual : 0..MaxManualRetries,
   resumes : 0..MaxResumes, code : Codes, parked : 0..Months,
   source : 0..Revisions]

(* A generation costs an attempt; a manual retry, a resume and a restoration *)
(* of the member give the attempts back, and months bound the resumes.       *)
Restored == member.suspensions - (IF member.active THEN 0 ELSE 1)
Spent(j) == j.gen <= MaxAttempts * (j.manual + j.resumes + Restored) + j.attempts
Paced(j) ==
  /\ j.resumes < budget.month
  /\ j.state = "blocked_budget" => j.resumes < j.parked
Counted(j) == Spent(j) /\ Paced(j) /\ (j.state = "running" => j.gen # 0)
Counts == 0 <= Restored /\ \A s \in Stages, r \in Revs : Counted(job[s][r])

(* A job is queued at the revision the piece has then; what a stage after    *)
(* the cutout has read is the cutout of its own revision, and the cutout     *)
(* stage reads the original the piece has until its revision passes.         *)
FutureEmpty == \A s \in Stages, r \in Revs : r > item.rev => job[s][r].state = "none"
ReadsItsCutout ==
  \A s \in FromCutout, r \in Revs :
    /\ item.life # "deleted" /\ item.rev = r /\ job[s][r].state # "none" => item.shown = r
    /\ job[s][r].state = "running" => job[s][r].source = r
ReadsItsOriginal ==
  item.life # "deleted" /\ job["cutout"][item.rev].state = "running" =>
    job["cutout"][item.rev].source = item.original
Sources == row["cutout"] = item.rev /\ FutureEmpty /\ ReadsItsCutout /\ ReadsItsOriginal

(* The attempt keys a photo was asked for under form a chain below the one   *)
(* its job has now, so that no two have the same number of requests.         *)
Asked(r) == {k \in Keys : k.rev = r /\ (ai[k].state # "none" \/ \E u \in runs : u.key = k)}
Below(k, j) == k.manual <= j.manual /\ k.resumes <= j.resumes
KeysInOrder ==
  "tags" \in Stages => \A r \in Revs :
    /\ job["tags"][r].state = "none" => Asked(r) = {}
    /\ \A k \in Asked(r) : Below(k, job["tags"][r])
    /\ \A k, l \in Asked(r) : Below(k, l) \/ Below(l, k)

OnlyTagsAsk == runs # {} => "tags" \in Stages
StagesInv ==
  /\ TypeOK /\ Counts /\ Sources /\ OnlyTagsAsk
  /\ CutoutFollowsPhoto /\ DerivedFromItsCutout /\ DeletedPieceIdle
IInv == StagesInv /\ KeysInOrder

-----------------------------------------------------------------------------
(* What a step may do to the job j of a stage and revision, which becomes k. *)
SameCounts(j, k) ==
  /\ k.gen = j.gen /\ k.attempts = j.attempts /\ k.manual = j.manual /\ k.resumes = j.resumes
  /\ k.source = j.source
Queues(s, r, j, k) ==
  /\ item.life # "deleted" /\ j.state = "none" /\ k = Queued /\ r = item'.rev
  /\ s \in FromCutout => item'.shown = r
Starts(s, r, j, k) ==
  /\ Current(r) /\ j.state = "queued" /\ j.attempts < MaxAttempts /\ SourceOf(s) # 0
  /\ k = [j EXCEPT !.state = "running", !.gen = j.gen + 1, !.attempts = j.attempts + 1,
                   !.source = SourceOf(s)]
Settles(s, r, j, k) ==
  /\ j.state # "none" /\ k.state \notin {"none", "running"} /\ SameCounts(j, k)
  /\ k.state = "succeeded" =>
       /\ j.state = "running" /\ Current(r)
       /\ s = "cutout" => item'.shown = r /\ item'.cutFrom = j.source /\ item'.original = item.original
  /\ k.state \notin Ended => j.state \notin Ended
  /\ k.state = "blocked_budget" => k.parked = budget.month \/ (j.state = k.state /\ k.parked = j.parked)
Repeats(j, k) ==
  /\ item.life # "deleted" /\ j.state # "none"
  /\ k.state = "queued" /\ k.gen = j.gen /\ k.attempts = 0 /\ k.source = j.source
  /\ \/ k.manual = j.manual + 1 /\ k.resumes = j.resumes
     \/ /\ k.manual = j.manual /\ k.resumes = j.resumes + 1
        /\ j.state = "blocked_budget" /\ j.parked < budget.month
     \/ k.manual = j.manual /\ k.resumes = j.resumes /\ Restored' = Restored + 1
JobMove(s, r, j, k) ==
  k = j \/ Queues(s, r, j, k) \/ Starts(s, r, j, k) \/ Settles(s, r, j, k) \/ Repeats(j, k)

(* And to the piece.                                                         *)
Stays == item' = item /\ row'["cutout"] = row["cutout"]
Advances ==
  /\ item.life # "deleted" /\ item.rev < Revisions
  /\ item'.life = item.life /\ item'.rev = item.rev + 1 /\ row'["cutout"] = item.rev + 1
Shows ==
  /\ job["cutout"][item.rev].state = "running" /\ item.life # "deleted"
  /\ item'.life = item.life /\ item'.rev = item.rev /\ item'.original = item.original
  /\ item'.shown = item.rev /\ item'.cutFrom = job["cutout"][item.rev].source
  /\ job'["cutout"][item.rev].state = "succeeded" /\ row'["cutout"] = row["cutout"]
Deletes ==
  /\ item'.life = "deleted" /\ item'.rev = item.rev /\ row'["cutout"] = row["cutout"]
  /\ \A s \in Stages, r \in Revs : job'[s][r].state \in Ended \cup {"none"}
Step ==
  /\ Stays \/ Advances \/ Shows \/ Deletes
  /\ Restored' \in {Restored, Restored + 1} /\ budget'.month >= budget.month
  /\ \A d \in derived' \ derived : d.cutout = d.rev
  /\ OnlyTagsAsk'
  /\ \A s \in Stages, r \in Revs : JobMove(s, r, job[s][r], job'[s][r])

(* The piece and its jobs stay as they must whatever the step.               *)
LEMMA Typed ==
  ASSUME Bounds, TypeOK
  PROVE  /\ job \in [Stages -> [Revs -> JobRecords]] /\ item.rev \in Revs /\ Revs \subseteq Nat
         /\ \A s \in Stages, r \in Revs : job[s][r] \in JobRecords
         /\ budget.month \in Nat /\ Restored \in Int
<1>1. job \in [Stages -> [Revs -> JobRecords]]
  BY DEF TypeOK, JobRecords
<1>2. item.rev \in Revs /\ Revs \subseteq Nat /\ budget.month \in Nat
  <2>1. item.rev \in Revs /\ budget.month \in 1..Months
    BY DEF TypeOK
  <2> QED BY <2>1 DEF Revs, Bounds
<1>3. Restored \in Int
  BY DEF TypeOK, Restored, Bounds
<1> QED BY <1>1, <1>2, <1>3

LEMMA StepKeepsSources ==
  ASSUME Bounds, StagesInv, Step, TypeOK' PROVE Sources'
<1>1. /\ item.rev \in Nat /\ item'.rev \in Nat /\ item'.rev \in Revs /\ Revs \subseteq Nat
      /\ "cutout" \in Stages /\ "cutout" \notin FromCutout /\ FromCutout \subseteq Stages
  BY Typed DEF StagesInv, TypeOK, Bounds, Revs, FromCutout
<1>2. item'.rev >= item.rev
  BY <1>1 DEF Step, Stays, Advances, Shows, Deletes
<1>3. FutureEmpty'
  <2> SUFFICES ASSUME NEW s \in Stages, NEW r \in Revs, r > item'.rev PROVE job'[s][r].state = "none"
    BY DEF FutureEmpty
  <2>1. job[s][r].state = "none" /\ r # item'.rev
    BY <1>1, <1>2 DEF StagesInv, Sources, FutureEmpty
  <2> QED BY <2>1 DEF Step, JobMove, Queues, Starts, Settles, Repeats
<1>4. row'["cutout"] = item'.rev
  BY DEF Step, Stays, Advances, Shows, Deletes, StagesInv, Sources
<1>5. ReadsItsCutout'
  <2> SUFFICES ASSUME NEW s \in FromCutout, NEW r \in Revs
               PROVE  /\ item'.life # "deleted" /\ item'.rev = r /\ job'[s][r].state # "none" =>
                           item'.shown = r
                      /\ job'[s][r].state = "running" => job'[s][r].source = r
    BY DEF ReadsItsCutout, FromCutout
  <2> DEFINE j == job[s][r]
             k == job'[s][r]
  <2>1. s \in Stages /\ s \notin {"cutout", "tags"} /\ j \in JobRecords /\ JobMove(s, r, j, k)
    BY Typed DEF FromCutout, StagesInv, Step
  <2>2. ASSUME item'.life # "deleted", item'.rev = r, k.state # "none" PROVE item'.shown = r
    <3>1. CASE j.state = "none"
      BY <2>1, <2>2, <3>1 DEF JobMove, Queues, Starts, Settles, Repeats
    <3>2. CASE j.state # "none"
      <4>1. ~Advances
        BY <1>1, <2>2, <3>2, <2>1 DEF Advances, StagesInv, Sources, FutureEmpty
      <4>2. item.rev = r /\ item.life # "deleted" => item.shown = r
        BY <3>2 DEF StagesInv, Sources, ReadsItsCutout
      <4> QED BY <2>2, <4>1, <4>2 DEF Step, Stays, Shows, Deletes
    <3> QED BY <3>1, <3>2
  <2>3. ASSUME k.state = "running" PROVE k.source = r
    <3>1. CASE k = j
      BY <2>3, <3>1 DEF StagesInv, Sources, ReadsItsCutout
    <3>2. CASE Starts(s, r, j, k)
      <4>1. k.source = item.shown
        BY <2>1, <3>2 DEF Starts, SourceOf, JobRecords
      <4>2. item.shown = r
        BY <3>2 DEF Starts, Current, StagesInv, Sources, ReadsItsCutout
      <4> QED BY <4>1, <4>2
    <3>3. ~Queues(s, r, j, k)
      BY <2>3 DEF Queues, Queued, NoJob
    <3> QED BY <2>1, <2>3, <3>1, <3>2, <3>3 DEF JobMove, Settles, Repeats
  <2> QED BY <2>2, <2>3
<1>6. ReadsItsOriginal'
  <2> SUFFICES ASSUME item'.life # "deleted", job'["cutout"][item'.rev].state = "running"
               PROVE  job'["cutout"][item'.rev].source = item'.original
    BY DEF ReadsItsOriginal
  <2> DEFINE j == job["cutout"][item'.rev]
             k == job'["cutout"][item'.rev]
  <2>1. j \in JobRecords /\ JobMove("cutout", item'.rev, j, k)
    BY <1>1, Typed DEF StagesInv, Step
  <2>2. k = j \/ Starts("cutout", item'.rev, j, k)
    BY <2>1 DEF JobMove, Queues, Queued, NoJob, Settles, Repeats
  <2>3. j.state # "none"
    BY <2>2 DEF Starts
  <2>4. item'.rev = item.rev
    BY <1>1, <1>2, <2>3 DEF StagesInv, Sources, FutureEmpty
  <2>5. item'.original = item.original /\ item.life # "deleted"
    BY <2>4, <1>1 DEF Step, Stays, Advances, Shows, Deletes
  <2>6. CASE k = j
    BY <2>4, <2>5, <2>6 DEF StagesInv, Sources, ReadsItsOriginal
  <2>7. CASE Starts("cutout", item'.rev, j, k)
    BY <1>1, <2>1, <2>5, <2>7 DEF Starts, SourceOf, JobRecords
  <2> QED BY <2>2, <2>6, <2>7
<1> QED BY <1>3, <1>4, <1>5, <1>6 DEF Sources

LEMMA StepKeepsShown ==
  ASSUME Bounds, StagesInv, Step, TypeOK'
  PROVE  CutoutFollowsPhoto' /\ DerivedFromItsCutout' /\ DeletedPieceIdle'
<1>1. /\ item.rev \in Nat /\ item'.rev \in Nat /\ item'.rev \in Revs /\ Revs \subseteq Nat
      /\ "cutout" \in Stages /\ item.rev \in Revs /\ item.rev # 0
  <2>1. item.rev \in Revs /\ item'.rev \in Revs
    BY DEF StagesInv, TypeOK
  <2> QED BY <2>1 DEF Bounds, Revs
<1>2. item'.rev >= item.rev /\ row'["cutout"] = item'.rev
  BY <1>1, StepKeepsSources DEF Step, Stays, Advances, Shows, Deletes, Sources
<1>3. CutoutFollowsPhoto'
  <2> SUFFICES ASSUME item'.life # "deleted", job'["cutout"][item'.rev].state = "succeeded"
               PROVE  item'.shown = item'.rev /\ item'.cutFrom = item'.original
    BY <1>2 DEF CutoutFollowsPhoto
  <2> DEFINE j == job["cutout"][item'.rev]
             k == job'["cutout"][item'.rev]
  <2>1. j \in JobRecords /\ JobMove("cutout", item'.rev, j, k)
    BY <1>1, Typed DEF StagesInv, Step
  <2>2. k = j \/ Settles("cutout", item'.rev, j, k)
    BY <2>1 DEF JobMove, Queues, Queued, NoJob, Starts, Repeats, JobRecords
  <2>3. j.state # "none"
    BY <2>2 DEF Settles
  <2>4. item'.rev = item.rev
    BY <1>1, <1>2, <2>3 DEF StagesInv, Sources, FutureEmpty
  <2>5. item'.original = item.original /\ item.life # "deleted" /\ (Stays \/ Shows)
    BY <2>4, <1>1 DEF Step, Stays, Advances, Shows, Deletes
  <2>6. CASE k = j
    <3>1. Stays
      BY <2>4, <2>5, <2>6 DEF Shows
    <3> QED BY <2>4, <2>5, <2>6, <3>1, <1>1 DEF Stays, StagesInv, Sources, CutoutFollowsPhoto
  <2>7. CASE Settles("cutout", item'.rev, j, k)
    BY <2>4, <2>5, <2>7 DEF Settles, StagesInv, Sources, ReadsItsOriginal
  <2> QED BY <2>2, <2>6, <2>7
<1>4. DerivedFromItsCutout'
  BY DEF Step, StagesInv, DerivedFromItsCutout
<1>5. DeletedPieceIdle'
  <2> SUFFICES ASSUME item'.life = "deleted", NEW s \in Stages, NEW r \in Revs
               PROVE  job'[s][r].state \in Ended \cup {"none"}
    BY DEF DeletedPieceIdle
  <2>1. CASE Deletes
    BY <2>1 DEF Deletes
  <2>2. CASE item.life = "deleted"
    <3>1. job[s][r].state \in Ended \cup {"none"} /\ JobMove(s, r, job[s][r], job'[s][r])
      BY <2>2 DEF StagesInv, DeletedPieceIdle, Step
    <3> QED BY <2>2, <3>1 DEF JobMove, Queues, Starts, Current, Settles, Repeats
  <2> QED BY <2>1, <2>2 DEF Step, Stays, Advances, Shows
<1> QED BY <1>3, <1>4, <1>5

-----------------------------------------------------------------------------
(* The counts of a job stay within what it was given.                        *)
LEMMA MultiplesGrow ==
  ASSUME NEW a \in Nat, NEW m \in Nat, NEW n \in Nat, m <= n PROVE a * m <= a * n
<1>1. n - m \in Nat /\ n = m + (n - m)
  OBVIOUS
<1>2. a * (n - m) \in Nat
  BY <1>1
<1>3. a * n = a * m + a * (n - m)
  BY <1>1
<1> QED BY <1>2, <1>3

LEMMA MaxGenIsNat == ASSUME Bounds PROVE MaxGen \in Nat /\ MaxResumes \in Nat
<1>1. MaxAttempts \in Nat /\ 1 + MaxManualRetries + MaxResumes + MaxRestores \in Nat /\ MaxResumes \in Nat
  BY DEF Bounds, MaxResumes
<1> QED BY <1>1 DEF MaxGen

LEMMA StepKeepsCounts == ASSUME Bounds, StagesInv, Step, TypeOK' PROVE Counts'
<1>1. Restored \in Nat /\ Restored' \in Nat /\ Restored' >= Restored /\ MaxAttempts \in Nat
  BY Typed DEF StagesInv, Counts, Step, Bounds
<1> SUFFICES ASSUME NEW s \in Stages, NEW r \in Revs PROVE Counted(job[s][r])'
  BY <1>1 DEF Counts
<1> DEFINE j == job[s][r]
           k == job'[s][r]
           m == j.manual + j.resumes + Restored
           n == k.manual + k.resumes + Restored'
<1>2. JobMove(s, r, j, k)
  BY DEF Step
<1>3. Spent(j) /\ Paced(j) /\ (j.state = "running" => j.gen # 0)
  BY DEF StagesInv, Counts, Counted
<1>4. j \in JobRecords /\ k \in JobRecords
  BY DEF StagesInv, TypeOK, JobRecords
<1>5. /\ j.gen \in Nat /\ k.gen \in Nat /\ j.attempts \in 0..MaxAttempts /\ k.attempts \in Nat
      /\ j.manual \in Nat /\ j.resumes \in Nat /\ k.manual \in Nat /\ k.resumes \in Nat
      /\ j.parked \in Nat /\ k.parked \in Nat
  BY <1>4, <1>1, MaxGenIsNat DEF JobRecords, Bounds
<1>6. budget.month \in Nat /\ budget'.month \in Nat /\ budget'.month >= budget.month /\ budget'.month >= 1
  <2>1. budget.month \in 1..Months /\ budget'.month \in 1..Months
    BY DEF StagesInv, TypeOK
  <2> QED BY <2>1 DEF Bounds, Step
<1>7. m \in Nat /\ n \in Nat
  BY <1>1, <1>5
<1>8. j.gen <= MaxAttempts * m + j.attempts
  BY <1>3 DEF Spent
<1>9. PICK p \in Nat, q \in Nat : p = MaxAttempts * m /\ q = MaxAttempts * n /\ (m <= n => p <= q)
  BY <1>1, <1>7, MultiplesGrow
<1>10. CASE k = j \/ Starts(s, r, j, k) \/ Settles(s, r, j, k)
  <2>1. /\ k.manual = j.manual /\ k.resumes = j.resumes
        /\ \/ k.gen = j.gen /\ k.attempts = j.attempts
           \/ k.gen = j.gen + 1 /\ k.attempts = j.attempts + 1 /\ k.state = "running"
    <3>1. CASE Starts(s, r, j, k)
      BY <1>4, <3>1 DEF Starts, JobRecords
    <3> QED BY <1>10, <3>1 DEF Settles, SameCounts
  <2>2. m <= n
    BY <1>1, <1>5, <2>1
  <2>3. k.gen <= q + k.attempts
    BY <1>1, <1>5, <1>8, <1>9, <2>1, <2>2
  <2>4. k.state = "running" => k.gen # 0
    <3>1. Starts(s, r, j, k) => k.gen = j.gen + 1
      BY <1>4 DEF Starts, JobRecords
    <3> QED BY <1>3, <1>5, <1>10, <3>1 DEF Settles
  <2>5. k.resumes < budget'.month /\ (k.state = "blocked_budget" => k.resumes < k.parked)
    <3>1. j.resumes < budget.month /\ (j.state = "blocked_budget" => j.resumes < j.parked)
      BY <1>3 DEF Paced
    <3>2. CASE Starts(s, r, j, k)
      <4>1. k.state = "running"
        BY <1>4, <3>2 DEF Starts, JobRecords
      <4> QED BY <1>5, <1>6, <2>1, <3>1, <4>1
    <3>3. CASE k = j \/ Settles(s, r, j, k)
      <4>1. k.state = "blocked_budget" => k.parked = budget.month \/ (j.state = k.state /\ k.parked = j.parked)
        BY <3>3 DEF Settles
      <4> QED BY <1>5, <1>6, <2>1, <3>1, <4>1
    <3> QED BY <1>10, <3>2, <3>3
  <2> QED BY <1>9, <2>3, <2>4, <2>5 DEF Counted, Spent, Paced
<1>11. CASE Queues(s, r, j, k)
  <2>1. k.gen = 0 /\ k.attempts = 0 /\ k.resumes = 0 /\ k.state = "queued"
    BY <1>11 DEF Queues, Queued, NoJob
  <2> QED BY <1>6, <1>7, <1>9, <2>1 DEF Counted, Spent, Paced
<1>12. CASE Repeats(j, k)
  <2>1. k.state = "queued" /\ k.gen = j.gen /\ k.attempts = 0 /\ m + 1 <= n
    BY <1>1, <1>5, <1>12 DEF Repeats
  <2>2. MaxAttempts * (m + 1) = p + MaxAttempts
    BY <1>1, <1>7, <1>9
  <2>3. p + MaxAttempts <= q
    <3>1. MaxAttempts * (m + 1) <= MaxAttempts * n
      BY <1>1, <1>7, <2>1, MultiplesGrow
    <3> QED BY <1>9, <2>2, <3>1
  <2>4. k.gen <= q + k.attempts
    BY <1>1, <1>5, <1>8, <1>9, <2>1, <2>3
  <2>5. k.resumes < budget'.month
    BY <1>3, <1>5, <1>6, <1>12 DEF Repeats, Paced
  <2> QED BY <1>9, <2>1, <2>4, <2>5 DEF Counted, Spent, Paced
<1> QED BY <1>2, <1>10, <1>11, <1>12 DEF JobMove

LEMMA StepKeepsStages == ASSUME Bounds, StagesInv, Step, TypeOK' PROVE StagesInv'
BY StepKeepsSources, StepKeepsShown, StepKeepsCounts DEF StagesInv, Step

(* An attempt fits into the generations of its job.                          *)
LEMMA AnotherGeneration ==
  ASSUME Bounds, StagesInv, NEW s \in Stages, NEW r \in Revs, job[s][r].attempts < MaxAttempts
  PROVE  job[s][r].gen + 1 \in 0..MaxGen
<1> DEFINE j == job[s][r]
           m == j.manual + j.resumes + Restored
           n == 1 + MaxManualRetries + MaxResumes + MaxRestores
<1>1. /\ j.gen \in Nat /\ j.attempts \in Nat /\ j.manual \in 0..MaxManualRetries
      /\ j.resumes \in 0..MaxResumes /\ Restored \in 0..MaxRestores
  <2>1. j \in JobRecords
    BY Typed DEF StagesInv
  <2>2. Restored \in 0..MaxRestores
    BY DEF StagesInv, TypeOK, Counts, Restored, Bounds
  <2> QED BY <2>1, <2>2, MaxGenIsNat DEF JobRecords
<1>2. /\ MaxAttempts \in Nat /\ m \in Nat /\ n \in Nat /\ m + 1 <= n
      /\ MaxManualRetries \in Nat /\ MaxResumes \in Nat /\ MaxRestores \in Nat
  BY <1>1 DEF Bounds, MaxResumes
<1>3. PICK p \in Nat, q \in Nat : p = MaxAttempts * m /\ q = MaxAttempts * n
  BY <1>2
<1>4. MaxAttempts * (m + 1) = p + MaxAttempts
  BY <1>2, <1>3
<1>5. p + MaxAttempts <= q
  <2>1. MaxAttempts * (m + 1) <= MaxAttempts * n
    BY <1>2, MultiplesGrow
  <2> QED BY <1>3, <1>4, <2>1
<1>6. j.gen <= p + j.attempts
  BY <1>3 DEF StagesInv, Counts, Counted, Spent
<1> QED BY <1>1, <1>2, <1>3, <1>5, <1>6 DEF MaxGen

-----------------------------------------------------------------------------
(* Every action keeps the types and is such a step.                          *)
Outcome == TypeOK' /\ Step
RestTyped ==
  /\ member \in [active : BOOLEAN, suspensions : 0..MaxRestores]
  /\ item \in [life : {"active", "deleted"}, rev : Revs, original : 0..Revisions,
               shown : 0..Revisions, cutFrom : 0..Revisions]
  /\ row \in [Stages -> 0..Revisions]
  /\ mask \in [Revs -> {"none", "stored", "gone"}]
  /\ derived \subseteq [stage : FromCutout, rev : Revs, cutout : Revs]
  /\ tagged \subseteq Revs
  /\ runs \subseteq AiRuns
  /\ ai \in [Keys -> [state : {"none", "refused", "sent"}, month : 0..Months]]
  /\ budget \in [month : 1..Months, paused : BOOLEAN]
JobStates == Waiting \cup Ended \cup {"none", "running"}

LEMMA TypesSplit == TypeOK <=> RestTyped /\ job \in [Stages -> [Revs -> JobRecords]]
BY DEF TypeOK, RestTyped, JobRecords

LEMMA TypesSplitAfter == TypeOK' <=> RestTyped' /\ job' \in [Stages -> [Revs -> JobRecords]]
BY DEF TypeOK, RestTyped, JobRecords

LEMMA EndingTyped ==
  ASSUME NEW j \in JobRecords, NEW state \in JobStates, NEW code \in Codes
  PROVE  /\ Ending(j, state, code) \in JobRecords /\ Ending(j, state, code).state = state
         /\ SameCounts(j, Ending(j, state, code)) /\ Ending(j, state, code).parked = j.parked
BY DEF Ending, JobRecords, JobStates, SameCounts

LEMMA QueuedTyped ==
  ASSUME Bounds PROVE Queued \in JobRecords /\ Queued.state = "queued"
<1>1. 0 \in 0..MaxGen /\ 0 \in 0..MaxAttempts /\ 0 \in 0..MaxManualRetries /\ 0 \in 0..MaxResumes
      /\ 0 \in 0..Months /\ 0 \in 0..Revisions
  BY MaxGenIsNat DEF Bounds
<1> QED BY <1>1 DEF Queued, NoJob, JobRecords, Codes, Waiting

LEMMA JobSet ==
  ASSUME Bounds, StagesInv, NEW s \in Stages, NEW r \in Revs, NEW k \in JobRecords, SetJob(s, r, k)
  PROVE  /\ job' \in [Stages -> [Revs -> JobRecords]] /\ job'[s][r] = k
         /\ \A q \in Stages, p \in Revs : q # s \/ p # r => job'[q][p] = job[q][p]
<1>1. job \in [Stages -> [Revs -> JobRecords]]
  BY Typed DEF StagesInv
<1>2. job' = [job EXCEPT ![s] = [job[s] EXCEPT ![r] = k]]
  BY DEF SetJob
<1> QED BY <1>1, <1>2

(* A step that sets one job and leaves the piece as it was.                  *)
LEMMA OneJob ==
  ASSUME Bounds, StagesInv, NEW s \in Stages, NEW r \in Revs, NEW k \in JobRecords, SetJob(s, r, k),
         JobMove(s, r, job[s][r], k), UNCHANGED <<member, item, row, budget>>, RestTyped', OnlyTagsAsk',
         \A d \in derived' \ derived : d.cutout = d.rev
  PROVE  Outcome
<1>1. job' \in [Stages -> [Revs -> JobRecords]] /\ job'[s][r] = k
      /\ \A q \in Stages, p \in Revs : q # s \/ p # r => job'[q][p] = job[q][p]
  BY JobSet
<1>2. TypeOK'
  BY <1>1, TypesSplitAfter
<1>3. Restored' = Restored /\ budget'.month >= budget.month
  BY Typed DEF Restored, StagesInv
<1>4. \A q \in Stages, p \in Revs : JobMove(q, p, job[q][p], job'[q][p])
  <2> TAKE q \in Stages, p \in Revs
  <2>1. CASE q = s /\ p = r
    BY <1>1, <2>1
  <2>2. CASE q # s \/ p # r
    BY <1>1, <2>2 DEF JobMove
  <2> QED BY <2>1, <2>2
<1> QED BY <1>2, <1>3, <1>4 DEF Outcome, Step, Stays

(* A step that sets no job and leaves the piece as it was.                   *)
LEMMA NoJobSet ==
  ASSUME Bounds, StagesInv, UNCHANGED <<item, row, job, derived>>, Restored' = Restored,
         RestTyped', OnlyTagsAsk', budget'.month >= budget.month
  PROVE  Outcome
<1>1. TypeOK'
  BY TypesSplitAfter, Typed DEF StagesInv
<1>2. \A q \in Stages, p \in Revs : JobMove(q, p, job[q][p], job'[q][p])
  BY DEF JobMove
<1> QED BY <1>1, <1>2 DEF Outcome, Step, Stays

LEMMA SettledOutcome ==
  ASSUME Bounds, StagesInv, NEW s \in Stages, NEW r \in Revs,
         job[s][r].state \notin Ended \cup {"none"},
         NEW state \in {"failed", "canceled", "retry_wait", "queued"}, NEW code \in Codes,
         SetJob(s, r, Ending(job[s][r], state, code)),
         UNCHANGED <<member, item, row, budget, derived>>, RestTyped', OnlyTagsAsk'
  PROVE  Outcome
<1>1. job[s][r] \in JobRecords
  BY Typed DEF StagesInv
<1>2. state \in JobStates /\ state \notin {"none", "running", "succeeded", "blocked_budget"}
  BY DEF JobStates, Waiting, Ended
<1>3. PICK k : k = Ending(job[s][r], state, code)
  OBVIOUS
<1>4. k \in JobRecords /\ k.state = state /\ SameCounts(job[s][r], k)
  BY <1>1, <1>2, <1>3, EndingTyped
<1>5. Settles(s, r, job[s][r], k)
  BY <1>2, <1>4 DEF Settles
<1> QED BY <1>3, <1>4, <1>5, OneJob DEF JobMove

-----------------------------------------------------------------------------
(* The queue and the workers.                                                *)
LEMMA ClaimOutcome ==
  ASSUME Bounds, StagesInv, NEW s \in Stages, NEW r \in Revs, ClaimItemStage(s, r) PROVE Outcome
<1> DEFINE j == job[s][r]
<1>1. /\ j \in JobRecords /\ j.state = "queued" /\ j.attempts < MaxAttempts
      /\ RestTyped' /\ OnlyTagsAsk'
      /\ UNCHANGED <<member, item, row, budget, derived>>
  BY Typed, TypesSplit DEF StagesInv, ClaimItemStage, RestTyped, OnlyTagsAsk
<1>2. CASE ~ClaimedFor(r)
  <2>1. PICK code \in Codes : code = IF Current(r) THEN "none" ELSE "SUPERSEDED"
    BY DEF Codes
  <2> QED BY <1>1, <1>2, <2>1, SettledOutcome DEF ClaimItemStage, Ended
<1>3. CASE ClaimedFor(r) /\ (SourceOf(s) = 0 \/ MaskMissing(s, r))
  BY <1>1, <1>3, SettledOutcome DEF ClaimItemStage, Ended, Codes
<1>4. CASE ClaimedFor(r) /\ ~(SourceOf(s) = 0 \/ MaskMissing(s, r))
  <2>1. PICK k : k = [j EXCEPT !.state = "running", !.gen = j.gen + 1,
                              !.attempts = j.attempts + 1, !.source = SourceOf(s)]
    OBVIOUS
  <2>2. j.gen + 1 \in 0..MaxGen /\ j.attempts + 1 \in 0..MaxAttempts /\ SourceOf(s) \in 0..Revisions
    <3>1. SourceOf(s) \in 0..Revisions
      BY DEF StagesInv, TypeOK, SourceOf
    <3> QED BY <1>1, <3>1, AnotherGeneration DEF JobRecords, Bounds
  <2>3. k \in JobRecords
    BY <1>1, <2>1, <2>2 DEF JobRecords
  <2>4. Starts(s, r, j, k)
    BY <1>1, <1>4, <2>1 DEF Starts, ClaimedFor
  <2>5. SetJob(s, r, k)
    BY <1>4, <2>1 DEF ClaimItemStage
  <2> QED BY <1>1, <2>3, <2>4, <2>5, OneJob DEF JobMove
<1> QED BY <1>2, <1>3, <1>4

LEMMA QueueOutcome ==
  ASSUME Bounds, StagesInv, NEW s \in Stages, NEW r \in Revs, LoseAttempt(s, r) \/ RequeueDue(s, r)
  PROVE  Outcome
<1> DEFINE j == job[s][r]
<1>1. /\ j \in JobRecords /\ j.state \in {"running", "retry_wait"} /\ RestTyped' /\ OnlyTagsAsk'
      /\ UNCHANGED <<member, item, row, budget, derived>>
  BY Typed, TypesSplit DEF StagesInv, LoseAttempt, RequeueDue, RestTyped, OnlyTagsAsk
<1>2. CASE LoseAttempt(s, r)
  <2>1. PICK state \in {"failed", "retry_wait"} :
          state = IF j.attempts >= MaxAttempts THEN "failed" ELSE "retry_wait"
    OBVIOUS
  <2> QED BY <1>1, <1>2, <2>1, SettledOutcome DEF LoseAttempt, Ended, Codes
<1>3. CASE RequeueDue(s, r)
  <2>1. j.code \in Codes
    BY <1>1 DEF JobRecords
  <2> QED BY <1>1, <1>3, <2>1, SettledOutcome DEF RequeueDue, Ended
<1> QED BY <1>2, <1>3

LEMMA EndedOutcome ==
  ASSUME Bounds, StagesInv, NEW s \in Stages, NEW r \in Revs, Reject(s, r) \/ Supersede(s, r),
         UNCHANGED <<member, item, row, derived, budget, tagged, ai>>, runs' \subseteq runs
  PROVE  Outcome
<1>1. mask' \in [Revs -> {"none", "stored", "gone"}]
  BY TypesSplit DEF StagesInv, RestTyped, Reject, Supersede, UsedMask
<1>2. RestTyped' /\ OnlyTagsAsk'
  BY <1>1, TypesSplit DEF StagesInv, RestTyped, OnlyTagsAsk
<1> QED BY <1>2, SettledOutcome DEF Reject, Supersede, Ended, Codes

LEMMA EnqueueTyped ==
  ASSUME Bounds, NEW jobs \in [Stages -> [Revs -> JobRecords]], NEW S, NEW r \in Revs
  PROVE  /\ Enqueue(S, jobs, r) \in [Stages -> [Revs -> JobRecords]]
         /\ \A s \in Stages, p \in Revs :
              Enqueue(S, jobs, r)[s][p] =
                IF s \in S /\ p = r /\ jobs[s][r].state = "none" THEN Queued ELSE jobs[s][p]
BY QueuedTyped DEF Enqueue

LEMMA CutoutOutcome ==
  ASSUME Bounds, StagesInv, NEW r \in Revs, PublishCutout(r), UNCHANGED <<member, tagged, runs, ai, budget>>
  PROVE  Outcome
<1> DEFINE j == job["cutout"][r]
           e == Ending(j, "succeeded", "none")
           jobs == [job EXCEPT !["cutout"][r] = e]
<1>1. /\ "cutout" \in Stages /\ "cutout" \notin FromCutout /\ r = item.rev /\ item.life # "deleted"
      /\ j.state = "running" /\ j \in JobRecords
  BY Typed DEF StagesInv, PublishCutout, Applicable, Current, Bounds, FromCutout
<1>2. e \in JobRecords /\ e.state = "succeeded" /\ SameCounts(j, e)
  BY <1>1, EndingTyped DEF JobStates, Ended, Codes
<1>3. jobs \in [Stages -> [Revs -> JobRecords]] /\ jobs["cutout"][r] = e
      /\ \A s \in Stages, p \in Revs : s # "cutout" \/ p # r => jobs[s][p] = job[s][p]
  <2>1. job \in [Stages -> [Revs -> JobRecords]]
    BY Typed DEF StagesInv
  <2>2. jobs = [job EXCEPT !["cutout"] = [job["cutout"] EXCEPT ![r] = e]]
    OBVIOUS
  <2> QED BY <1>1, <1>2, <2>1, <2>2
<1>4. job' = Enqueue(FromCutout, jobs, r)
  BY <1>1 DEF PublishCutout
<1>5. PICK js \in [Stages -> [Revs -> JobRecords]] : js = jobs
  BY <1>3
<1>6. job' \in [Stages -> [Revs -> JobRecords]] /\ \A s \in Stages, p \in Revs :
        job'[s][p] = IF s \in FromCutout /\ p = r /\ js[s][r].state = "none" THEN Queued ELSE js[s][p]
  <2>1. job' = Enqueue(FromCutout, js, r)
    BY <1>4, <1>5
  <2>2. PICK after : after = Enqueue(FromCutout, js, r)
    OBVIOUS
  <2>3. after \in [Stages -> [Revs -> JobRecords]] /\ \A s \in Stages, p \in Revs :
          after[s][p] = IF s \in FromCutout /\ p = r /\ js[s][r].state = "none" THEN Queued ELSE js[s][p]
    BY <2>2, EnqueueTyped
  <2> QED BY <2>1, <2>2, <2>3
<1>7. item' = [item EXCEPT !.shown = r, !.cutFrom = j.source] /\ j.source \in 0..Revisions
  BY <1>1 DEF PublishCutout, JobRecords
<1>8. item'.life = item.life /\ item'.rev = r /\ item'.original = item.original
      /\ item'.shown = r /\ item'.cutFrom = j.source
  BY <1>1, <1>7 DEF StagesInv, TypeOK
<1>9. row' \in [Stages -> 0..Revisions] /\ row'["cutout"] = row["cutout"]
  BY <1>1 DEF PublishCutout, Point, StagesInv, TypeOK, Revs
<1>10. mask' \in [Revs -> {"none", "stored", "gone"}] /\ derived' = derived
  BY TypesSplit DEF StagesInv, RestTyped, PublishCutout, UsedMask
<1>11. item' \in [life : {"active", "deleted"}, rev : Revs, original : 0..Revisions,
                  shown : 0..Revisions, cutFrom : 0..Revisions]
  <2>1. r \in 0..Revisions
    BY DEF Revs, Bounds
  <2>2. item \in [life : {"active", "deleted"}, rev : Revs, original : 0..Revisions,
                  shown : 0..Revisions, cutFrom : 0..Revisions]
    BY DEF StagesInv, TypeOK
  <2> QED BY <1>7, <2>1, <2>2
<1>12. RestTyped' /\ OnlyTagsAsk'
  BY <1>9, <1>10, <1>11, TypesSplit DEF StagesInv, RestTyped, OnlyTagsAsk
<1>13. \A s \in Stages, p \in Revs : JobMove(s, p, job[s][p], job'[s][p])
  <2> TAKE s \in Stages, p \in Revs
  <2>1. CASE s = "cutout" /\ p = r
    <3>1. job'[s][p] = e
      BY <1>1, <1>3, <1>5, <1>6, <2>1
    <3>2. Settles(s, p, j, e)
      BY <1>1, <1>2, <1>8, <2>1 DEF Settles, Current, Ended
    <3> QED BY <2>1, <3>1, <3>2 DEF JobMove
  <2>2. CASE s # "cutout" \/ p # r
    <3>1. js[s][p] = job[s][p]
      BY <1>3, <1>5, <2>2
    <3>2. CASE s \in FromCutout /\ p = r /\ js[s][r].state = "none"
      <4>1. Queues(s, p, job[s][p], job'[s][p])
        BY <1>1, <1>6, <1>8, <3>1, <3>2 DEF Queues
      <4> QED BY <4>1 DEF JobMove
    <3>3. CASE ~(s \in FromCutout /\ p = r /\ js[s][r].state = "none")
      BY <1>6, <3>1, <3>3 DEF JobMove
    <3> QED BY <3>2, <3>3
  <2> QED BY <2>1, <2>2
<1>14. job'["cutout"][r] = e
  BY <1>1, <1>3, <1>5, <1>6
<1>15. Shows
  BY <1>1, <1>2, <1>8, <1>9, <1>14 DEF Shows
<1>16. Restored' = Restored /\ budget'.month >= budget.month
  BY Typed DEF Restored, StagesInv
<1> QED BY <1>6, <1>10, <1>12, <1>13, <1>15, <1>16, TypesSplitAfter DEF Outcome, Step

LEMMA DerivedOutcome ==
  ASSUME Bounds, StagesInv, NEW s \in Stages, NEW r \in Revs, PublishDerived(s, r),
         UNCHANGED <<member, tagged, runs, ai, budget>>
  PROVE  Outcome
<1> DEFINE j == job[s][r]
<1>1. /\ j \in JobRecords /\ j.state = "running" /\ s \in FromCutout /\ s # "cutout" /\ Current(r)
      /\ UNCHANGED <<item, row, mask>> /\ j.source = r
  BY Typed DEF StagesInv, Sources, ReadsItsCutout, PublishDerived, Applicable, FromCutout
<1>2. PICK k : k = Ending(j, "succeeded", "none")
  OBVIOUS
<1>3. k \in JobRecords /\ k.state = "succeeded" /\ SameCounts(j, k)
  BY <1>1, <1>2, EndingTyped DEF JobStates, Ended, Codes
<1>4. Settles(s, r, j, k) /\ SetJob(s, r, k)
  BY <1>1, <1>2, <1>3 DEF Settles, PublishDerived, Ended
<1>5. RestTyped' /\ OnlyTagsAsk' /\ \A d \in derived' \ derived : d.cutout = d.rev
  BY <1>1, TypesSplit DEF StagesInv, RestTyped, OnlyTagsAsk, PublishDerived
<1> QED BY <1>1, <1>3, <1>4, <1>5, OneJob DEF JobMove

LEMMA CompleteOutcome ==
  ASSUME Bounds, StagesInv, NEW s \in Stages, NEW r \in Revs, CompleteItemStage(s, r) PROVE Outcome
BY CutoutOutcome, DerivedOutcome, EndedOutcome DEF CompleteItemStage

-----------------------------------------------------------------------------
(* The Edge's AI runs.                                                       *)
LEMMA RunTyped ==
  ASSUME Bounds, StagesInv, NEW u \in runs
  PROVE  u \in AiRuns /\ u.rev \in Revs /\ u.key \in Keys /\ "tags" \in Stages
BY DEF StagesInv, TypeOK, AiRuns, OnlyTagsAsk

LEMMA AskOutcome ==
  ASSUME Bounds, StagesInv, "tags" \in Stages, NEW r \in Revs, AskAi(r) PROVE Outcome
<1> DEFINE j == job["tags"][r]
<1>1. j \in JobRecords /\ j.gen \in 1..MaxGen
  <2>1. j \in JobRecords /\ j.gen # 0
    BY Typed DEF StagesInv, Counts, Counted, AskAi
  <2> QED BY <2>1, MaxGenIsNat DEF JobRecords
<1>2. AttemptKey(r) \in Keys
  BY <1>1 DEF AttemptKey, Keys, JobRecords
<1>3. [rev |-> r, gen |-> j.gen, key |-> AttemptKey(r), at |-> "asked"] \in AiRuns
  BY <1>1, <1>2 DEF AiRuns
<1>4. runs' \subseteq AiRuns
  BY <1>3, TypesSplit DEF AskAi, StagesInv, RestTyped
<1>5. RestTyped' /\ OnlyTagsAsk'
  BY <1>4, TypesSplit DEF AskAi, StagesInv, RestTyped, OnlyTagsAsk
<1> QED BY <1>5, NoJobSet, Typed DEF AskAi, Restored, StagesInv

LEMMA MovedTyped ==
  ASSUME Bounds, StagesInv, NEW u \in runs,
         NEW at \in {"asked", "refused", "calling", "answered", "lost"}, Moved(u, at)
  PROVE  runs' \subseteq AiRuns /\ OnlyTagsAsk'
<1>1. [u EXCEPT !.at = at] \in AiRuns
  BY RunTyped DEF AiRuns
<1> QED BY <1>1, RunTyped DEF Moved, StagesInv, TypeOK, OnlyTagsAsk

LEMMA ReserveOutcome ==
  ASSUME Bounds, StagesInv, NEW u \in runs, ReserveRun(u) \/ ProviderAnswers(u) \/ DropRun(u)
  PROVE  Outcome
<1>1. runs' \subseteq AiRuns /\ OnlyTagsAsk'
  <2>1. CASE DropRun(u)
    BY <2>1, TypesSplit DEF DropRun, StagesInv, RestTyped, OnlyTagsAsk
  <2>2. CASE ~DropRun(u)
    <3>1. PICK at \in {"refused", "calling", "answered", "lost"} : Moved(u, at)
      BY <2>2 DEF ReserveRun, ProviderAnswers
    <3> QED BY <3>1, MovedTyped
  <2> QED BY <2>1, <2>2
<1>2. ai' \in [Keys -> [state : {"none", "refused", "sent"}, month : 0..Months]]
  <2>1. budget.month \in 0..Months /\ u.key \in Keys
    <3>1. budget.month \in 1..Months
      BY DEF StagesInv, TypeOK
    <3> QED BY <3>1, RunTyped DEF Bounds
  <2> QED BY <2>1, TypesSplit DEF StagesInv, RestTyped, ReserveRun, ProviderAnswers, DropRun, Recorded
<1>3. UNCHANGED <<member, item, row, job, mask, derived, tagged, budget>>
  BY DEF ReserveRun, ProviderAnswers, DropRun
<1>4. RestTyped'
  BY <1>1, <1>2, <1>3, TypesSplit DEF StagesInv, RestTyped
<1> QED BY <1>1, <1>3, <1>4, NoJobSet, Typed DEF Restored, StagesInv

LEMMA FinishOutcome ==
  ASSUME Bounds, StagesInv, NEW u \in runs, FinishRun(u) PROVE Outcome
<1> DEFINE j == job["tags"][u.rev]
<1>1. /\ u.rev \in Revs /\ "tags" \in Stages /\ j \in JobRecords /\ j.state = "running"
      /\ UNCHANGED <<member, item, row, derived, ai, budget>> /\ runs' \subseteq runs
  BY RunTyped, Typed DEF FinishRun, ApplyTags, BlockItemStage, HoldsLease, StagesInv
<1>2. CASE ApplyTags(u)
  <2>1. PICK k : k = Ending(j, "succeeded", "none")
    OBVIOUS
  <2>2. k \in JobRecords /\ k.state = "succeeded" /\ SameCounts(j, k)
    BY <1>1, <2>1, EndingTyped DEF JobStates, Ended, Codes
  <2>3. Settles("tags", u.rev, j, k) /\ SetJob("tags", u.rev, k)
    BY <1>1, <1>2, <2>1, <2>2 DEF Settles, ApplyTags, Applicable, Ended
  <2>4. RestTyped' /\ OnlyTagsAsk'
    BY <1>1, <1>2, TypesSplit DEF StagesInv, RestTyped, OnlyTagsAsk, ApplyTags
  <2> QED BY <1>1, <2>2, <2>3, <2>4, OneJob DEF JobMove
<1>3. CASE BlockItemStage(u)
  <2>1. PICK e : e = Ending(j, "blocked_budget", "AI_BUDGET_PAUSED")
    OBVIOUS
  <2>2. PICK k : k = [e EXCEPT !.parked = budget.month]
    OBVIOUS
  <2>3. e \in JobRecords /\ e.state = "blocked_budget" /\ SameCounts(j, e)
    BY <1>1, <2>1, EndingTyped DEF JobStates, Waiting, Codes
  <2>4. budget.month \in 0..Months
    <3>1. budget.month \in 1..Months
      BY DEF StagesInv, TypeOK
    <3> QED BY <3>1 DEF Bounds
  <2>5. k \in JobRecords /\ k.state = "blocked_budget" /\ SameCounts(j, k) /\ k.parked = budget.month
    BY <2>2, <2>3, <2>4 DEF JobRecords, SameCounts
  <2>6. Settles("tags", u.rev, j, k) /\ SetJob("tags", u.rev, k)
    BY <1>1, <1>3, <2>1, <2>2, <2>5 DEF Settles, BlockItemStage, Ended
  <2>7. RestTyped' /\ OnlyTagsAsk'
    BY <1>1, <1>3, TypesSplit DEF StagesInv, RestTyped, OnlyTagsAsk, BlockItemStage
  <2> QED BY <1>1, <2>5, <2>6, <2>7, OneJob DEF JobMove
<1>4. CASE (Reject("tags", u.rev) \/ Supersede("tags", u.rev)) /\ tagged' = tagged
  BY <1>1, <1>4, EndedOutcome
<1> QED BY <1>2, <1>3, <1>4 DEF FinishRun

-----------------------------------------------------------------------------
(* The member, and what happens to the membership and the budget.            *)
LEMMA AdvanceOutcome ==
  ASSUME Bounds, StagesInv, NEW S \in SUBSET {"cutout", "tags"}, "cutout" \in S, Advance(S),
         NEW original \in {item.original, item.rev + 1},
         item' = [item EXCEPT !.rev = item.rev + 1, !.original = original],
         mask' \in [Revs -> {"none", "stored", "gone"}]
  PROVE  Outcome
<1> DEFINE next == item.rev + 1
<1>1. /\ next \in Revs /\ next \in 0..Revisions /\ next > item.rev /\ item.life # "deleted"
      /\ S \cap FromCutout = {} /\ "cutout" \in Stages /\ item.rev \in Nat
  <2>1. item.rev \in Revs
    BY Typed DEF StagesInv
  <2> QED BY <2>1 DEF Advance, Revs, Bounds, FromCutout
<1>2. item \in [life : {"active", "deleted"}, rev : Revs, original : 0..Revisions,
               shown : 0..Revisions, cutFrom : 0..Revisions]
  BY DEF StagesInv, TypeOK
<1>3. /\ item' \in [life : {"active", "deleted"}, rev : Revs, original : 0..Revisions,
                    shown : 0..Revisions, cutFrom : 0..Revisions]
      /\ item'.life = item.life /\ item'.rev = next
  BY <1>1, <1>2
<1>4. PICK js : js = Superseded
  OBVIOUS
<1>5. /\ js \in [Stages -> [Revs -> JobRecords]]
      /\ \A s \in Stages, r \in Revs :
           js[s][r] = job[s][r] \/ (Settles(s, r, job[s][r], js[s][r]) /\ r # next)
  <2>1. \A s \in Stages, r \in Revs :
          Ending(job[s][r], "canceled", "SUPERSEDED") \in JobRecords /\ job[s][r] \in JobRecords
    BY Typed, EndingTyped DEF StagesInv, JobStates, Ended, Codes
  <2>2. js \in [Stages -> [Revs -> JobRecords]]
    BY <1>4, <2>1 DEF Superseded
  <2>3. ASSUME NEW s \in Stages, NEW r \in Revs, js[s][r] # job[s][r]
        PROVE  Settles(s, r, job[s][r], js[s][r]) /\ r # next
    <3>1. /\ js[s][r] = Ending(job[s][r], "canceled", "SUPERSEDED")
          /\ r <= item.rev /\ job[s][r].state \in Waiting
      BY <1>4, <2>3 DEF Superseded
    <3>2. Settles(s, r, job[s][r], js[s][r])
      BY <3>1, <2>1, EndingTyped DEF Settles, JobStates, Ended, Waiting, Codes
    <3> QED BY <1>1, <3>1, <3>2, Typed DEF StagesInv
  <2> QED BY <2>2, <2>3
<1>6. /\ job' \in [Stages -> [Revs -> JobRecords]]
      /\ \A s \in Stages, r \in Revs :
           job'[s][r] = IF s \in S /\ r = next /\ js[s][next].state = "none" THEN Queued ELSE js[s][r]
  <2>1. PICK after : after = Enqueue(S, js, next)
    OBVIOUS
  <2>2. /\ after \in [Stages -> [Revs -> JobRecords]]
        /\ \A s \in Stages, r \in Revs :
             after[s][r] = IF s \in S /\ r = next /\ js[s][next].state = "none" THEN Queued ELSE js[s][r]
    BY <1>1, <1>5, <2>1, EnqueueTyped
  <2> QED BY <1>4, <2>1, <2>2 DEF Advance
<1>7. \A s \in Stages, r \in Revs : JobMove(s, r, job[s][r], job'[s][r])
  <2> TAKE s \in Stages, r \in Revs
  <2>1. CASE s \in S /\ r = next /\ js[s][next].state = "none"
    <3>1. js[s][r] = job[s][r] /\ job'[s][r] = Queued
      BY <1>5, <1>6, <2>1
    <3>2. Queues(s, r, job[s][r], job'[s][r])
      BY <1>1, <1>3, <2>1, <3>1 DEF Queues
    <3> QED BY <3>2 DEF JobMove
  <2>2. CASE ~(s \in S /\ r = next /\ js[s][next].state = "none")
    BY <1>5, <1>6, <2>2 DEF JobMove
  <2> QED BY <2>1, <2>2
<1>8. row' \in [Stages -> 0..Revisions] /\ row'["cutout"] = next
  BY <1>1 DEF Advance, Point, StagesInv, TypeOK
<1>9. Advances
  BY <1>1, <1>3, <1>8 DEF Advances, Advance
<1>10. RestTyped' /\ OnlyTagsAsk' /\ UNCHANGED <<member, derived, budget>>
  BY <1>3, <1>8, TypesSplit DEF Advance, StagesInv, RestTyped, OnlyTagsAsk
<1>11. Restored' = Restored /\ budget'.month >= budget.month
  BY <1>10, Typed DEF Restored, StagesInv
<1> QED BY <1>6, <1>7, <1>9, <1>10, <1>11, TypesSplitAfter DEF Outcome, Step

LEMMA PhotoOutcome ==
  ASSUME Bounds, StagesInv, ReplaceItemPhoto \/ SubmitMask \/ RecutItem PROVE Outcome
<1>1. item.rev \in Revs /\ mask \in [Revs -> {"none", "stored", "gone"}]
  BY DEF StagesInv, TypeOK
<1>2. mask' \in [Revs -> {"none", "stored", "gone"}]
  BY <1>1 DEF ReplaceItemPhoto, SubmitMask, RecutItem
<1>3. CASE ReplaceItemPhoto
  BY <1>2, <1>3, AdvanceOutcome DEF ReplaceItemPhoto
<1>4. CASE SubmitMask \/ RecutItem
  <2>1. item' = [item EXCEPT !.rev = item.rev + 1, !.original = item.original]
    BY <1>4 DEF SubmitMask, RecutItem, StagesInv, TypeOK
  <2>2. Advance({"cutout"})
    BY <1>4 DEF SubmitMask, RecutItem
  <2> QED BY <1>2, <2>1, <2>2, AdvanceOutcome
<1> QED BY <1>3, <1>4

(* A step on many jobs that leaves the piece as it was.                      *)
LEMMA ManyJobs ==
  ASSUME Bounds, StagesInv, UNCHANGED <<item, row, derived, budget>>, RestTyped', OnlyTagsAsk',
         Restored' \in {Restored, Restored + 1}, job' \in [Stages -> [Revs -> JobRecords]],
         \A s \in Stages, r \in Revs : JobMove(s, r, job[s][r], job'[s][r])
  PROVE  Outcome
BY TypesSplitAfter, Typed DEF Outcome, Step, Stays, StagesInv

LEMMA ExpireOutcome ==
  ASSUME Bounds, StagesInv, NEW r \in Revs, ExpireMask(r) PROVE Outcome
<1>1. RestTyped' /\ OnlyTagsAsk'
  BY TypesSplit DEF ExpireMask, StagesInv, RestTyped, OnlyTagsAsk
<1> QED BY <1>1, NoJobSet, Typed DEF ExpireMask, Restored, StagesInv

(* A job that is canceled has settled.                                       *)
LEMMA CanceledSettles ==
  ASSUME Bounds, StagesInv, NEW s \in Stages, NEW r \in Revs, NEW code \in Codes, NEW k,
         job[s][r].state # "none", k = Ending(job[s][r], "canceled", code)
  PROVE  k \in JobRecords /\ k.state = "canceled" /\ Settles(s, r, job[s][r], k)
<1>1. job[s][r] \in JobRecords
  BY Typed DEF StagesInv
<1>2. k \in JobRecords /\ k.state = "canceled" /\ SameCounts(job[s][r], k)
  BY <1>1, EndingTyped DEF JobStates, Ended
<1> QED BY <1>2 DEF Settles, Ended

LEMMA DiscardOutcome ==
  ASSUME Bounds, StagesInv, DiscardItem PROVE Outcome
<1>1. \A s \in Stages, r \in Revs :
        /\ Discarded(job[s][r]) \in JobRecords
        /\ Discarded(job[s][r]).state \in Ended \cup {"none"}
        /\ JobMove(s, r, job[s][r], Discarded(job[s][r]))
  <2> TAKE s \in Stages, r \in Revs
  <2>1. job[s][r] \in JobRecords
    BY Typed DEF StagesInv
  <2>2. CASE job[s][r].state \in Waiting \cup {"running"}
    <3>1. PICK k : k = Ending(job[s][r], "canceled", "SUPERSEDED")
      OBVIOUS
    <3>2. Discarded(job[s][r]) = k
      BY <2>2, <3>1 DEF Discarded
    <3>3. k \in JobRecords /\ k.state = "canceled" /\ Settles(s, r, job[s][r], k)
      BY <2>2, <3>1, CanceledSettles DEF Codes, Waiting
    <3> QED BY <3>2, <3>3 DEF JobMove, Ended
  <2>3. CASE job[s][r].state \notin Waiting \cup {"running"}
    BY <2>1, <2>3 DEF Discarded, JobMove, JobRecords
  <2> QED BY <2>2, <2>3
<1>2. /\ job' \in [Stages -> [Revs -> JobRecords]]
      /\ \A s \in Stages, r \in Revs : job'[s][r] = Discarded(job[s][r])
  BY <1>1 DEF DiscardItem
<1>3. /\ item'.life = "deleted" /\ item'.rev = item.rev
      /\ item' \in [life : {"active", "deleted"}, rev : Revs, original : 0..Revisions,
                    shown : 0..Revisions, cutFrom : 0..Revisions]
  <2>1. 0 \in 0..Revisions
    BY DEF Bounds
  <2>2. item \in [life : {"active", "deleted"}, rev : Revs, original : 0..Revisions,
                  shown : 0..Revisions, cutFrom : 0..Revisions]
    BY DEF StagesInv, TypeOK
  <2> QED BY <2>1, <2>2 DEF DiscardItem
<1>4. Deletes
  BY <1>1, <1>2, <1>3 DEF Deletes, DiscardItem
<1>5. RestTyped' /\ OnlyTagsAsk' /\ derived' = {} /\ UNCHANGED <<member, budget>>
  BY <1>3, TypesSplit DEF DiscardItem, StagesInv, RestTyped, OnlyTagsAsk
<1>6. Restored' = Restored /\ budget'.month >= budget.month
  BY <1>5, Typed DEF Restored, StagesInv
<1> QED BY <1>1, <1>2, <1>4, <1>5, <1>6, TypesSplitAfter DEF Outcome, Step

(* A job that starts over keeps its generation and what it has read.         *)
LEMMA RequeuedTyped ==
  ASSUME Bounds, NEW j \in JobRecords
  PROVE  /\ Requeued(j) \in JobRecords /\ Requeued(j).state = "queued" /\ Requeued(j).gen = j.gen
         /\ Requeued(j).attempts = 0 /\ Requeued(j).manual = j.manual
         /\ Requeued(j).resumes = j.resumes /\ Requeued(j).source = j.source
<1>1. 0 \in 0..MaxAttempts /\ "queued" \in JobStates
  BY DEF Bounds, JobStates, Waiting
<1>2. Requeued(j) = [[j EXCEPT !.state = "queued"] EXCEPT !.attempts = 0]
  BY DEF Requeued
<1> QED BY <1>1, <1>2 DEF JobRecords, JobStates

LEMMA RetryOutcome ==
  ASSUME Bounds, StagesInv, NEW s \in Stages, RetryItemStage(s) PROVE Outcome
<1> DEFINE r == row[s]
           j == job[s][r]
<1>1. r \in Revs
  BY DEF RetryItemStage, CanRetry, StagesInv, TypeOK, Revs, Bounds
<1>2. /\ j \in JobRecords /\ j.state \in {"failed", "canceled"} /\ j.manual < MaxManualRetries
      /\ item.life # "deleted" /\ UNCHANGED <<member, item, row, derived, budget>>
  BY <1>1, Typed DEF RetryItemStage, CanRetry, StagesInv
<1>3. PICK e : e = [Requeued(j) EXCEPT !.manual = j.manual + 1]
  OBVIOUS
<1>4. j.manual + 1 \in 0..MaxManualRetries
  BY <1>2 DEF JobRecords, Bounds
<1>5. /\ e \in JobRecords /\ e.gen = j.gen /\ e.attempts = 0 /\ e.manual = j.manual + 1
      /\ e.resumes = j.resumes /\ e.source = j.source
  BY <1>2, <1>3, <1>4, RequeuedTyped DEF JobRecords
<1>6. PICK k : k = Ending(e, "queued", "none")
  OBVIOUS
<1>7. k \in JobRecords /\ k.state = "queued" /\ SameCounts(e, k)
  BY <1>5, <1>6, EndingTyped DEF JobStates, Waiting, Codes
<1>8. Repeats(j, k)
  BY <1>2, <1>5, <1>7 DEF Repeats, SameCounts
<1>9. SetJob(s, r, k)
  BY <1>3, <1>6 DEF RetryItemStage
<1>10. RestTyped' /\ OnlyTagsAsk'
  BY TypesSplit DEF RetryItemStage, StagesInv, RestTyped, OnlyTagsAsk
<1> QED BY <1>1, <1>2, <1>7, <1>8, <1>9, <1>10, OneJob DEF JobMove

LEMMA ResumeOutcome ==
  ASSUME Bounds, StagesInv, ResumeBlockedStages PROVE Outcome
<1> DEFINE resumed(r) == [Ending(Requeued(job["tags"][r]), "queued", "none")
                            EXCEPT !.resumes = job["tags"][r].resumes + 1]
<1>1. "tags" \in Stages
  BY DEF ResumeBlockedStages, Resumable
<1>2. \A r \in Revs : Resumable(r) =>
        resumed(r) \in JobRecords /\ Repeats(job["tags"][r], resumed(r))
  <2> SUFFICES ASSUME NEW r \in Revs, Resumable(r)
               PROVE  resumed(r) \in JobRecords /\ Repeats(job["tags"][r], resumed(r))
    OBVIOUS
  <2> DEFINE j == job["tags"][r]
  <2>1. /\ j \in JobRecords /\ j.state = "blocked_budget" /\ j.parked < budget.month
        /\ item.life # "deleted" /\ j.resumes < j.parked
    BY <1>1, Typed DEF StagesInv, Resumable, Current, Counts, Counted, Paced
  <2>2. j.resumes + 1 \in 0..MaxResumes
    <3>1. budget.month \in 1..Months /\ j.parked \in 0..Months /\ j.resumes \in 0..MaxResumes
      BY <2>1 DEF StagesInv, TypeOK, JobRecords
    <3> QED BY <2>1, <3>1 DEF Bounds, MaxResumes
  <2>3. PICK q : q = Requeued(j)
    OBVIOUS
  <2>4. /\ q \in JobRecords /\ q.gen = j.gen /\ q.attempts = 0 /\ q.manual = j.manual
        /\ q.source = j.source
    BY <2>1, <2>3, RequeuedTyped
  <2>5. PICK e : e = Ending(q, "queued", "none")
    OBVIOUS
  <2>6. e \in JobRecords /\ e.state = "queued" /\ SameCounts(q, e)
    BY <2>4, <2>5, EndingTyped DEF JobStates, Waiting, Codes
  <2>7. PICK k : k = [e EXCEPT !.resumes = j.resumes + 1]
    OBVIOUS
  <2>8. /\ k \in JobRecords /\ k.state = "queued" /\ k.gen = j.gen /\ k.attempts = 0
        /\ k.manual = j.manual /\ k.source = j.source /\ k.resumes = j.resumes + 1
    BY <2>2, <2>4, <2>6, <2>7 DEF JobRecords, SameCounts
  <2>9. Repeats(j, k)
    BY <2>1, <2>8 DEF Repeats
  <2>10. resumed(r) = k
    BY <2>3, <2>5, <2>7
  <2> QED BY <2>8, <2>9, <2>10
<1>3. \A s \in Stages, r \in Revs : job[s][r] \in JobRecords
  BY Typed DEF StagesInv
<1>4. job \in [Stages -> [Revs -> JobRecords]]
  BY Typed DEF StagesInv
<1>5. PICK tags : tags = [r \in Revs |-> IF Resumable(r) THEN resumed(r) ELSE job["tags"][r]]
  OBVIOUS
<1>6. /\ tags \in [Revs -> JobRecords]
      /\ \A r \in Revs : tags[r] = job["tags"][r] \/ Repeats(job["tags"][r], tags[r])
  <2> HIDE DEF resumed
  <2> QED BY <1>1, <1>2, <1>3, <1>5
<1>7. job' = [job EXCEPT !["tags"] = tags]
  BY <1>5 DEF ResumeBlockedStages
<1>8. /\ job' \in [Stages -> [Revs -> JobRecords]]
      /\ \A s \in Stages, r \in Revs : JobMove(s, r, job[s][r], job'[s][r])
  BY <1>1, <1>4, <1>6, <1>7 DEF JobMove
<1>9. RestTyped' /\ OnlyTagsAsk' /\ Restored' = Restored /\ UNCHANGED <<item, row, derived, budget>>
  BY TypesSplit DEF ResumeBlockedStages, StagesInv, RestTyped, OnlyTagsAsk, Restored
<1> QED BY <1>8, <1>9, ManyJobs

LEMMA SuspendOutcome ==
  ASSUME Bounds, StagesInv, SuspendMember PROVE Outcome
<1>1. \A s \in Stages, r \in Revs :
        job'[s][r] \in JobRecords /\ JobMove(s, r, job[s][r], job'[s][r])
  <2> TAKE s \in Stages, r \in Revs
  <2>1. job[s][r] \in JobRecords /\ job[s][r].code \in Codes
    BY Typed DEF StagesInv, JobRecords
  <2>2. CASE job[s][r].state \in {"queued", "running", "retry_wait"}
    <3>1. job'[s][r] = Ending(job[s][r], "canceled", job[s][r].code)
      BY <2>2 DEF SuspendMember
    <3> QED BY <2>1, <2>2, <3>1, CanceledSettles DEF JobMove
  <2>3. CASE job[s][r].state \notin {"queued", "running", "retry_wait"}
    BY <2>1, <2>3 DEF SuspendMember, JobMove
  <2> QED BY <2>2, <2>3
<1>2. job' \in [Stages -> [Revs -> JobRecords]]
  BY <1>1 DEF SuspendMember
<1>3. /\ member' \in [active : BOOLEAN, suspensions : 0..MaxRestores] /\ Restored' = Restored
      /\ UNCHANGED <<item, row, derived, budget>>
  <2>1. member \in [active : BOOLEAN, suspensions : 0..MaxRestores] /\ MaxRestores \in Nat
    BY DEF StagesInv, TypeOK, Bounds
  <2>2. /\ member.active = TRUE /\ member.suspensions + 1 \in 0..MaxRestores
        /\ member' = [active |-> FALSE, suspensions |-> member.suspensions + 1]
    BY <2>1 DEF SuspendMember
  <2>3. /\ member' \in [active : BOOLEAN, suspensions : 0..MaxRestores]
        /\ member'.active = FALSE /\ member'.suspensions = member.suspensions + 1
    BY <2>2
  <2>4. Restored' = Restored
    BY <2>1, <2>2, <2>3 DEF Restored
  <2> QED BY <2>3, <2>4 DEF SuspendMember
<1>4. RestTyped' /\ OnlyTagsAsk'
  BY <1>3, TypesSplit DEF SuspendMember, StagesInv, RestTyped, OnlyTagsAsk
<1> QED BY <1>1, <1>2, <1>3, <1>4, ManyJobs

LEMMA RestoreOutcome ==
  ASSUME Bounds, StagesInv, RestoreMember PROVE Outcome
<1>1. Restored' = Restored + 1 /\ member' \in [active : BOOLEAN, suspensions : 0..MaxRestores]
      /\ UNCHANGED <<item, row, derived, budget>>
  <2>1. member \in [active : BOOLEAN, suspensions : 0..MaxRestores]
    BY DEF StagesInv, TypeOK
  <2>2. member' = [member EXCEPT !.active = TRUE] /\ member.active = FALSE
    BY <2>1 DEF RestoreMember
  <2>3. /\ member' \in [active : BOOLEAN, suspensions : 0..MaxRestores]
        /\ member'.active = TRUE /\ member'.suspensions = member.suspensions
    BY <2>1, <2>2
  <2>4. Restored = member.suspensions - 1 /\ Restored' = member.suspensions
        /\ member.suspensions \in 0..MaxRestores
    BY <2>1, <2>2, <2>3 DEF Restored, Bounds
  <2> QED BY <2>3, <2>4 DEF RestoreMember, Bounds
<1>2. \A s \in Stages, r \in Revs :
        job'[s][r] \in JobRecords /\ JobMove(s, r, job[s][r], job'[s][r])
  <2> TAKE s \in Stages, r \in Revs
  <2>1. job[s][r] \in JobRecords
    BY Typed DEF StagesInv
  <2>2. CASE Restorable(job[s][r], r)
    <3>1. PICK k : k = Requeued(job[s][r])
      OBVIOUS
    <3>2. k \in JobRecords /\ Repeats(job[s][r], k)
      BY <1>1, <2>1, <2>2, <3>1, RequeuedTyped DEF Repeats, Restorable, Current
    <3> QED BY <2>2, <3>1, <3>2 DEF RestoreMember, JobMove
  <2>3. CASE ~Restorable(job[s][r], r)
    BY <2>1, <2>3 DEF RestoreMember, JobMove
  <2> QED BY <2>2, <2>3
<1>3. job' \in [Stages -> [Revs -> JobRecords]]
  BY <1>2 DEF RestoreMember
<1>4. RestTyped' /\ OnlyTagsAsk'
  BY <1>1, TypesSplit DEF RestoreMember, StagesInv, RestTyped, OnlyTagsAsk
<1> QED BY <1>1, <1>2, <1>3, <1>4, ManyJobs

LEMMA BudgetOutcome ==
  ASSUME Bounds, StagesInv, ChangeBudget \/ StartMonth PROVE Outcome
<1> DEFINE B == [month : 1..Months, paused : BOOLEAN]
<1>1. budget' \in B /\ budget'.month >= budget.month
  <2>1. budget \in B
    BY DEF StagesInv, TypeOK
  <2>2. budget.month \in 1..Months /\ Months \in Nat
    BY <2>1 DEF Bounds
  <2>3. CASE ChangeBudget
    <3>1. PICK paused \in BOOLEAN : budget' = [budget EXCEPT !.paused = paused]
      <4>1. (~budget.paused) \in BOOLEAN
        OBVIOUS
      <4> QED BY <2>3, <4>1 DEF ChangeBudget
    <3>2. budget' \in B /\ budget'.month = budget.month
      BY <2>1, <3>1
    <3> QED BY <2>2, <3>2
  <2>4. CASE StartMonth
    <3>1. PICK paused \in BOOLEAN :
            budget' = [month |-> budget.month + 1, paused |-> paused] /\ budget.month < Months
      BY <2>4 DEF StartMonth
    <3>2. budget.month + 1 \in 1..Months
      BY <2>2, <3>1
    <3>3. budget' \in B /\ budget'.month = budget.month + 1
      BY <3>1, <3>2
    <3> QED BY <2>2, <3>3
  <2> QED BY <2>3, <2>4
<1>2. UNCHANGED <<member, item, row, job, mask, derived, tagged, runs, ai>>
  BY DEF ChangeBudget, StartMonth
<1>3. RestTyped' /\ OnlyTagsAsk' /\ Restored' = Restored
  BY <1>1, <1>2, TypesSplit DEF StagesInv, RestTyped, OnlyTagsAsk, Restored
<1> QED BY <1>1, <1>2, <1>3, NoJobSet

-----------------------------------------------------------------------------
LEMMA InitStages == ASSUME Bounds, Init PROVE StagesInv
<1>1. 1 \in Revs /\ 1 \in 0..Revisions /\ 0 \in 0..Revisions /\ 0 \in 0..Months /\ 1 \in 1..Months
      /\ 0 \in 0..MaxRestores
  BY DEF Bounds, Revs
<1>2. Queued \in JobRecords /\ NoJob \in JobRecords
  <2>1. 0 \in 0..MaxGen /\ 0 \in 0..MaxAttempts /\ 0 \in 0..MaxManualRetries /\ 0 \in 0..MaxResumes
    BY MaxGenIsNat DEF Bounds
  <2> QED BY <1>1, <2>1, QueuedTyped DEF NoJob, JobRecords, Codes
<1>3. /\ job \in [Stages -> [Revs -> JobRecords]]
      /\ \A s \in Stages, r \in Revs :
           job[s][r] = IF s \notin FromCutout /\ r = 1 THEN Queued ELSE NoJob
  BY <1>2 DEF Init
<1>4. RestTyped
  <2>1. /\ item \in [life : {"active", "deleted"}, rev : Revs, original : 0..Revisions,
                     shown : 0..Revisions, cutFrom : 0..Revisions]
        /\ row \in [Stages -> 0..Revisions]
        /\ member \in [active : BOOLEAN, suspensions : 0..MaxRestores]
    BY <1>1 DEF Init
  <2>2. ai \in [Keys -> [state : {"none", "refused", "sent"}, month : 0..Months]]
    BY <1>1 DEF Init
  <2>3. /\ mask \in [Revs -> {"none", "stored", "gone"}] /\ derived = {} /\ tagged = {} /\ runs = {}
        /\ budget \in [month : 1..Months, paused : BOOLEAN]
    BY <1>1 DEF Init
  <2> QED BY <2>1, <2>2, <2>3 DEF RestTyped
<1>5. TypeOK
  BY <1>3, <1>4, TypesSplit
<1>6. /\ NoJob.state = "none" /\ NoJob.gen = 0 /\ NoJob.attempts = 0 /\ NoJob.resumes = 0 /\ NoJob.manual = 0
      /\ Queued.state = "queued" /\ Queued.gen = 0 /\ Queued.attempts = 0 /\ Queued.resumes = 0
      /\ Queued.manual = 0
  BY DEF NoJob, Queued
<1>7. item.life = "active" /\ item.rev = 1 /\ budget.month = 1 /\ Restored = 0
  BY DEF Init, Restored
<1>8. Counts
  <2> SUFFICES ASSUME NEW s \in Stages, NEW r \in Revs PROVE Counted(job[s][r])
    BY <1>7 DEF Counts
  <2>1. PICK j : j = job[s][r]
    OBVIOUS
  <2>2. j = Queued \/ j = NoJob
    BY <1>3, <2>1
  <2>3. j.gen = 0 /\ j.attempts = 0 /\ j.resumes = 0 /\ j.manual = 0 /\ j.state \in {"queued", "none"}
    BY <1>6, <2>2
  <2>4. MaxAttempts * (j.manual + j.resumes + Restored) = 0
    BY <1>7, <2>3 DEF Bounds
  <2> QED BY <1>7, <2>1, <2>3, <2>4 DEF Counted, Spent, Paced
<1>9. Sources
  <2>1. row["cutout"] = 1
    BY DEF Init, FromCutout, Bounds
  <2>2. \A s \in Stages, r \in Revs : job[s][r].state \in {"none", "queued"}
        /\ (s \in FromCutout \/ r # 1 => job[s][r].state = "none")
    BY <1>3, <1>6
  <2>3. Revs \subseteq Nat /\ FromCutout \subseteq Stages
    BY DEF Bounds, Revs, FromCutout
  <2>4. FutureEmpty /\ ReadsItsCutout
    BY <1>7, <2>2, <2>3 DEF FutureEmpty, ReadsItsCutout
  <2>5. ReadsItsOriginal
    BY <1>1, <1>7, <2>2 DEF ReadsItsOriginal, Bounds
  <2> QED BY <1>7, <2>1, <2>4, <2>5 DEF Sources
<1>10. OnlyTagsAsk /\ DerivedFromItsCutout /\ DeletedPieceIdle
  BY <1>7 DEF Init, OnlyTagsAsk, DerivedFromItsCutout, DeletedPieceIdle
<1>11. CutoutFollowsPhoto
  <2>1. row["cutout"] \in {0, 1} /\ row["cutout"] = 1
    BY DEF Init, FromCutout, Bounds
  <2>2. job["cutout"][1].state = "queued"
    BY <1>1, <1>3, <1>6 DEF FromCutout, Bounds
  <2> QED BY <2>1, <2>2 DEF CutoutFollowsPhoto
<1> QED BY <1>5, <1>8, <1>9, <1>10, <1>11 DEF StagesInv

LEMMA NextOutcome == ASSUME Bounds, StagesInv, Next PROVE Outcome
<1>1. CASE Worker
  BY <1>1, ClaimOutcome, CompleteOutcome DEF Worker
<1>2. CASE Queue
  BY <1>2, QueueOutcome DEF Queue
<1>3. CASE Gateway
  BY <1>3, AskOutcome, ReserveOutcome, FinishOutcome DEF Gateway
<1>4. CASE Member
  BY <1>4, PhotoOutcome, DiscardOutcome, RetryOutcome DEF Member
<1>5. CASE Scheduler
  BY <1>5, ResumeOutcome, ExpireOutcome DEF Scheduler
<1>6. CASE Environment
  BY <1>6, SuspendOutcome, RestoreOutcome, BudgetOutcome DEF Environment
<1> QED BY <1>1, <1>2, <1>3, <1>4, <1>5, <1>6 DEF Next

LEMMA StutterOutcome == ASSUME Bounds, StagesInv, UNCHANGED vars PROVE Outcome
<1>1. RestTyped' /\ OnlyTagsAsk'
  BY TypesSplit DEF vars, StagesInv, RestTyped, OnlyTagsAsk
<1> QED BY <1>1, NoJobSet, Typed DEF vars, Restored, StagesInv

LEMMA NextStages == ASSUME Bounds, StagesInv, [Next]_vars PROVE StagesInv'
BY NextOutcome, StutterOutcome, StepKeepsStages DEF Outcome

(* The inductive invariant: types, counts, sources, and the three named      *)
(* properties of the piece (CutoutFollowsPhoto, DerivedFromItsCutout,        *)
(* DeletedPieceIdle), which no step breaks.                                  *)
THEOREM StagesInvariance == ASSUME Bounds PROVE Spec => []StagesInv
<1>1. Init => StagesInv
  BY InitStages
<1>2. StagesInv /\ [Next]_vars => StagesInv'
  BY NextStages
<1> QED BY <1>1, <1>2, PTL DEF Spec

-----------------------------------------------------------------------------
(* What a step may apply to the piece.                                       *)
LEMMA StepApplies == ASSUME Bounds, StagesInv, Next PROVE AppliesToItsRevision
<1> DEFINE Still == item' = item /\ derived' = derived /\ tagged' = tagged
<1>1. Still => AppliesToItsRevision
  BY DEF AppliesToItsRevision
<1>2. ASSUME NEW s \in Stages, NEW r \in Revs, CompleteItemStage(s, r) PROVE AppliesToItsRevision
  <2>1. CASE PublishCutout(r)
    <3>1. r = item.rev /\ item.life # "deleted" /\ item'.shown = r /\ derived' = derived /\ tagged' = tagged
      BY <1>2, <2>1 DEF PublishCutout, Applicable, Current, CompleteItemStage, StagesInv, TypeOK
    <3> QED BY <3>1 DEF AppliesToItsRevision
  <2>2. CASE PublishDerived(s, r)
    <3>1. /\ r = item.rev /\ item.life # "deleted" /\ item' = item /\ tagged' = tagged
          /\ derived' = derived \cup {[stage |-> s, rev |-> r, cutout |-> job[s][r].source]}
      BY <1>2, <2>2 DEF PublishDerived, Applicable, Current, CompleteItemStage
    <3>2. \A d \in derived' \ derived : d.rev = item.rev
      BY <3>1
    <3> QED BY <3>1, <3>2 DEF AppliesToItsRevision
  <2>3. CASE Reject(s, r) \/ Supersede(s, r)
    <3>1. ~Current(r) \/ job[s][r].state = "running"
      BY <2>3 DEF Reject, Supersede
    <3>2. CASE UNCHANGED <<item, row, derived>>
      BY <1>1, <1>2, <3>2 DEF CompleteItemStage
    <3> QED BY <1>2, <2>1, <2>2, <3>2 DEF CompleteItemStage
  <2> QED BY <1>2, <2>1, <2>2, <2>3 DEF CompleteItemStage
<1>3. ASSUME NEW u \in runs, FinishRun(u) PROVE AppliesToItsRevision
  <2>1. CASE ApplyTags(u)
    <3>1. /\ u.rev = item.rev /\ item.life # "deleted" /\ item' = item /\ derived' = derived
          /\ tagged' = tagged \cup {u.rev}
      BY <1>3, <2>1 DEF ApplyTags, Applicable, Current, FinishRun
    <3> QED BY <3>1 DEF AppliesToItsRevision
  <2>2. CASE ~ApplyTags(u)
    BY <1>1, <1>3, <2>2 DEF FinishRun, BlockItemStage
  <2> QED BY <2>1, <2>2
<1>4. ASSUME NEW S, Advance(S), item' = [item EXCEPT !.rev = item.rev + 1]
               \/ item' = [item EXCEPT !.rev = item.rev + 1, !.original = item.rev + 1]
      PROVE  AppliesToItsRevision
  <2>1. item'.shown = item.shown /\ item.life # "deleted" /\ derived' = derived /\ tagged' = tagged
    BY <1>4 DEF Advance, StagesInv, TypeOK
  <2> QED BY <2>1 DEF AppliesToItsRevision
<1>5. CASE DiscardItem
  <2>1. item'.shown = 0 /\ item.life # "deleted" /\ derived' = {} /\ tagged' = tagged
    BY <1>5 DEF DiscardItem, StagesInv, TypeOK
  <2> QED BY <2>1 DEF AppliesToItsRevision
<1>6. CASE Worker
  <2>1. ASSUME NEW s \in Stages, NEW r \in Revs, ClaimItemStage(s, r) PROVE Still
    BY <2>1 DEF ClaimItemStage
  <2> QED BY <1>1, <1>2, <1>6, <2>1 DEF Worker
<1>7. CASE Queue
  BY <1>1, <1>7 DEF Queue, LoseAttempt, RequeueDue
<1>8. CASE Gateway
  BY <1>1, <1>3, <1>8 DEF Gateway, AskAi, ReserveRun, ProviderAnswers, DropRun
<1>9. CASE Member
  BY <1>1, <1>4, <1>5, <1>9 DEF Member, ReplaceItemPhoto, SubmitMask, RecutItem, RetryItemStage
<1>10. CASE Scheduler
  BY <1>1, <1>10 DEF Scheduler, ResumeBlockedStages, ExpireMask
<1>11. CASE Environment
  BY <1>1, <1>11 DEF Environment, SuspendMember, RestoreMember, ChangeBudget, StartMonth
<1> QED BY <1>6, <1>7, <1>8, <1>9, <1>10, <1>11 DEF Next

(* No late answer is applied: a result changes the piece only at the         *)
(* revision it was computed for, and never a deleted one.                    *)
THEOREM NoLateResult == ASSUME Bounds PROVE Spec => LateResultsNeverApplied
<1>1. StagesInv /\ [Next]_vars => [AppliesToItsRevision]_vars
  BY StepApplies
<1> QED BY <1>1, StagesInvariance, PTL DEF Spec, LateResultsNeverApplied

-----------------------------------------------------------------------------
(* A step asks for a photo at most under the key its running job has.        *)
AsksNow(r) ==
  /\ job["tags"][r].state = "running" /\ job' = job
  /\ Asked(r)' \subseteq Asked(r) \cup {AttemptKey(r)}

LEMMA StepAsks ==
  ASSUME Bounds, StagesInv, [Next]_vars, NEW r \in Revs
  PROVE  Asked(r)' \subseteq Asked(r) \/ AsksNow(r)
<1>1. (ai' = ai /\ runs' \subseteq runs) => Asked(r)' \subseteq Asked(r)
  BY DEF Asked
<1>2. ASSUME NEW p \in Revs, AskAi(p) PROVE Asked(r)' \subseteq Asked(r) \/ AsksNow(r)
  <2>1. /\ job["tags"][p].state = "running" /\ job' = job /\ ai' = ai
        /\ runs' = runs \cup {[rev |-> p, gen |-> job["tags"][p].gen, key |-> AttemptKey(p), at |-> "asked"]}
    BY <1>2 DEF AskAi
  <2>2. AttemptKey(p).rev = p
    BY DEF AttemptKey
  <2>3. CASE p = r
    <3>1. Asked(r)' \subseteq Asked(r) \cup {AttemptKey(r)}
      BY <2>1, <2>3 DEF Asked
    <3> QED BY <2>1, <2>3, <3>1 DEF AsksNow
  <2>4. CASE p # r
    BY <2>1, <2>2, <2>4 DEF Asked
  <2> QED BY <2>3, <2>4
<1>3. ASSUME NEW u \in runs, ReserveRun(u) \/ ProviderAnswers(u) PROVE Asked(r)' \subseteq Asked(r)
  <2>1. \A v \in runs' : \E w \in runs : v.key = w.key
    <3>1. PICK at : runs' = (runs \ {u}) \cup {[u EXCEPT !.at = at]}
      BY <1>3 DEF ReserveRun, ProviderAnswers, Moved
    <3>2. [u EXCEPT !.at = at].key = u.key
      BY RunTyped DEF AiRuns
    <3> QED BY <3>1, <3>2
  <2>2. \A k \in Keys : ai'[k].state # "none" => ai[k].state # "none" \/ k = u.key
    <3>1. ai' = ai \/ \E state : Recorded(u.key, state)
      BY <1>3 DEF ReserveRun, ProviderAnswers
    <3> QED BY <3>1 DEF Recorded, StagesInv, TypeOK
  <2> QED BY <2>1, <2>2 DEF Asked
<1>4. ASSUME NEW u \in runs, FinishRun(u) \/ DropRun(u) PROVE ai' = ai /\ runs' \subseteq runs
  BY <1>4 DEF FinishRun, DropRun
<1>5. CASE Worker
  BY <1>1, <1>5 DEF Worker, ClaimItemStage, CompleteItemStage
<1>6. CASE Queue
  BY <1>1, <1>6 DEF Queue, LoseAttempt, RequeueDue
<1>7. CASE Gateway
  BY <1>1, <1>2, <1>3, <1>4, <1>7 DEF Gateway
<1>8. CASE Member
  BY <1>1, <1>8 DEF Member, ReplaceItemPhoto, SubmitMask, RecutItem, Advance, DiscardItem, RetryItemStage
<1>9. CASE Scheduler
  BY <1>1, <1>9 DEF Scheduler, ResumeBlockedStages, ExpireMask
<1>10. CASE Environment
  BY <1>1, <1>10 DEF Environment, SuspendMember, RestoreMember, ChangeBudget, StartMonth
<1>11. CASE UNCHANGED vars
  BY <1>1, <1>11 DEF vars
<1> QED BY <1>5, <1>6, <1>7, <1>8, <1>9, <1>10, <1>11 DEF Next

(* The requests of a job only grow, and a job never disappears.              *)
LEMMA RequestsGrow ==
  ASSUME Bounds, StagesInv, StagesInv', Step, "tags" \in Stages, NEW r \in Revs,
         job["tags"][r].state # "none"
  PROVE  /\ job'["tags"][r].state # "none"
         /\ \A k \in Keys : Below(k, job["tags"][r]) => Below(k, job'["tags"][r])
<1> DEFINE j == job["tags"][r]
           k == job'["tags"][r]
<1>1. j \in JobRecords /\ k \in JobRecords /\ JobMove("tags", r, j, k)
  BY DEF StagesInv, TypeOK, JobRecords, Step
<1>2. /\ j.manual \in Nat /\ j.resumes \in Nat /\ k.manual \in Nat /\ k.resumes \in Nat
      /\ \A l \in Keys : l.manual \in Nat /\ l.resumes \in Nat
  BY <1>1, MaxGenIsNat DEF JobRecords, Keys, Bounds
<1>3. k.state # "none" /\ j.manual <= k.manual /\ j.resumes <= k.resumes
  <2>1. CASE Starts("tags", r, j, k)
    BY <1>1, <1>2, <2>1 DEF Starts, JobRecords
  <2>2. CASE Settles("tags", r, j, k)
    BY <1>2, <2>2 DEF Settles, SameCounts
  <2>3. CASE Repeats(j, k)
    BY <1>2, <2>3 DEF Repeats
  <2> QED BY <1>1, <1>2, <2>1, <2>2, <2>3 DEF JobMove, Queues
<1> QED BY <1>2, <1>3 DEF Below

LEMMA NextKeys ==
  ASSUME Bounds, IInv, [Next]_vars PROVE KeysInOrder'
<1>1. StagesInv /\ StagesInv' /\ KeysInOrder /\ Step
  BY NextStages, NextOutcome, StutterOutcome DEF IInv, Outcome
<1> SUFFICES ASSUME "tags" \in Stages, NEW r \in Revs
             PROVE  /\ job'["tags"][r].state = "none" => Asked(r)' = {}
                    /\ \A k \in Asked(r)' : Below(k, job'["tags"][r])
                    /\ \A k, l \in Asked(r)' : Below(k, l) \/ Below(l, k)
  BY DEF KeysInOrder
<1>2. /\ job["tags"][r].state = "none" => Asked(r) = {}
      /\ \A k \in Asked(r) : Below(k, job["tags"][r])
      /\ \A k, l \in Asked(r) : Below(k, l) \/ Below(l, k)
      /\ Asked(r) \subseteq Keys
  BY <1>1 DEF KeysInOrder, Asked
<1>3. CASE AsksNow(r)
  <2> DEFINE j == job["tags"][r]
             a == AttemptKey(r)
  <2>1. job' = job /\ j.state # "none" /\ Asked(r)' \subseteq Asked(r) \cup {a}
    BY <1>3 DEF AsksNow
  <2>2. a.manual = j.manual /\ a.resumes = j.resumes /\ j.manual \in Int /\ j.resumes \in Int
    BY <1>1, Typed, MaxGenIsNat DEF AttemptKey, JobRecords, StagesInv, Bounds
  <2>3. Below(a, j) /\ Below(a, a) /\ \A k \in Asked(r) : Below(k, a)
    BY <1>2, <2>2 DEF Below
  <2> QED BY <1>2, <2>1, <2>3
<1>4. CASE Asked(r)' \subseteq Asked(r)
  <2>1. CASE job["tags"][r].state = "none"
    BY <1>2, <1>4, <2>1
  <2>2. CASE job["tags"][r].state # "none"
    BY <1>1, <1>2, <1>4, <2>2, RequestsGrow
  <2> QED BY <2>1, <2>2
<1> QED BY <1>1, <1>3, <1>4, StepAsks

LEMMA InitKeys == ASSUME Bounds, Init PROVE KeysInOrder
BY DEF Init, KeysInOrder, Asked

(* The whole inductive invariant: with those, the attempt keys of a photo    *)
(* form a chain below the one its job has now (attempt_key in                *)
(* svc_item_ai_context).                                                     *)
THEOREM KeysInvariance == ASSUME Bounds PROVE Spec => []IInv
<1>1. Init => IInv
  BY InitStages, InitKeys DEF IInv
<1>2. IInv /\ [Next]_vars => IInv'
  BY NextStages, NextKeys DEF IInv
<1> QED BY <1>1, <1>2, PTL DEF Spec

(* Keys in a chain that ends at m manual retries and n resumes: one for each *)
(* sum of the two.                                                           *)
LEMMA ChainIsShort ==
  ASSUME NEW S \in SUBSET Keys, NEW r, \A k \in S : k.rev = r,
         \A k \in S : k.manual \in Nat /\ k.resumes \in Nat,
         \A k, l \in S : Below(k, l) \/ Below(l, k),
         NEW m \in Nat, NEW n \in Nat, \A k \in S : k.manual <= m /\ k.resumes <= n
  PROVE  Cardinality(S) <= 1 + m + n
<1> DEFINE f == [k \in S |-> k.manual + k.resumes]
<1>1. f \in [S -> 0..(m + n)]
  OBVIOUS
<1>2. ASSUME NEW k \in S, NEW l \in S, f[k] = f[l] PROVE k = l
  <2>1. k.manual + k.resumes = l.manual + l.resumes
    BY <1>2
  <2>2. k.manual = l.manual /\ k.resumes = l.resumes
    BY <2>1 DEF Below
  <2> QED BY <2>2 DEF Keys
<1>3. f \in Injection(S, 0..(m + n))
  <2> HIDE DEF f
  <2> QED BY <1>1, <1>2 DEF Injection, IsInjective
<1>4. IsFiniteSet(0..(m + n)) /\ Cardinality(0..(m + n)) = m + n + 1
  BY FS_Interval
<1>5. IsFiniteSet(S) /\ Cardinality(S) <= Cardinality(0..(m + n))
  BY <1>3, <1>4, FS_Injection
<1> QED BY <1>4, <1>5, FS_CardinalityType

LEMMA PaidWithinRequests == ASSUME Bounds, IInv PROVE PaidAsAsked
<1> SUFFICES ASSUME "tags" \in Stages, NEW r \in Revs
             PROVE  Cardinality({k \in Keys : k.rev = r /\ ai[k].state = "sent"})
                      <= 1 + job["tags"][r].manual + job["tags"][r].resumes
  BY DEF PaidAsAsked
<1>1. PICK S \in SUBSET Keys : S = {k \in Keys : k.rev = r /\ ai[k].state = "sent"}
  OBVIOUS
<1>2. S \subseteq Asked(r) /\ \A k \in S : k.rev = r
  BY <1>1 DEF Asked
<1>3. /\ \A k \in S : k.manual \in Nat /\ k.resumes \in Nat
      /\ job["tags"][r].manual \in Nat /\ job["tags"][r].resumes \in Nat
  BY Typed, MaxGenIsNat DEF IInv, StagesInv, JobRecords, Keys, Bounds
<1>4. /\ \A k, l \in S : Below(k, l) \/ Below(l, k)
      /\ \A k \in S : k.manual <= job["tags"][r].manual /\ k.resumes <= job["tags"][r].resumes
  BY <1>2 DEF IInv, KeysInOrder, Below
<1> QED BY <1>1, <1>2, <1>3, <1>4, ChainIsShort

(* A photo is paid for at most once for its first run, once per manual retry *)
(* and once per resume (attempt_key).                                        *)
THEOREM PaidNoMoreThanAsked == ASSUME Bounds PROVE Spec => []PaidAsAsked
<1>1. IInv => PaidAsAsked
  BY PaidWithinRequests
<1> QED BY <1>1, KeysInvariance, PTL
=============================================================================

-------------------------- MODULE UploadJobs_proofs --------------------------
(***************************************************************************)
(* Proofs about UploadJobs for every number of members, entries, attempts  *)
(* and retries, and for every length of lease, claim and deadline.         *)
(***************************************************************************)
EXTENDS UploadJobs, TLAPS

LEMMA ProductGrows ==
  ASSUME NEW k \in Nat, NEW a \in Nat, NEW b \in Nat, a <= b
  PROVE  k * a <= k * b /\ k * (a + 1) = k * a + k /\ k * a \in Nat
<1>1. PICK d \in Nat : b = a + d
  <2>1. b - a \in Nat /\ b = a + (b - a)
    OBVIOUS
  <2> QED BY <2>1
<1>2. k * b = k * a + k * d /\ k * d \in Nat /\ k * a \in Nat
  BY <1>1
<1> QED BY <1>2

(* The budget of generations is a natural number. *)
LEMMA BudgetFacts ==
  /\ MaxGen \in Nat
  /\ Gens \subseteq Nat
  /\ MaxAttempts \in Nat \ {0}
BY LimitsAssumption, ProductGrows DEF MaxGen, Gens

LEMMA ParkedFields ==
  ASSUME NEW j \in JobRecords, NEW s \in JobStates
  PROVE  /\ Parked(j, s) \in JobRecords
         /\ Parked(j, s).state = s
         /\ Parked(j, s).gen = j.gen
         /\ Parked(j, s).attempts = j.attempts
         /\ Parked(j, s).manual = j.manual
         /\ Parked(j, s).lease = 0
         /\ Parked(j, s).stage = 0
<1> DEFINE j1 == [j EXCEPT !.state = s]
           j2 == [j1 EXCEPT !.claim = 0]
           j3 == [j2 EXCEPT !.next = 0]
           j4 == [j3 EXCEPT !.lease = 0]
           j5 == [j4 EXCEPT !.stage = 0]
<1>0. 0 \in 0..ClaimTicks /\ 0 \in 0..LeaseTicks /\ 0 \in 0..StageTicks /\ 0 \in Nat
  BY TimeAssumption
<1>1. j1 \in JobRecords /\ j1.state = s /\ j1.gen = j.gen
      /\ j1.attempts = j.attempts /\ j1.manual = j.manual
  BY DEF JobRecords
<1> HIDE DEF j1
<1>2. j2 \in JobRecords /\ j2.state = s /\ j2.gen = j.gen
      /\ j2.attempts = j.attempts /\ j2.manual = j.manual
  BY <1>1, <1>0 DEF JobRecords
<1> HIDE DEF j2
<1>3. j3 \in JobRecords /\ j3.state = s /\ j3.gen = j.gen
      /\ j3.attempts = j.attempts /\ j3.manual = j.manual
  BY <1>2, <1>0 DEF JobRecords
<1> HIDE DEF j3
<1>4. j4 \in JobRecords /\ j4.state = s /\ j4.gen = j.gen /\ j4.lease = 0
      /\ j4.attempts = j.attempts /\ j4.manual = j.manual
  BY <1>3, <1>0 DEF JobRecords
<1> HIDE DEF j4
<1>5. j5 \in JobRecords /\ j5.state = s /\ j5.gen = j.gen /\ j5.lease = 0
      /\ j5.attempts = j.attempts /\ j5.manual = j.manual /\ j5.stage = 0
  BY <1>4, <1>0 DEF JobRecords
<1>6. Parked(j, s) = j5
  BY DEF Parked, j1, j2, j3, j4
<1> QED BY <1>5, <1>6

LEMMA CancelFields ==
  ASSUME NEW j \in JobRecords
  PROVE  /\ Cancel(j) \in JobRecords
         /\ Cancel(j).gen = j.gen
         /\ Cancel(j).attempts = j.attempts
         /\ Cancel(j).manual = j.manual
         /\ Cancel(j).state = IF j.state \in Terminal \cup {"none"}
                              THEN j.state ELSE "canceled"
<1>1. "canceled" \in JobStates
  BY DEF JobStates
<1> QED BY <1>1, ParkedFields DEF Cancel

LEMMA RequeuedFields ==
  ASSUME NEW j \in JobRecords
  PROVE  /\ Requeued(j) \in JobRecords
         /\ Requeued(j).state = "queued"
         /\ Requeued(j).gen = j.gen
         /\ Requeued(j).attempts = 0
         /\ Requeued(j).manual = j.manual
<1>1. "queued" \in JobStates
  BY DEF JobStates
<1>2. Parked(j, "queued") \in JobRecords
  BY <1>1, ParkedFields
<1> QED BY <1>1, <1>2, ParkedFields, LimitsAssumption DEF Requeued, JobRecords

LEMMA RetriedFields ==
  ASSUME NEW j \in JobRecords, j.attempts # 0
  PROVE  /\ RetriedJob(j) \in JobRecords
         /\ RetriedJob(j).state = IF j.attempts >= MaxAttempts THEN "failed" ELSE "retry_wait"
         /\ RetriedJob(j).gen = j.gen
         /\ RetriedJob(j).attempts = j.attempts
         /\ RetriedJob(j).manual = j.manual
<1>1. {"failed", "retry_wait"} \subseteq JobStates
  BY DEF JobStates
<1>2. j.attempts < MaxAttempts => Backoff[j.attempts] \in Nat
  BY TimeAssumption, LimitsAssumption DEF JobRecords
<1>3. Parked(j, "failed") \in JobRecords /\ Parked(j, "retry_wait") \in JobRecords
  BY <1>1, ParkedFields
<1>4. CASE j.attempts >= MaxAttempts
  BY <1>1, <1>4, ParkedFields DEF RetriedJob
<1>5. CASE ~ (j.attempts >= MaxAttempts)
  <2>1. RetriedJob(j) = [Parked(j, "retry_wait") EXCEPT !.next = Backoff[j.attempts]]
    BY <1>5 DEF RetriedJob
  <2>2. j.attempts < MaxAttempts
    BY <1>5, LimitsAssumption DEF JobRecords
  <2>3. RetriedJob(j) \in JobRecords
    BY <2>1, <2>2, <1>2, <1>3 DEF JobRecords
  <2> QED BY <2>1, <2>3, <1>1, <1>3, <1>5, ParkedFields DEF JobRecords
<1> QED BY <1>4, <1>5

LEMMA ElapsedFields ==
  ASSUME NEW j \in JobRecords
  PROVE  /\ Elapsed(j) \in JobRecords
         /\ Elapsed(j).state = j.state
         /\ Elapsed(j).gen = j.gen
         /\ Elapsed(j).attempts = j.attempts
         /\ Elapsed(j).manual = j.manual
         /\ j.lease <= j.stage => Elapsed(j).lease <= Elapsed(j).stage
<1> DEFINE j1 == [j EXCEPT !.claim = Countdown(j.claim)]
           j2 == [j1 EXCEPT !.next = Countdown(j.next)]
           j3 == [j2 EXCEPT !.lease = Countdown(j.lease)]
           j4 == [j3 EXCEPT !.stage = Countdown(j.stage)]
<1>a. /\ j.claim \in 0..ClaimTicks /\ j.next \in Nat
      /\ j.lease \in 0..LeaseTicks /\ j.stage \in 0..StageTicks
  BY DEF JobRecords
<1>b. \A n \in Nat : \A k \in 0..n : Countdown(k) \in 0..n
  BY DEF Countdown
<1>0. /\ Countdown(j.claim) \in 0..ClaimTicks
      /\ Countdown(j.next) \in Nat
      /\ Countdown(j.lease) \in 0..LeaseTicks
      /\ Countdown(j.stage) \in 0..StageTicks
      /\ j.lease <= j.stage => Countdown(j.lease) <= Countdown(j.stage)
  <2>1. ClaimTicks \in Nat /\ LeaseTicks \in Nat /\ StageTicks \in Nat
    BY TimeAssumption
  <2>2. Countdown(j.next) \in Nat
    BY <1>a DEF Countdown
  <2>3. j.lease <= j.stage => Countdown(j.lease) <= Countdown(j.stage)
    BY <1>a, <2>1 DEF Countdown
  <2> QED BY <1>a, <1>b, <2>1, <2>2, <2>3
<1>1. j1 \in JobRecords /\ j1.state = j.state /\ j1.gen = j.gen
      /\ j1.attempts = j.attempts /\ j1.manual = j.manual
  BY <1>0 DEF JobRecords
<1> HIDE DEF j1
<1>2. j2 \in JobRecords /\ j2.state = j.state /\ j2.gen = j.gen
      /\ j2.attempts = j.attempts /\ j2.manual = j.manual
  BY <1>0, <1>1 DEF JobRecords
<1> HIDE DEF j2
<1>3. j3 \in JobRecords /\ j3.state = j.state /\ j3.gen = j.gen
      /\ j3.attempts = j.attempts /\ j3.manual = j.manual
      /\ j3.lease = Countdown(j.lease)
  BY <1>0, <1>2 DEF JobRecords
<1> HIDE DEF j3
<1>4. j4 \in JobRecords /\ j4.state = j.state /\ j4.gen = j.gen
      /\ j4.attempts = j.attempts /\ j4.manual = j.manual
      /\ j4.lease = Countdown(j.lease) /\ j4.stage = Countdown(j.stage)
  BY <1>0, <1>3 DEF JobRecords
<1>5. Elapsed(j) = j4
  BY DEF Elapsed, j1, j2, j3, j4
<1> QED BY <1>0, <1>4, <1>5

(* The job record of an accepted claim. *)
LEMMA ClaimedFields ==
  ASSUME NEW j \in JobRecords, j.gen < MaxGen, j.attempts < MaxAttempts
  PROVE  /\ ClaimedJob(j) \in JobRecords
         /\ ClaimedJob(j).state = "running"
         /\ ClaimedJob(j).gen = j.gen + 1
         /\ ClaimedJob(j).attempts = j.attempts + 1
         /\ ClaimedJob(j).manual = j.manual
         /\ ClaimedJob(j).lease = LeaseTicks
         /\ ClaimedJob(j).stage = StageTicks
<1> DEFINE j1 == [j EXCEPT !.state = "running"]
           j2 == [j1 EXCEPT !.claim = 0]
           j3 == [j2 EXCEPT !.gen = j.gen + 1]
           j4 == [j3 EXCEPT !.attempts = j.attempts + 1]
           j5 == [j4 EXCEPT !.lease = LeaseTicks]
           j6 == [j5 EXCEPT !.stage = StageTicks]
<1>a. j.gen \in 0..MaxGen /\ j.attempts \in 0..MaxAttempts
  BY DEF JobRecords
<1>0. /\ 0 \in 0..ClaimTicks /\ LeaseTicks \in 0..LeaseTicks
      /\ StageTicks \in 0..StageTicks
      /\ j.gen + 1 \in 0..MaxGen /\ j.attempts + 1 \in 0..MaxAttempts
      /\ "running" \in JobStates
  <2>1. "running" \in JobStates
    BY DEF JobStates
  <2>2. j.gen + 1 \in 0..MaxGen /\ j.attempts + 1 \in 0..MaxAttempts
    BY <1>a, BudgetFacts
  <2> QED BY <2>1, <2>2, TimeAssumption
<1>1. j1 \in JobRecords /\ j1.state = "running" /\ j1.gen = j.gen
      /\ j1.attempts = j.attempts /\ j1.manual = j.manual
  BY <1>0 DEF JobRecords
<1> HIDE DEF j1
<1>2. j2 \in JobRecords /\ j2.state = "running" /\ j2.gen = j.gen
      /\ j2.attempts = j.attempts /\ j2.manual = j.manual
  BY <1>0, <1>1 DEF JobRecords
<1> HIDE DEF j2
<1>3. j3 \in JobRecords /\ j3.state = "running" /\ j3.gen = j.gen + 1
      /\ j3.attempts = j.attempts /\ j3.manual = j.manual
  BY <1>0, <1>2 DEF JobRecords
<1> HIDE DEF j3
<1>4. j4 \in JobRecords /\ j4.state = "running" /\ j4.gen = j.gen + 1
      /\ j4.attempts = j.attempts + 1 /\ j4.manual = j.manual
  BY <1>0, <1>3 DEF JobRecords
<1> HIDE DEF j4
<1>5. j5 \in JobRecords /\ j5.state = "running" /\ j5.gen = j.gen + 1
      /\ j5.attempts = j.attempts + 1 /\ j5.manual = j.manual /\ j5.lease = LeaseTicks
  BY <1>0, <1>4 DEF JobRecords
<1> HIDE DEF j5
<1>6. j6 \in JobRecords /\ j6.state = "running" /\ j6.gen = j.gen + 1
      /\ j6.attempts = j.attempts + 1 /\ j6.manual = j.manual
      /\ j6.lease = LeaseTicks /\ j6.stage = StageTicks
  BY <1>0, <1>5 DEF JobRecords
<1>7. ClaimedJob(j) = j6
  BY DEF ClaimedJob, j1, j2, j3, j4, j5
<1> QED BY <1>6, <1>7

LEMMA RetriedByOwnerFields ==
  ASSUME NEW j \in JobRecords, j.manual < MaxManualRetries
  PROVE  /\ RetriedByOwner(j) \in JobRecords
         /\ RetriedByOwner(j).state = "queued"
         /\ RetriedByOwner(j).gen = j.gen
         /\ RetriedByOwner(j).attempts = 0
         /\ RetriedByOwner(j).manual = j.manual + 1
<1>1. j.manual + 1 \in 0..MaxManualRetries
  BY LimitsAssumption DEF JobRecords
<1> QED BY <1>1, RequeuedFields DEF RetriedByOwner, JobRecords

(***************************************************************************)
(* The inductive invariant                                                 *)
(***************************************************************************)

LEMMA InitIInv == Init => IInv
<1> SUFFICES ASSUME Init PROVE IInv
  OBVIOUS
<1>1. NoJob \in JobRecords
  <2>1. MaxGen \in Nat
    BY BudgetFacts
  <2>2. /\ 0 \in 0..MaxGen /\ 0 \in 0..MaxAttempts /\ 0 \in 0..MaxManualRetries
        /\ 0 \in 0..ClaimTicks /\ 0 \in 0..LeaseTicks /\ 0 \in 0..StageTicks /\ 0 \in Nat
    BY <2>1, LimitsAssumption, TimeAssumption
  <2> QED BY <2>2 DEF NoJob, JobRecords, JobStates
<1>2. TypeOK
  BY <1>1, LimitsAssumption DEF Init, TypeOK, MemberStates, EntryStates, AssetStates, OutStates
<1>3. ASSUME NEW e \in Entries PROVE Good(e)
  <2>1. /\ job[e].state = "none" /\ job[e].gen = 0 /\ job[e].attempts = 0
        /\ job[e].manual = 0 /\ restores[Owner[e]] = 0
        /\ entry[e] = "absent" /\ raw[e] = {}
        /\ \A g \in Gens : out[e][g] = "none"
    BY SetsAssumption DEF Init, NoJob
  <2>2. Budgeted(e)
    BY <2>1, LimitsAssumption DEF Budgeted
  <2> QED BY <2>1, <2>2 DEF Good, Agrees, RunsProperly, OutputsSettled, RawKept, Terminal
<1> QED BY <1>2, <1>3 DEF IInv

(* An entry whose rows and whose owner a step leaves alone stays good. *)
LEMMA Frame ==
  ASSUME NEW e \in Entries, Good(e),
         entry'[e] = entry[e], job'[e] = job[e], out'[e] = out[e],
         raw'[e] = raw[e], slot'[e] = slot[e],
         member'[Owner[e]] = member[Owner[e]], restores'[Owner[e]] = restores[Owner[e]]
  PROVE  Good(e)'
BY DEF Good, Agrees, Budgeted, RunsProperly, OutputsSettled, RawKept

(* The generations stay within the bound while every budget is kept. *)
LEMMA GenWithinBudget ==
  ASSUME NEW j \in JobRecords, NEW r \in 0..MaxRestores,
         j.gen <= MaxAttempts * (j.manual + r) + j.attempts, j.attempts < MaxAttempts
  PROVE  j.gen < MaxGen
<1>1. j.manual \in 0..MaxManualRetries /\ j.gen \in Nat /\ j.attempts \in Nat
  BY BudgetFacts DEF JobRecords
<1>2. j.manual + r <= MaxManualRetries + MaxRestores
  BY <1>1, LimitsAssumption
<1>3. MaxAttempts * (j.manual + r) <= MaxAttempts * (MaxManualRetries + MaxRestores)
  BY <1>1, <1>2, LimitsAssumption, ProductGrows
<1>4. MaxGen = MaxAttempts * (MaxManualRetries + MaxRestores) + MaxAttempts
  <2>1. MaxManualRetries + MaxRestores \in Nat
    BY LimitsAssumption
  <2>2. 1 + MaxManualRetries + MaxRestores = (MaxManualRetries + MaxRestores) + 1
    BY LimitsAssumption
  <2> QED BY <2>1, <2>2, LimitsAssumption, ProductGrows DEF MaxGen
<1>5. /\ MaxAttempts * (j.manual + r) \in Nat
      /\ MaxAttempts * (MaxManualRetries + MaxRestores) \in Nat
  BY <1>1, LimitsAssumption, ProductGrows
<1> QED BY <1>1, <1>3, <1>4, <1>5, LimitsAssumption
(***************************************************************************)
(* Steps that touch one entry                                              *)
(***************************************************************************)

(* The rows of every entry but x stay as they are, and so do the members. *)
OnlyChanges(x) ==
  /\ UNCHANGED <<member, restores>>
  /\ \A e \in Entries \ {x} :
       /\ entry'[e] = entry[e] /\ job'[e] = job[e] /\ out'[e] = out[e]
       /\ raw'[e] = raw[e] /\ slot'[e] = slot[e]

LEMMA OneEntryStep ==
  ASSUME IInv, NEW x \in Entries, TypeOK', OnlyChanges(x), Good(x)'
  PROVE  IInv'
<1>1. ASSUME NEW e \in Entries PROVE Good(e)'
  <2>1. CASE e = x
    BY <2>1
  <2>2. CASE e # x
    BY <2>2, Frame DEF IInv, OnlyChanges
  <2> QED BY <2>1, <2>2
<1> QED BY <1>1 DEF IInv

(* What the invariant says of one entry, for use in the lemmas below. *)
LEMMA Unfold ==
  ASSUME IInv, NEW x \in Entries
  PROVE  /\ TypeOK
         /\ entry[x] \in EntryStates /\ asset[x] \in AssetStates
         /\ slot[x] \in {"open", "closed", "expired"} /\ raw[x] \in SUBSET {"now", "recheck"}
         /\ job[x] \in JobRecords /\ out[x] \in [Gens -> OutStates]
         /\ Owner[x] \in Members /\ restores[Owner[x]] \in Nat
         /\ restores[Owner[x]] <= MaxRestores
         /\ Agrees(x) /\ Budgeted(x) /\ RunsProperly(x) /\ OutputsSettled(x) /\ RawKept(x)
BY SetsAssumption, LimitsAssumption DEF IInv, TypeOK, Good

(* The numbers in a job record, without its other fields. *)
LEMMA Numbers ==
  ASSUME NEW j \in JobRecords
  PROVE  /\ j.gen \in Nat /\ j.attempts \in Nat /\ j.manual \in Nat
         /\ j.lease \in Nat /\ j.stage \in Nat /\ j.state \in JobStates
         /\ j.attempts <= MaxAttempts
BY BudgetFacts, LimitsAssumption, TimeAssumption DEF JobRecords

(* A budget is kept when the generation stays and no count goes down, or    *)
(* when a new budget is granted.                                            *)
LEMMA BudgetKept ==
  ASSUME NEW g \in Nat, NEW n \in Nat, NEW r \in Nat, NEW a \in Nat,
         a <= MaxAttempts, g <= MaxAttempts * (n + r) + a
  PROVE  /\ g <= MaxAttempts * ((n + 1) + r)
         /\ g <= MaxAttempts * (n + (r + 1))
         /\ g + 1 <= MaxAttempts * (n + r) + (a + 1)
         /\ MaxAttempts * (n + r) \in Nat
         /\ MaxAttempts * ((n + 1) + r) \in Nat
<1>1. MaxAttempts * ((n + r) + 1) = MaxAttempts * (n + r) + MaxAttempts
      /\ MaxAttempts * (n + r) \in Nat
  BY LimitsAssumption, ProductGrows
<1>2. (n + 1) + r = (n + r) + 1 /\ n + (r + 1) = (n + r) + 1
  OBVIOUS
<1> QED BY <1>1, <1>2, LimitsAssumption

LEMMA RenewKeeps ==
  ASSUME IInv, NEW x \in Entries, RenewUploadEntry(x) PROVE IInv'
<1>1. TypeOK' /\ OnlyChanges(x)
  BY Unfold DEF RenewUploadEntry, TypeOK, OnlyChanges, memberVars
<1>2. entry[x] = "awaiting_upload" /\ slot'[x] = "open"
      /\ UNCHANGED <<member, restores, entry, raw, job, out>>
  BY Unfold DEF RenewUploadEntry, TypeOK, memberVars
<1>3. Good(x)'
  BY <1>2, Unfold DEF Good, Agrees, Budgeted, RunsProperly, OutputsSettled, RawKept
<1> QED BY <1>1, <1>3, OneEntryStep

LEMMA TooLargeKeeps ==
  ASSUME IInv, NEW x \in Entries, CompleteTooLarge(x) PROVE IInv'
<1>1. TypeOK' /\ OnlyChanges(x)
  BY Unfold DEF CompleteTooLarge, TypeOK, OnlyChanges, memberVars, EntryStates, AssetStates
<1>2. entry[x] = "awaiting_upload" /\ entry'[x] = "rejected" /\ raw'[x] = {"now", "recheck"}
      /\ UNCHANGED <<member, restores, slot, job, out>>
  BY Unfold DEF CompleteTooLarge, TypeOK, memberVars
<1>3. Good(x)'
  BY <1>2, Unfold DEF Good, Agrees, Budgeted, RunsProperly, OutputsSettled, RawKept
<1> QED BY <1>1, <1>3, OneEntryStep

LEMMA CompleteUploadKeeps ==
  ASSUME IInv, NEW x \in Entries, CompleteUploadEntry(x) PROVE IInv'
<1> DEFINE j == [NoJob EXCEPT !.state = "queued"]
<1>1. j \in JobRecords /\ j.state = "queued" /\ j.gen = 0 /\ j.attempts = 0 /\ j.manual = 0
  <2>1. /\ 0 \in 0..MaxGen /\ 0 \in 0..MaxAttempts /\ 0 \in 0..MaxManualRetries
        /\ 0 \in 0..ClaimTicks /\ 0 \in 0..LeaseTicks /\ 0 \in 0..StageTicks /\ 0 \in Nat
    BY BudgetFacts, LimitsAssumption, TimeAssumption
  <2> QED BY <2>1 DEF NoJob, JobRecords, JobStates
<1>2. /\ job' = [job EXCEPT ![x] = j]
      /\ entry[x] = "awaiting_upload" /\ entry' = [entry EXCEPT ![x] = "uploaded"]
      /\ asset' = [asset EXCEPT ![x] = "uploaded"]
      /\ UNCHANGED <<member, racing, restores, slot, raw, out>>
  BY DEF CompleteUploadEntry, memberVars
<1> HIDE DEF j
<1>3. TypeOK' /\ OnlyChanges(x)
  BY <1>1, <1>2, Unfold DEF TypeOK, OnlyChanges, EntryStates, AssetStates
<1>4. entry[x] = "awaiting_upload" /\ entry'[x] = "uploaded" /\ job'[x] = j
      /\ UNCHANGED <<member, restores, slot, raw, out>>
  BY <1>2, Unfold DEF TypeOK
<1>5. job[x].gen = 0 /\ job[x].state = "none"
  BY <1>4, Unfold DEF Agrees, OutputsSettled
<1>6. Budgeted(x)'
  <2>1. MaxAttempts * (0 + restores[Owner[x]]) \in Nat
    BY Unfold, LimitsAssumption, ProductGrows
  <2> QED BY <2>1, <1>1, <1>4 DEF Budgeted
<1>7. OutputsSettled(x)'
  BY <1>1, <1>4, <1>5, Unfold DEF OutputsSettled
<1>8. Agrees(x)' /\ RunsProperly(x)' /\ RawKept(x)'
  BY <1>1, <1>4, Unfold DEF Agrees, RunsProperly, RawKept
<1> QED BY <1>3, <1>6, <1>7, <1>8, OneEntryStep DEF Good

(* An owner cancels, or temporary cleanup does: the job cannot go on. *)
LEMMA CancelKeeps ==
  ASSUME IInv, NEW x \in Entries, CancelUploadEntry(x) PROVE IInv'
<1> DEFINE j == Cancel(job[x])
<1>1. /\ j \in JobRecords /\ j.gen = job[x].gen /\ j.attempts = job[x].attempts
      /\ j.manual = job[x].manual /\ j.state \in Terminal \cup {"none"}
      /\ j.state = (IF job[x].state \in Terminal \cup {"none"} THEN job[x].state ELSE "canceled")
  BY Unfold, CancelFields DEF Terminal
<1>2. /\ job' = [job EXCEPT ![x] = j]
      /\ Cancelable(x) /\ entry' = [entry EXCEPT ![x] = "canceled"]
      /\ asset' = [asset EXCEPT ![x] = "deletion_pending"]
      /\ raw' = [raw EXCEPT ![x] = {"now", "recheck"}]
      /\ UNCHANGED <<member, racing, restores, slot, out>>
  BY DEF CancelUploadEntry, memberVars
<1> HIDE DEF j
<1>3. TypeOK' /\ OnlyChanges(x)
  BY <1>1, <1>2, Unfold DEF TypeOK, OnlyChanges, EntryStates, AssetStates
<1>4. Cancelable(x) /\ entry'[x] = "canceled" /\ job'[x] = j /\ raw'[x] = {"now", "recheck"}
      /\ UNCHANGED <<member, restores, slot, out>>
  BY <1>2, Unfold DEF TypeOK
<1>5. Agrees(x)'
  BY <1>1, <1>4, Unfold DEF Agrees, Cancelable, Terminal
<1>6. Budgeted(x)' /\ RunsProperly(x)' /\ RawKept(x)'
  BY <1>1, <1>4, Unfold DEF Budgeted, RunsProperly, RawKept, Terminal
<1>7. OutputsSettled(x)'
  BY <1>1, <1>4, Unfold DEF OutputsSettled, Cancelable, Terminal
<1> QED BY <1>3, <1>5, <1>6, <1>7, OneEntryStep DEF Good

LEMMA RetryKeeps ==
  ASSUME IInv, NEW x \in Entries, RetryUploadEntry(x) PROVE IInv'
<1> DEFINE j == RetriedByOwner(job[x])
<1>1. /\ j \in JobRecords /\ j.state = "queued" /\ j.gen = job[x].gen /\ j.attempts = 0
      /\ j.manual = job[x].manual + 1
  BY Unfold, RetriedByOwnerFields DEF RetryUploadEntry, RetriesLeft
<1>2. /\ job' = [job EXCEPT ![x] = j]
      /\ entry[x] = "failed" /\ entry' = [entry EXCEPT ![x] = "uploaded"]
      /\ UNCHANGED <<member, racing, restores, asset, slot, raw, out>>
  BY DEF RetryUploadEntry, Retryable, memberVars
<1> HIDE DEF j
<1>3. TypeOK' /\ OnlyChanges(x)
  BY <1>1, <1>2, Unfold DEF TypeOK, OnlyChanges, EntryStates
<1>4. entry[x] = "failed" /\ entry'[x] = "uploaded" /\ job'[x] = j
      /\ UNCHANGED <<member, restores, slot, raw, out>>
  BY <1>2, Unfold DEF TypeOK
<1>5. Budgeted(x)'
  <2>1. /\ job[x].gen \in Nat /\ job[x].manual \in Nat /\ job[x].attempts \in Nat
        /\ job[x].attempts <= MaxAttempts
    BY Unfold, Numbers
  <2>2. job[x].gen <= MaxAttempts * (job[x].manual + restores[Owner[x]]) + job[x].attempts
    BY Unfold DEF Budgeted
  <2>3. restores[Owner[x]] \in Nat
    BY Unfold
  <2>4. /\ job[x].gen <= MaxAttempts * ((job[x].manual + 1) + restores[Owner[x]])
        /\ MaxAttempts * ((job[x].manual + 1) + restores[Owner[x]]) \in Nat
    BY <2>1, <2>2, <2>3, BudgetKept
  <2> QED BY <1>1, <1>4, <2>4, <2>1 DEF Budgeted
<1>6. OutputsSettled(x)'
  BY <1>1, <1>4, Unfold DEF OutputsSettled
<1>7. Agrees(x)' /\ RunsProperly(x)' /\ RawKept(x)'
  BY <1>1, <1>4, Unfold DEF Agrees, RunsProperly, RawKept
<1> QED BY <1>3, <1>5, <1>6, <1>7, OneEntryStep DEF Good

(* A step that moves the countdowns of one job and nothing else. *)
LEMMA JobTouched ==
  ASSUME IInv, NEW x \in Entries, NEW j \in JobRecords,
         j.state = job[x].state, j.gen = job[x].gen, j.attempts = job[x].attempts,
         j.manual = job[x].manual, j.state = "running" => j.lease <= j.stage,
         job' = [job EXCEPT ![x] = j],
         UNCHANGED <<member, racing, restores, entry, asset, slot, raw, out>>
  PROVE  IInv'
<1>1. TypeOK' /\ OnlyChanges(x)
  BY Unfold DEF TypeOK, OnlyChanges
<1>2. job'[x] = j
  BY Unfold DEF TypeOK
<1>3. Agrees(x)' /\ RawKept(x)' /\ OutputsSettled(x)'
  BY <1>2, Unfold DEF Agrees, RawKept, OutputsSettled
<1>4. Budgeted(x)' /\ RunsProperly(x)'
  BY <1>2, Unfold DEF Budgeted, RunsProperly
<1> QED BY <1>1, <1>3, <1>4, OneEntryStep DEF Good

LEMMA IssueKeeps ==
  ASSUME IInv, NEW x \in Entries, IssueJobClaim(x) PROVE IInv'
<1> DEFINE j == [job[x] EXCEPT !.claim = ClaimTicks]
<1>1. ClaimTicks \in 0..ClaimTicks /\ 0 \in 0..LeaseTicks
  BY TimeAssumption
<1>2. /\ j \in JobRecords /\ j.state = job[x].state /\ j.gen = job[x].gen
      /\ j.attempts = job[x].attempts /\ j.manual = job[x].manual
  <2>1. job[x] \in JobRecords
    BY Unfold
  <2> QED BY <1>1, <2>1 DEF JobRecords
<1>3. /\ job[x].state = "queued" /\ job' = [job EXCEPT ![x] = j]
      /\ UNCHANGED <<member, racing, restores, entry, asset, slot, raw, out>>
  BY DEF IssueJobClaim, memberVars
<1> HIDE DEF j
<1> QED BY <1>2, <1>3, JobTouched

LEMMA ReleaseKeeps ==
  ASSUME IInv, NEW x \in Entries, ReleaseJobClaim(x) PROVE IInv'
<1> DEFINE j == [job[x] EXCEPT !.claim = 0]
<1>1. 0 \in 0..ClaimTicks /\ 0 \in 0..LeaseTicks
  BY TimeAssumption
<1>2. /\ j \in JobRecords /\ j.state = job[x].state /\ j.gen = job[x].gen
      /\ j.attempts = job[x].attempts /\ j.manual = job[x].manual
  <2>1. job[x] \in JobRecords
    BY Unfold
  <2> QED BY <1>1, <2>1 DEF JobRecords
<1>3. /\ job[x].state = "queued" /\ job' = [job EXCEPT ![x] = j]
      /\ UNCHANGED <<member, racing, restores, entry, asset, slot, raw, out>>
  BY DEF ReleaseJobClaim, memberVars
<1> HIDE DEF j
<1> QED BY <1>2, <1>3, JobTouched

LEMMA HeartbeatKeeps ==
  ASSUME IInv, NEW x \in Entries, NEW g \in Gens, HeartbeatJob(x, g) PROVE IInv'
<1> DEFINE l == RenewedLease(job[x])
           j == [job[x] EXCEPT !.lease = l]
<1>1. l \in 0..LeaseTicks /\ l <= job[x].stage /\ 0 \in 0..ClaimTicks
  <2>1. job[x].stage \in Nat
    BY Unfold, Numbers
  <2> QED BY <2>1, TimeAssumption DEF RenewedLease, Least
<1>2. /\ j \in JobRecords /\ j.state = job[x].state /\ j.gen = job[x].gen
      /\ j.attempts = job[x].attempts /\ j.manual = job[x].manual
      /\ j.lease = l /\ j.stage = job[x].stage
  <2>1. job[x] \in JobRecords
    BY Unfold
  <2> QED BY <1>1, <2>1 DEF JobRecords
<1>3. /\ job' = [job EXCEPT ![x] = j]
      /\ UNCHANGED <<member, racing, restores, entry, asset, slot, raw, out>>
  BY DEF HeartbeatJob, memberVars
<1>4. j.lease <= j.stage
  BY <1>1, <1>2
<1> HIDE DEF j, l
<1> QED BY <1>2, <1>3, <1>4, JobTouched

(* An accepted claim starts a generation the budget has room for. *)
LEMMA ClaimKeeps ==
  ASSUME IInv, NEW x \in Entries, ClaimJob(x) PROVE IInv'
<1> DEFINE j == ClaimedJob(job[x])
<1>0. /\ job[x].gen \in Nat /\ job[x].manual \in Nat /\ job[x].attempts \in Nat
      /\ job[x].attempts <= MaxAttempts /\ job[x].attempts < MaxAttempts
      /\ restores[Owner[x]] \in Nat
      /\ job[x].gen <= MaxAttempts * (job[x].manual + restores[Owner[x]]) + job[x].attempts
  BY Unfold, Numbers DEF Budgeted, ClaimJob, AttemptsLeft
<1>1. job[x].gen < MaxGen
  <2>1. restores[Owner[x]] \in 0..MaxRestores
    BY Unfold, LimitsAssumption
  <2> QED BY <1>0, <2>1, Unfold, GenWithinBudget
<1>2. /\ j \in JobRecords /\ j.state = "running" /\ j.gen = job[x].gen + 1
      /\ j.attempts = job[x].attempts + 1 /\ j.manual = job[x].manual
      /\ j.lease = LeaseTicks /\ j.stage = StageTicks
  BY <1>0, <1>1, Unfold, ClaimedFields
<1>3. /\ job[x].state = "queued" /\ job' = [job EXCEPT ![x] = j]
      /\ member[Owner[x]] = "active"
      /\ entry[x] \in {"uploaded", "validating"} /\ entry' = [entry EXCEPT ![x] = "validating"]
      /\ asset' = [asset EXCEPT ![x] = "validating"]
      /\ UNCHANGED <<member, racing, restores, slot, raw, out>>
  BY DEF ClaimJob, TargetRunnable, memberVars
<1> HIDE DEF j
<1>4. TypeOK' /\ OnlyChanges(x)
  BY <1>2, <1>3, Unfold DEF TypeOK, OnlyChanges, EntryStates, AssetStates
<1>5. entry'[x] = "validating" /\ job'[x] = j
  BY <1>3, Unfold DEF TypeOK
<1>6. Agrees(x)' /\ RawKept(x)'
  BY <1>2, <1>3, <1>5, Unfold DEF Agrees, RawKept
<1>7. Budgeted(x)'
  BY <1>0, <1>2, <1>3, <1>5, BudgetKept DEF Budgeted
<1>8. RunsProperly(x)'
  BY <1>0, <1>2, <1>3, <1>5, TimeAssumption DEF RunsProperly
<1>9. OutputsSettled(x)'
  <2>1. ASSUME NEW g \in Gens
        PROVE  /\ out[x][g] # "original"
               /\ out[x][g] \in {"fenced", "discarded", "unrecorded"} => g <= job[x].gen
    BY <1>3, Unfold DEF OutputsSettled
  <2>2. Gens \subseteq Nat
    BY BudgetFacts
  <2> QED BY <2>1, <2>2, <1>0, <1>2, <1>3, <1>5 DEF OutputsSettled
<1> QED BY <1>4, <1>6, <1>7, <1>8, <1>9, OneEntryStep DEF Good

(* A step that writes where one output stands, without publishing it. *)
LEMMA OutTouched ==
  ASSUME IInv, NEW x \in Entries, NEW g \in Gens, NEW s \in OutStates \ {"original"},
         out[x][g] # "original",
         s \in {"fenced", "discarded", "unrecorded"} =>
           g <= job[x].gen /\ (g = job[x].gen => job[x].state # "running"),
         out' = [out EXCEPT ![x][g] = s],
         UNCHANGED <<member, racing, restores, entry, asset, slot, raw, job>>
  PROVE  IInv'
<1>1. TypeOK' /\ OnlyChanges(x)
  BY Unfold DEF TypeOK, OnlyChanges
<1>2. out'[x] = [out[x] EXCEPT ![g] = s]
  BY Unfold DEF TypeOK
<1>3. \A h \in Gens : out'[x][h] = IF h = g THEN s ELSE out[x][h]
  BY <1>2, Unfold
<1>4. OutputsSettled(x)'
  BY <1>3, Unfold DEF OutputsSettled
<1>5. Agrees(x)' /\ Budgeted(x)' /\ RunsProperly(x)' /\ RawKept(x)'
  BY Unfold DEF Agrees, Budgeted, RunsProperly, RawKept
<1> QED BY <1>1, <1>4, <1>5, OneEntryStep DEF Good

LEMMA OutputSteps ==
  ASSUME IInv, NEW x \in Entries, NEW g \in Gens,
         PutOutput(x, g) \/ RejectOutput(x, g) \/ RepeatReady(x, g)
           \/ FenceReady(x, g) \/ DiscardJobOutput(x, g)
  PROVE  IInv'
<1>0. {"stored", "rejected", "unrecorded", "fenced", "discarded"} \subseteq OutStates \ {"original"}
  BY DEF OutStates
<1>1. CASE PutOutput(x, g)
  BY <1>0, <1>1, OutTouched DEF PutOutput, memberVars
<1>2. CASE RejectOutput(x, g)
  BY <1>0, <1>2, OutTouched DEF RejectOutput, memberVars
<1>3. CASE RepeatReady(x, g)
  <2>1. g <= job[x].gen /\ job[x].state # "running" /\ out[x][g] # "original"
    BY <1>3 DEF RepeatReady, AlreadyApplied, HasOutput, Claimed
  <2> QED BY <1>0, <1>3, <2>1, OutTouched DEF RepeatReady, memberVars
<1>4. CASE FenceReady(x, g)
  <2>1. out[x][g] # "original"
    BY <1>4, Unfold DEF FenceReady, AlreadyApplied, OutputsSettled, Agrees
  <2>2. g <= job[x].gen /\ (g = job[x].gen => job[x].state # "running")
    BY <1>4, Unfold DEF FenceReady, HasOutput, Claimed, Applicable, Current, Agrees
  <2> QED BY <1>0, <1>4, <2>1, <2>2, OutTouched DEF FenceReady, memberVars
<1>5. CASE DiscardJobOutput(x, g)
  <2>1. g <= job[x].gen /\ (g = job[x].gen => job[x].state # "running")
    BY <1>5, Unfold DEF DiscardJobOutput, OutputsSettled
  <2> QED BY <1>0, <1>5, <2>1, OutTouched DEF DiscardJobOutput, memberVars
<1> QED BY <1>1, <1>2, <1>3, <1>4, <1>5

(* private.retry_or_fail on one running job, by a callback or by expiry. *)
LEMMA RetriedGood ==
  ASSUME IInv, NEW x \in Entries, job[x].state = "running",
         job'[x] = RetriedJob(job[x]), entry'[x] = RetriedEntry(x),
         \A g \in Gens : \/ out'[x][g] = out[x][g]
                         \/ out[x][g] # "original" /\ out'[x][g] = "ended",
         UNCHANGED <<member, restores, slot, raw>>
  PROVE  Good(x)'
<1> DEFINE j == RetriedJob(job[x])
<1>1. job[x].attempts # 0 /\ entry[x] = "validating"
  BY Unfold DEF RunsProperly, Agrees
<1>2. /\ j.gen = job[x].gen /\ j.attempts = job[x].attempts /\ j.manual = job[x].manual
      /\ j.state = IF job[x].attempts >= MaxAttempts THEN "failed" ELSE "retry_wait"
  BY <1>1, Unfold, RetriedFields
<1>3. job'[x] = j
  OBVIOUS
<1> HIDE DEF j
<1>4. entry'[x] = IF job[x].attempts >= MaxAttempts THEN "failed" ELSE "uploaded"
  BY <1>1 DEF RetriedEntry
<1>5. Agrees(x)' /\ RawKept(x)'
  BY <1>1, <1>2, <1>3, <1>4, Unfold DEF Agrees, RawKept, Terminal
<1>6. Budgeted(x)' /\ RunsProperly(x)'
  BY <1>2, <1>3, Unfold DEF Budgeted, RunsProperly
<1>7. OutputsSettled(x)'
  BY <1>1, <1>2, <1>3, <1>4, Unfold DEF OutputsSettled
<1> QED BY <1>5, <1>6, <1>7 DEF Good

(* The rows private.retry_or_fail writes are rows. *)
LEMMA RetriedTypes ==
  ASSUME IInv, NEW x \in Entries, job[x].state = "running"
  PROVE  /\ RetriedJob(job[x]) \in JobRecords
         /\ RetriedEntry(x) \in EntryStates
         /\ RetriedAsset(x) \in AssetStates
<1>1. RetriedJob(job[x]) \in JobRecords
  BY Unfold, RetriedFields DEF RunsProperly
<1>2. RetriedEntry(x) \in EntryStates /\ RetriedAsset(x) \in AssetStates
  BY Unfold DEF RetriedEntry, RetriedAsset, EntryStates, AssetStates
<1> QED BY <1>1, <1>2

LEMMA FailKeeps ==
  ASSUME IInv, NEW x \in Entries, NEW g \in Gens, FailJobAttempt(x, g) PROVE IInv'
<1> DEFINE j == RetriedJob(job[x])
           s == RetriedEntry(x)
           a == RetriedAsset(x)
<1>1. /\ job[x].state = "running" /\ out[x][g] = "none"
      /\ job' = [job EXCEPT ![x] = j] /\ entry' = [entry EXCEPT ![x] = s]
      /\ asset' = [asset EXCEPT ![x] = a] /\ out' = [out EXCEPT ![x][g] = "ended"]
      /\ UNCHANGED <<member, racing, restores, slot, raw>>
  BY DEF FailJobAttempt, Current, memberVars
<1>2. j \in JobRecords /\ s \in EntryStates /\ a \in AssetStates
  BY <1>1, RetriedTypes
<1>3. job'[x] = j /\ entry'[x] = s
  BY <1>1, Unfold DEF TypeOK
<1>4. \A h \in Gens : \/ out'[x][h] = out[x][h]
                      \/ out[x][h] # "original" /\ out'[x][h] = "ended"
  BY <1>1, Unfold DEF TypeOK
<1>5. Good(x)'
  BY <1>1, <1>3, <1>4, RetriedGood
<1> HIDE DEF j, s, a
<1>6. TypeOK' /\ OnlyChanges(x)
  BY <1>1, <1>2, Unfold DEF TypeOK, OnlyChanges, OutStates
<1> QED BY <1>5, <1>6, OneEntryStep

(* The output of the running generation becomes the original. *)
LEMMA ApplyKeeps ==
  ASSUME IInv, NEW x \in Entries, NEW g \in Gens, ApplyReady(x, g) PROVE IInv'
<1> DEFINE j == Parked(job[x], "succeeded")
<1>1. /\ job[x].state = "running" /\ job[x].gen = g /\ entry[x] = "validating"
      /\ job' = [job EXCEPT ![x] = j] /\ entry' = [entry EXCEPT ![x] = "ready"]
      /\ asset' = [asset EXCEPT ![x] = "ready"] /\ raw' = [raw EXCEPT ![x] = {"now", "recheck"}]
      /\ out' = [out EXCEPT ![x][g] = "original"]
      /\ UNCHANGED <<member, racing, restores, slot>>
  BY DEF ApplyReady, Applicable, Current, ConsumedRaw, memberVars
<1>2. /\ j \in JobRecords /\ j.state = "succeeded" /\ j.gen = job[x].gen
      /\ j.attempts = job[x].attempts /\ j.manual = job[x].manual
  <2>1. "succeeded" \in JobStates
    BY DEF JobStates
  <2> QED BY <2>1, Unfold, ParkedFields
<1> HIDE DEF j
<1>3. TypeOK' /\ OnlyChanges(x)
  BY <1>1, <1>2, Unfold DEF TypeOK, OnlyChanges, EntryStates, AssetStates, OutStates
<1>4. job'[x] = j /\ entry'[x] = "ready" /\ raw'[x] = {"now", "recheck"}
  BY <1>1, Unfold DEF TypeOK
<1>5. \A h \in Gens : out'[x][h] = IF h = g THEN "original" ELSE out[x][h]
  BY <1>1, Unfold DEF TypeOK
<1>6. Agrees(x)' /\ RawKept(x)'
  BY <1>1, <1>2, <1>4, Unfold DEF Agrees, RawKept
<1>7. Budgeted(x)' /\ RunsProperly(x)'
  BY <1>1, <1>2, <1>4, Unfold DEF Budgeted, RunsProperly
<1>8. OutputsSettled(x)'
  BY <1>1, <1>2, <1>4, <1>5, Unfold DEF OutputsSettled
<1> QED BY <1>3, <1>6, <1>7, <1>8, OneEntryStep DEF Good

LEMMA RejectedKeeps ==
  ASSUME IInv, NEW x \in Entries, NEW g \in Gens, CompleteRejected(x, g) PROVE IInv'
<1> DEFINE j == Parked(job[x], "failed")
<1>1. /\ job[x].state = "running" /\ job[x].gen = g /\ entry[x] = "validating"
      /\ out[x][g] = "none"
      /\ job' = [job EXCEPT ![x] = j] /\ entry' = [entry EXCEPT ![x] = "rejected"]
      /\ asset' = [asset EXCEPT ![x] = "rejected"] /\ raw' = [raw EXCEPT ![x] = {"now", "recheck"}]
      /\ out' = [out EXCEPT ![x][g] = "ended"]
      /\ UNCHANGED <<member, racing, restores, slot>>
  BY DEF CompleteRejected, Applicable, Current, ConsumedRaw, memberVars
<1>2. /\ j \in JobRecords /\ j.state = "failed" /\ j.gen = job[x].gen
      /\ j.attempts = job[x].attempts /\ j.manual = job[x].manual
  <2>1. "failed" \in JobStates
    BY DEF JobStates
  <2> QED BY <2>1, Unfold, ParkedFields
<1> HIDE DEF j
<1>3. TypeOK' /\ OnlyChanges(x)
  BY <1>1, <1>2, Unfold DEF TypeOK, OnlyChanges, EntryStates, AssetStates, OutStates
<1>4. job'[x] = j /\ entry'[x] = "rejected" /\ raw'[x] = {"now", "recheck"}
  BY <1>1, Unfold DEF TypeOK
<1>5. \A h \in Gens : out'[x][h] = IF h = g THEN "ended" ELSE out[x][h]
  BY <1>1, Unfold DEF TypeOK
<1>6. Agrees(x)' /\ RawKept(x)'
  BY <1>1, <1>2, <1>4, Unfold DEF Agrees, RawKept
<1>7. Budgeted(x)' /\ RunsProperly(x)'
  BY <1>1, <1>2, <1>4, Unfold DEF Budgeted, RunsProperly
<1>8. OutputsSettled(x)'
  BY <1>1, <1>2, <1>4, <1>5, Unfold DEF OutputsSettled
<1> QED BY <1>3, <1>6, <1>7, <1>8, OneEntryStep DEF Good

(* Time may close a slot; nothing that is settled depends on it being open. *)
LEMMA SlotKeeps ==
  ASSUME IInv, NEW x \in Entries, CloseSlot(x) \/ ExpireAsset(x) PROVE IInv'
<1>1. /\ UNCHANGED <<member, racing, restores, entry, asset, raw, job, out>>
      /\ \/ slot' = [slot EXCEPT ![x] = "closed"]
         \/ slot' = [slot EXCEPT ![x] = "expired"]
  BY DEF CloseSlot, ExpireAsset, memberVars
<1>2. TypeOK' /\ OnlyChanges(x) /\ slot'[x] # "open"
  BY <1>1, Unfold DEF TypeOK, OnlyChanges
<1>3. Good(x)'
  BY <1>1, <1>2, Unfold DEF Good, Agrees, Budgeted, RunsProperly, OutputsSettled, RawKept
<1> QED BY <1>2, <1>3, OneEntryStep

(***************************************************************************)
(* Steps that touch many entries                                           *)
(***************************************************************************)

LEMMA CreateKeeps ==
  ASSUME IInv, NEW m \in Members, NEW S \in SUBSET Entries, CreateUploadBatch(m, S)
  PROVE  IInv'
<1>1. /\ \A e \in S : entry[e] = "absent"
      /\ entry' = [e \in Entries |-> IF e \in S THEN "awaiting_upload" ELSE entry[e]]
      /\ asset' = [e \in Entries |-> IF e \in S THEN "awaiting_upload" ELSE asset[e]]
      /\ slot' = [e \in Entries |-> IF e \in S THEN "open" ELSE slot[e]]
      /\ UNCHANGED <<member, racing, restores, raw, job, out>>
  BY DEF CreateUploadBatch, memberVars
<1>2. TypeOK'
  BY <1>1 DEF IInv, TypeOK, EntryStates, AssetStates
<1>3. ASSUME NEW e \in Entries PROVE Good(e)'
  <2>1. CASE e \in S
    <3>1. entry[e] = "absent" /\ entry'[e] = "awaiting_upload"
      BY <1>1, <2>1
    <3> QED BY <1>1, <3>1, Unfold
            DEF Good, Agrees, Budgeted, RunsProperly, OutputsSettled, RawKept
  <2>2. CASE e \notin S
    BY <1>1, <2>2, Frame DEF IInv
  <2> QED BY <2>1, <2>2
<1> QED BY <1>2, <1>3 DEF IInv

LEMMA ReconcileKeeps ==
  ASSUME IInv, NEW S \in SUBSET Entries, ReconcileJobs(S) PROVE IInv'
<1> DEFINE again(e) == [job[e] EXCEPT !.state = "queued"]
<1>1. /\ \A e \in S : job[e].state = "running"
      /\ job' = [e \in Entries |-> IF e \in S THEN RetriedJob(job[e])
                                   ELSE IF e \in Due THEN again(e) ELSE job[e]]
      /\ entry' = [e \in Entries |-> IF e \in S THEN RetriedEntry(e) ELSE entry[e]]
      /\ asset' = [e \in Entries |-> IF e \in S THEN RetriedAsset(e) ELSE asset[e]]
      /\ UNCHANGED <<member, racing, restores, slot, raw, out>>
  BY DEF ReconcileJobs, Expired, Running, memberVars
<1>2. ASSUME NEW e \in Entries
      PROVE  /\ again(e) \in JobRecords /\ again(e).state = "queued"
             /\ again(e).gen = job[e].gen /\ again(e).attempts = job[e].attempts
             /\ again(e).manual = job[e].manual
  <2>1. job[e] \in JobRecords
    BY Unfold
  <2> QED BY <2>1 DEF JobRecords, JobStates
<1> HIDE DEF again
<1>3. TypeOK'
  <2>1. job' \in [Entries -> JobRecords]
    BY <1>1, <1>2, RetriedTypes DEF IInv, TypeOK
  <2>2. entry' \in [Entries -> EntryStates] /\ asset' \in [Entries -> AssetStates]
    BY <1>1, RetriedTypes DEF IInv, TypeOK
  <2> QED BY <1>1, <2>1, <2>2 DEF IInv, TypeOK
<1>4. ASSUME NEW e \in Entries PROVE Good(e)'
  <2>1. CASE e \in S
    <3>1. job[e].state = "running" /\ job'[e] = RetriedJob(job[e]) /\ entry'[e] = RetriedEntry(e)
      BY <1>1, <2>1
    <3>2. \A g \in Gens : out'[e][g] = out[e][g]
      BY <1>1
    <3> QED BY <1>1, <3>1, <3>2, RetriedGood
  <2>2. CASE e \notin S /\ e \in Due
    <3>1. job[e].state = "retry_wait" /\ job'[e] = again(e) /\ entry'[e] = entry[e]
      BY <1>1, <2>2 DEF Due
    <3>2. Agrees(e)' /\ RawKept(e)'
      BY <1>1, <1>2, <3>1, Unfold DEF Agrees, RawKept, Terminal
    <3>3. Budgeted(e)' /\ RunsProperly(e)' /\ OutputsSettled(e)'
      BY <1>1, <1>2, <3>1, Unfold DEF Budgeted, RunsProperly, OutputsSettled
    <3> QED BY <3>2, <3>3 DEF Good
  <2>3. CASE e \notin S /\ e \notin Due
    BY <1>1, <2>3, Frame DEF IInv
  <2> QED BY <2>1, <2>2, <2>3
<1> QED BY <1>3, <1>4 DEF IInv

LEMMA CleanupKeeps ==
  ASSUME IInv, NEW S \in SUBSET Entries, TemporaryCleanup(S) PROVE IInv'
<1>1. /\ \A e \in S : Abandoned(e)
      /\ entry' = [e \in Entries |-> IF e \in S THEN "canceled" ELSE entry[e]]
      /\ asset' = [e \in Entries |-> IF e \in S THEN "deletion_pending" ELSE asset[e]]
      /\ job' = [e \in Entries |-> IF e \in S THEN Cancel(job[e]) ELSE job[e]]
      /\ raw' = [e \in Entries |-> IF e \in S THEN raw[e] \cup {"now"} ELSE raw[e]]
      /\ UNCHANGED <<member, racing, restores, slot, out>>
  BY DEF TemporaryCleanup, memberVars
<1>2. TypeOK'
  <2>1. job' \in [Entries -> JobRecords]
    BY <1>1, CancelFields DEF IInv, TypeOK
  <2>2. raw' \in [Entries -> SUBSET {"now", "recheck"}]
    BY <1>1 DEF IInv, TypeOK
  <2> QED BY <1>1, <2>1, <2>2 DEF IInv, TypeOK, EntryStates, AssetStates
<1>3. ASSUME NEW e \in Entries PROVE Good(e)'
  <2>1. CASE e \in S
    <3>1. Abandoned(e) /\ entry'[e] = "canceled" /\ job'[e] = Cancel(job[e])
      BY <1>1, <2>1
    <3>2. /\ Cancel(job[e]).gen = job[e].gen /\ Cancel(job[e]).attempts = job[e].attempts
          /\ Cancel(job[e]).manual = job[e].manual
          /\ Cancel(job[e]).state = IF job[e].state \in Terminal \cup {"none"}
                                    THEN job[e].state ELSE "canceled"
      BY Unfold, CancelFields
    <3>3. Agrees(e)' /\ RawKept(e)' /\ RunsProperly(e)'
      BY <1>1, <3>1, <3>2, Unfold DEF Agrees, RawKept, RunsProperly, Abandoned, Terminal
    <3>4. Budgeted(e)' /\ OutputsSettled(e)'
      BY <1>1, <3>1, <3>2, Unfold DEF Budgeted, OutputsSettled, Abandoned, Terminal
    <3> QED BY <3>3, <3>4 DEF Good
  <2>2. CASE e \notin S
    BY <1>1, <2>2, Frame DEF IInv
  <2> QED BY <2>1, <2>2
<1> QED BY <1>2, <1>3 DEF IInv

(* Jobs stop with their owner's membership. *)
LEMMA SuspendKeeps ==
  ASSUME IInv, NEW m \in Members, SuspendMember(m) PROVE IInv'
<1>1. /\ member' = [member EXCEPT ![m] = "suspended"] /\ racing' = [racing EXCEPT ![m] = TRUE]
      /\ job' = [e \in Entries |-> IF Owner[e] = m THEN Cancel(job[e]) ELSE job[e]]
      /\ entry' = [e \in Entries |-> IF Owner[e] = m /\ entry[e] = "validating"
                                     THEN "uploaded" ELSE entry[e]]
      /\ UNCHANGED <<restores, asset, slot, raw, out>>
  BY DEF SuspendMember
<1>2. TypeOK'
  <2>1. job' \in [Entries -> JobRecords]
    BY <1>1, CancelFields DEF IInv, TypeOK
  <2> QED BY <1>1, <2>1 DEF IInv, TypeOK, EntryStates, MemberStates
<1>3. ASSUME NEW e \in Entries PROVE Good(e)'
  <2>1. CASE Owner[e] = m
    <3>1. /\ job'[e] = Cancel(job[e]) /\ member'[Owner[e]] = "suspended"
          /\ entry'[e] = IF entry[e] = "validating" THEN "uploaded" ELSE entry[e]
      BY <1>1, <2>1 DEF IInv, TypeOK
    <3>2. /\ Cancel(job[e]).gen = job[e].gen /\ Cancel(job[e]).attempts = job[e].attempts
          /\ Cancel(job[e]).manual = job[e].manual
          /\ Cancel(job[e]).state = IF job[e].state \in Terminal \cup {"none"}
                                    THEN job[e].state ELSE "canceled"
      BY Unfold, CancelFields
    <3>3. Agrees(e)' /\ RawKept(e)' /\ RunsProperly(e)'
      BY <1>1, <3>1, <3>2, Unfold DEF Agrees, RawKept, RunsProperly, Terminal, JobRecords, JobStates
    <3>4. Budgeted(e)' /\ OutputsSettled(e)'
      BY <1>1, <3>1, <3>2, Unfold DEF Budgeted, OutputsSettled, Terminal
    <3> QED BY <3>3, <3>4 DEF Good
  <2>2. CASE Owner[e] # m
    BY <1>1, <2>2, Frame DEF IInv, TypeOK
  <2> QED BY <2>1, <2>2
<1> QED BY <1>2, <1>3 DEF IInv

(* A restored membership buys a new budget for the jobs it resumes. *)
LEMMA RestoreKeeps ==
  ASSUME IInv, NEW m \in Members, RestoreMember(m) PROVE IInv'
<1>1. /\ member' = [member EXCEPT ![m] = "active"]
      /\ restores[m] < MaxRestores /\ restores' = [restores EXCEPT ![m] = restores[m] + 1]
      /\ job' = [e \in Entries |-> IF Owner[e] = m /\ Resumable(e)
                                   THEN Requeued(job[e]) ELSE job[e]]
      /\ UNCHANGED <<racing, entry, asset, slot, raw, out>>
  BY DEF RestoreMember
<1>2. TypeOK'
  <2>1. job' \in [Entries -> JobRecords]
    BY <1>1, RequeuedFields DEF IInv, TypeOK
  <2>2. restores[m] + 1 \in 0..MaxRestores
    BY <1>1, LimitsAssumption DEF IInv, TypeOK
  <2> QED BY <1>1, <2>1, <2>2 DEF IInv, TypeOK, MemberStates
<1>3. ASSUME NEW e \in Entries PROVE Good(e)'
  <2>1. CASE Owner[e] = m
    <3> DEFINE r == restores[Owner[e]]
    <3>1. /\ member'[Owner[e]] = "active" /\ restores'[Owner[e]] = r + 1
          /\ job'[e] = IF Resumable(e) THEN Requeued(job[e]) ELSE job[e]
      BY <1>1, <2>1 DEF IInv, TypeOK
    <3>2. /\ job[e].gen \in Nat /\ job[e].manual \in Nat /\ job[e].attempts \in Nat
          /\ job[e].attempts <= MaxAttempts /\ r \in Nat
          /\ job[e].gen <= MaxAttempts * (job[e].manual + r) + job[e].attempts
      BY Unfold, Numbers DEF Budgeted
    <3>3. /\ job[e].gen <= MaxAttempts * (job[e].manual + (r + 1))
          /\ MaxAttempts * (job[e].manual + (r + 1)) \in Nat
      <4>1. MaxAttempts * (job[e].manual + (r + 1)) \in Nat
        BY <3>2, LimitsAssumption, ProductGrows
      <4> QED BY <3>2, <4>1, BudgetKept
    <3>4. CASE Resumable(e)
      <4>1. /\ job'[e].state = "queued" /\ job'[e].gen = job[e].gen /\ job'[e].attempts = 0
            /\ job'[e].manual = job[e].manual
        BY <3>1, <3>4, Unfold, RequeuedFields
      <4>2. Budgeted(e)'
        BY <3>1, <3>2, <3>3, <4>1 DEF Budgeted
      <4>3. Agrees(e)' /\ RawKept(e)' /\ RunsProperly(e)' /\ OutputsSettled(e)'
        BY <1>1, <3>4, <4>1, Unfold
           DEF Agrees, RawKept, RunsProperly, OutputsSettled, Resumable
      <4> QED BY <4>2, <4>3 DEF Good
    <3>5. CASE ~ Resumable(e)
      <4>1. job'[e] = job[e] /\ entry'[e] = entry[e]
        BY <1>1, <3>1, <3>5
      <4>2. Budgeted(e)'
        BY <3>1, <3>2, <3>3, <4>1 DEF Budgeted
      <4>3. Agrees(e)' /\ RawKept(e)' /\ RunsProperly(e)' /\ OutputsSettled(e)'
        BY <1>1, <3>1, <3>5, <4>1, Unfold
           DEF Agrees, RawKept, RunsProperly, OutputsSettled, Resumable
      <4> QED BY <4>2, <4>3 DEF Good
    <3> QED BY <3>4, <3>5
  <2>2. CASE Owner[e] # m
    BY <1>1, <2>2, Frame DEF IInv, TypeOK
  <2> QED BY <2>1, <2>2
<1> QED BY <1>2, <1>3 DEF IInv

(* Account deletion stops the jobs and queues every object, published or not. *)
LEMMA DeletionKeeps ==
  ASSUME IInv, NEW m \in Members, StartAccountDeletion(m) PROVE IInv'
<1>1. /\ member' = [member EXCEPT ![m] = "deleting"] /\ racing' = [racing EXCEPT ![m] = TRUE]
      /\ job' = [e \in Entries |-> IF Owner[e] = m THEN Cancel(job[e]) ELSE job[e]]
      /\ raw' = [e \in Entries |-> IF Owner[e] = m /\ entry[e] # "absent"
                                   THEN raw[e] \cup {"now"} ELSE raw[e]]
      /\ out' = [e \in Entries |->
                   [g \in Gens |-> IF Owner[e] = m /\ out[e][g] = "original"
                                   THEN "discarded" ELSE out[e][g]]]
      /\ entry' = [e \in Entries |-> IF Owner[e] = m /\ entry[e] # "absent"
                                     THEN "gone" ELSE entry[e]]
      /\ UNCHANGED <<restores, asset, slot>>
  BY DEF StartAccountDeletion
<1>2. TypeOK'
  <2>1. job' \in [Entries -> JobRecords]
    BY <1>1, CancelFields DEF IInv, TypeOK
  <2>2. raw' \in [Entries -> SUBSET {"now", "recheck"}]
    BY <1>1 DEF IInv, TypeOK
  <2>3. out' \in [Entries -> [Gens -> OutStates]]
    <3>1. ASSUME NEW e \in Entries, NEW g \in Gens
          PROVE  (IF Owner[e] = m /\ out[e][g] = "original" THEN "discarded" ELSE out[e][g])
                   \in OutStates
      BY Unfold DEF OutStates
    <3> QED BY <1>1, <3>1
  <2>4. /\ member' \in [Members -> MemberStates] /\ racing' \in [Members -> BOOLEAN]
        /\ entry' \in [Entries -> EntryStates]
    BY <1>1 DEF IInv, TypeOK, MemberStates, EntryStates
  <2> QED BY <1>1, <2>1, <2>2, <2>3, <2>4 DEF IInv, TypeOK
<1>3. ASSUME NEW e \in Entries PROVE Good(e)'
  <2>1. CASE Owner[e] = m
    <3>1. /\ job'[e] = Cancel(job[e])
          /\ entry'[e] = IF entry[e] = "absent" THEN "absent" ELSE "gone"
          /\ raw'[e] = IF entry[e] = "absent" THEN raw[e] ELSE raw[e] \cup {"now"}
          /\ \A g \in Gens : out'[e][g] = IF out[e][g] = "original" THEN "discarded" ELSE out[e][g]
      BY <1>1, <2>1
    <3>2. /\ Cancel(job[e]).gen = job[e].gen /\ Cancel(job[e]).attempts = job[e].attempts
          /\ Cancel(job[e]).manual = job[e].manual
          /\ Cancel(job[e]).state = IF job[e].state \in Terminal \cup {"none"}
                                    THEN job[e].state ELSE "canceled"
      BY Unfold, CancelFields
    <3>3. Agrees(e)' /\ RawKept(e)' /\ RunsProperly(e)'
      BY <1>1, <3>1, <3>2, Unfold DEF Agrees, RawKept, RunsProperly, Terminal
    <3>4. Budgeted(e)'
      BY <1>1, <3>2, <3>1, Unfold DEF Budgeted
    <3>5. OutputsSettled(e)'
      <4>1. Gens \subseteq Nat
        BY BudgetFacts
      <4> QED BY <3>1, <3>2, <4>1, Unfold, Numbers DEF OutputsSettled, Agrees, Terminal
    <3> QED BY <3>3, <3>4, <3>5 DEF Good
  <2>2. CASE Owner[e] # m
    <3>1. out'[e] = [g \in Gens |-> out[e][g]] /\ out[e] = [g \in Gens |-> out[e][g]]
      BY <1>1, <2>2, Unfold
    <3>2. out'[e] = out[e]
      BY <3>1
    <3>3. /\ entry'[e] = entry[e] /\ job'[e] = job[e] /\ raw'[e] = raw[e]
          /\ slot'[e] = slot[e] /\ restores'[Owner[e]] = restores[Owner[e]]
          /\ member'[Owner[e]] = member[Owner[e]]
      BY <1>1, <2>2 DEF IInv, TypeOK
    <3> QED BY <3>2, <3>3, Frame DEF IInv
  <2> QED BY <2>1, <2>2
<1> QED BY <1>2, <1>3 DEF IInv

LEMMA DrainKeeps ==
  ASSUME IInv, NEW m \in Members, DrainCommands(m) PROVE IInv'
<1>1. TypeOK'
  BY DEF DrainCommands, IInv, TypeOK
<1>2. ASSUME NEW e \in Entries PROVE Good(e)'
  BY Frame DEF DrainCommands, IInv
<1> QED BY <1>1, <1>2 DEF IInv

(* After a restore every unfinished job waits for its owner's retry. *)
LEMMA PrepareKeeps ==
  ASSUME IInv, PrepareRestoredDatabase PROVE IInv'
<1>1. /\ job' = [e \in Entries |-> IF job[e].state \in {"queued", "running", "retry_wait"}
                                   THEN Parked(job[e], "failed") ELSE job[e]]
      /\ entry' = [e \in Entries |-> IF entry[e] \in {"uploaded", "validating"}
                                     THEN "failed" ELSE entry[e]]
      /\ UNCHANGED <<member, racing, restores, asset, slot, raw, out>>
  BY DEF PrepareRestoredDatabase, memberVars
<1>2. ASSUME NEW e \in Entries
      PROVE  /\ Parked(job[e], "failed") \in JobRecords
             /\ Parked(job[e], "failed").state = "failed"
             /\ Parked(job[e], "failed").gen = job[e].gen
             /\ Parked(job[e], "failed").attempts = job[e].attempts
             /\ Parked(job[e], "failed").manual = job[e].manual
  <2>1. "failed" \in JobStates
    BY DEF JobStates
  <2> QED BY <2>1, Unfold, ParkedFields
<1>3. TypeOK'
  <2>1. job' \in [Entries -> JobRecords]
    BY <1>1, <1>2 DEF IInv, TypeOK
  <2> QED BY <1>1, <2>1 DEF IInv, TypeOK, EntryStates
<1>4. ASSUME NEW e \in Entries PROVE Good(e)'
  <2>1. /\ job'[e] = IF job[e].state \in {"queued", "running", "retry_wait"}
                     THEN Parked(job[e], "failed") ELSE job[e]
        /\ entry'[e] = IF entry[e] \in {"uploaded", "validating"} THEN "failed" ELSE entry[e]
    BY <1>1
  <2>2. Agrees(e)' /\ RawKept(e)' /\ RunsProperly(e)'
    BY <1>1, <1>2, <2>1, Unfold DEF Agrees, RawKept, RunsProperly, Terminal
  <2>3. Budgeted(e)' /\ OutputsSettled(e)'
    BY <1>1, <1>2, <2>1, Unfold DEF Budgeted, OutputsSettled, Agrees
  <2> QED BY <2>2, <2>3 DEF Good
<1> QED BY <1>3, <1>4 DEF IInv

LEMMA TickKeeps ==
  ASSUME IInv, Tick PROVE IInv'
<1>1. /\ job' = [e \in Entries |-> Elapsed(job[e])]
      /\ UNCHANGED <<member, racing, restores, entry, asset, slot, raw, out>>
  BY DEF Tick, memberVars
<1>2. TypeOK'
  BY <1>1, ElapsedFields DEF IInv, TypeOK
<1>3. ASSUME NEW e \in Entries PROVE Good(e)'
  <2>1. /\ job'[e].state = job[e].state /\ job'[e].gen = job[e].gen
        /\ job'[e].attempts = job[e].attempts /\ job'[e].manual = job[e].manual
        /\ job[e].lease <= job[e].stage => job'[e].lease <= job'[e].stage
    BY <1>1, Unfold, ElapsedFields
  <2> QED BY <1>1, <2>1, Unfold DEF Good, Agrees, Budgeted, RunsProperly, OutputsSettled, RawKept
<1> QED BY <1>2, <1>3 DEF IInv

(***************************************************************************)
(* Theorems                                                                *)
(***************************************************************************)

(* Every transaction of the upload path, from any state the invariant        *)
(* allows, keeps it.                                                        *)
LEMMA StepKeepsIInv == IInv /\ [Next]_vars => IInv'
<1> SUFFICES ASSUME IInv, [Next]_vars PROVE IInv'
  OBVIOUS
<1>1. CASE OwnerCommand
  BY <1>1, CreateKeeps, RenewKeeps, TooLargeKeeps, CompleteUploadKeeps, CancelKeeps, RetryKeeps
     DEF OwnerCommand
<1>2. CASE Dispatch
  BY <1>2, IssueKeeps, ReleaseKeeps, ClaimKeeps DEF Dispatch
<1>3. CASE Callback
  BY <1>3, HeartbeatKeeps, FailKeeps, ApplyKeeps, RejectedKeeps, OutputSteps DEF Callback
<1>4. CASE Scheduler
  BY <1>4, ReconcileKeeps, CleanupKeeps DEF Scheduler
<1>5. CASE Administration
  BY <1>5, SuspendKeeps, RestoreKeeps, DrainKeeps, DeletionKeeps, PrepareKeeps DEF Administration
<1>6. CASE Clock
  BY <1>6, TickKeeps, SlotKeeps DEF Clock
<1>7. CASE UNCHANGED vars
  BY <1>7 DEF vars, IInv, TypeOK, Good, Agrees, Budgeted, RunsProperly, OutputsSettled, RawKept
<1> QED BY <1>1, <1>2, <1>3, <1>4, <1>5, <1>6, <1>7 DEF Next

(* The inductive invariant holds in every reachable state. *)
THEOREM Invariance == Spec => []IInv
<1> QED BY InitIInv, StepKeepsIInv, PTL DEF Spec

(* Every variable keeps its type. *)
THEOREM TypeCorrect == Spec => []TypeOK
<1>1. IInv => TypeOK
  BY DEF IInv
<1> QED BY <1>1, Invariance, PTL

(* An entry and its job never disagree, for any number of members, uploads,  *)
(* attempts and retries.                                                    *)
THEOREM AgreementHolds == Spec => []EntryJobAgreement
<1>1. IInv => EntryJobAgreement
  BY DEF IInv, Good, EntryJobAgreement
<1> QED BY <1>1, Invariance, PTL

(* Generations never outrun the budgets that were granted. *)
THEOREM WorkIsBounded == Spec => []BoundedWork
<1>1. IInv => BoundedWork
  BY DEF IInv, Good, BoundedWork
<1> QED BY <1>1, Invariance, PTL

(* No heartbeat carries a lease past the deadline of its stage. *)
THEOREM LeasesStayWithinStage == Spec => []LeaseWithinStage
<1>1. IInv => LeaseWithinStage
  BY DEF IInv, Good, RunsProperly, LeaseWithinStage, Running
<1> QED BY <1>1, Invariance, PTL

(* No job of a suspended or leaving member runs, although commands may race. *)
THEOREM OnlyActiveRun == Spec => []OnlyActiveMembersRun
<1>1. IInv => OnlyActiveMembersRun
  BY DEF IInv, Good, RunsProperly, OnlyActiveMembersRun, Running
<1> QED BY <1>1, Invariance, PTL

(* Exactly one output, of the last generation, is the original of a ready    *)
(* entry, and no other entry has one.                                       *)
THEOREM OriginalIsUnique == Spec => []OneOriginal
<1>1. ASSUME IInv, NEW e \in Entries
      PROVE  {g \in Gens : out[e][g] = "original"}
               = IF entry[e] = "ready" THEN {job[e].gen} ELSE {}
  BY <1>1, Unfold DEF OutputsSettled
<1>2. IInv => OneOriginal
  BY <1>1 DEF OneOriginal
<1> QED BY <1>2, Invariance, PTL

(* The bytes an attempt or a retry must read are never queued for deletion. *)
THEOREM RawIsKept == Spec => []RawUploadKept
<1>1. IInv => RawUploadKept
  BY DEF IInv, Good, RawKept, RawUploadKept
<1> QED BY <1>1, Invariance, PTL

(* A URL that is still open never outlives its recheck. *)
THEOREM LateUploadsAreRechecked == Spec => []LateUploadRechecked
<1>1. IInv => LateUploadRechecked
  BY DEF IInv, Good, RawKept, LateUploadRechecked
<1> QED BY <1>1, Invariance, PTL

(* Which entries a step may move: a final one only with its account. *)
LEMMA StepKeepsFinal ==
  ASSUME IInv, Next, NEW e \in Entries, entry[e] \in {"ready", "rejected", "canceled"}
  PROVE  entry'[e] \in {entry[e], "gone"}
<1>0. TypeOK
  BY DEF IInv
<1>1. CASE OwnerCommand
  BY <1>0, <1>1 DEF OwnerCommand, CreateUploadBatch, RenewUploadEntry, CompleteTooLarge,
     CompleteUploadEntry, CancelUploadEntry, RetryUploadEntry, Cancelable, Retryable, TypeOK
<1>2. CASE Dispatch
  BY <1>0, <1>2 DEF Dispatch, IssueJobClaim, ReleaseJobClaim, ClaimJob, TargetRunnable, TypeOK
<1>3. CASE Callback
  <2>1. PICK x \in Entries, g \in Gens :
          \/ UNCHANGED entry
          \/ FailJobAttempt(x, g)
          \/ Applicable(x, g) /\ entry' = [entry EXCEPT ![x] = "ready"]
          \/ Applicable(x, g) /\ entry' = [entry EXCEPT ![x] = "rejected"]
    BY <1>3 DEF Callback, HeartbeatJob, PutOutput, RejectOutput, ApplyReady, RepeatReady,
       FenceReady, DiscardJobOutput, CompleteRejected
  <2> QED BY <1>0, <2>1 DEF FailJobAttempt, RetriedEntry, Applicable, TypeOK
<1>4. CASE Scheduler
  BY <1>4 DEF Scheduler, ReconcileJobs, RetriedEntry, TemporaryCleanup, Abandoned
<1>5. CASE Administration
  BY <1>5 DEF Administration, SuspendMember, RestoreMember, DrainCommands,
     StartAccountDeletion, PrepareRestoredDatabase
<1>6. CASE Clock
  BY <1>6 DEF Clock, Tick, CloseSlot, ExpireAsset
<1> QED BY <1>1, <1>2, <1>3, <1>4, <1>5, <1>6 DEF Next

(* Ready, rejected and canceled entries are final. *)
THEOREM EntriesAreFinal == Spec => FinalEntries
<1>1. IInv /\ [Next]_vars =>
        [\A e \in Entries :
           entry[e] \in {"ready", "rejected", "canceled"} => entry'[e] \in {entry[e], "gone"}]_vars
  BY StepKeepsFinal
<1> QED BY <1>1, Invariance, PTL DEF Spec, FinalEntries

(* What a step may do to an output: an original goes only with its account,  *)
(* and only the running generation, which was never refused, is published.  *)
LEMMA StepSettlesOutput ==
  ASSUME IInv, Next, NEW e \in Entries, NEW g \in Gens
  PROVE  /\ out[e][g] = "original" /\ out'[e][g] # "original" => entry'[e] = "gone"
         /\ out[e][g] \in {"ended", "fenced", "rejected", "discarded", "unrecorded"} =>
              out'[e][g] # "original"
<1>0. TypeOK /\ OutputsSettled(e) /\ Agrees(e)
  BY Unfold
<1>1. CASE UNCHANGED out
  BY <1>1
<1>2. CASE Callback
  <2>1. PICK x \in Entries, h \in Gens :
          \/ HeartbeatJob(x, h) \/ FailJobAttempt(x, h) \/ PutOutput(x, h) \/ RejectOutput(x, h)
          \/ ApplyReady(x, h) \/ RepeatReady(x, h) \/ FenceReady(x, h) \/ DiscardJobOutput(x, h)
          \/ CompleteRejected(x, h)
    BY <1>2 DEF Callback
  <2>2. CASE HeartbeatJob(x, h)
    BY <2>2 DEF HeartbeatJob
  <2>3. CASE FailJobAttempt(x, h) \/ PutOutput(x, h) \/ RejectOutput(x, h)
               \/ CompleteRejected(x, h) \/ RepeatReady(x, h) \/ DiscardJobOutput(x, h)
    <3>1. PICK v \in {"ended", "stored", "rejected", "unrecorded", "discarded"} :
            out' = [out EXCEPT ![x][h] = v]
      BY <2>3 DEF FailJobAttempt, PutOutput, RejectOutput, CompleteRejected, RepeatReady, DiscardJobOutput
    <3>2. out[x][h] # "original"
      BY <2>3 DEF FailJobAttempt, PutOutput, RejectOutput, CompleteRejected, RepeatReady, DiscardJobOutput
    <3>3. out'[e][g] = out[e][g] \/ (e = x /\ g = h /\ out'[e][g] = v)
      BY <1>0, <3>1 DEF TypeOK
    <3> QED BY <3>2, <3>3
  <2>4. CASE FenceReady(x, h)
    <3>1. OutputsSettled(x) /\ Agrees(x)
      BY Unfold
    <3>2. out[x][h] # "original"
      BY <2>4, <3>1 DEF FenceReady, AlreadyApplied, OutputsSettled, Agrees
    <3> QED BY <1>0, <2>4, <3>2 DEF FenceReady, TypeOK
  <2>5. CASE ApplyReady(x, h)
    <3>1. OutputsSettled(x) /\ Agrees(x)
      BY Unfold
    <3>2. HasOutput(x, h) /\ job[x].state = "running" /\ job[x].gen = h
          /\ out' = [out EXCEPT ![x][h] = "original"]
      BY <2>5 DEF ApplyReady, Applicable, Current
    <3>3. out[x][h] \notin {"ended", "fenced", "rejected", "discarded", "unrecorded"}
      BY <3>1, <3>2 DEF HasOutput, OutputsSettled
    <3> QED BY <1>0, <3>2, <3>3 DEF TypeOK
  <2> QED BY <2>1, <2>2, <2>3, <2>4, <2>5
<1>3. CASE \E m \in Members : StartAccountDeletion(m)
  <2>1. PICK m \in Members : StartAccountDeletion(m)
    BY <1>3
  <2>2. out'[e][g] = IF Owner[e] = m /\ out[e][g] = "original" THEN "discarded" ELSE out[e][g]
    BY <2>1 DEF StartAccountDeletion
  <2>3. entry'[e] = IF Owner[e] = m /\ entry[e] # "absent" THEN "gone" ELSE entry[e]
    BY <2>1 DEF StartAccountDeletion
  <2> QED BY <1>0, <2>2, <2>3 DEF OutputsSettled
<1>4. UNCHANGED out \/ Callback \/ \E m \in Members : StartAccountDeletion(m)
  BY DEF Next, OwnerCommand, CreateUploadBatch, RenewUploadEntry, CompleteTooLarge,
     CompleteUploadEntry, CancelUploadEntry, RetryUploadEntry, Dispatch, IssueJobClaim,
     ReleaseJobClaim, ClaimJob, Scheduler, ReconcileJobs, TemporaryCleanup, Administration,
     SuspendMember, RestoreMember, DrainCommands, PrepareRestoredDatabase, Clock, Tick,
     CloseSlot, ExpireAsset
<1> QED BY <1>1, <1>2, <1>3, <1>4

(* A late or duplicate callback never takes a published original away, and  *)
(* a refused output is never published.                                     *)
THEOREM OutputsSettle == Spec => OutputsSettleOnce
<1>1. IInv /\ [Next]_vars =>
        [\A e \in Entries, g \in Gens :
           /\ out[e][g] = "original" /\ out'[e][g] # "original" => entry'[e] = "gone"
           /\ out[e][g] \in {"ended", "fenced", "rejected", "discarded", "unrecorded"} =>
                out'[e][g] # "original"]_vars
  BY StepSettlesOutput
<1> QED BY <1>1, Invariance, PTL DEF Spec, OutputsSettleOnce

-----------------------------------------------------------------------------
(* UploadJobs implements UploadPromise, for every value of the constants.    *)

(* The member's view of every state an entry can be in. *)
LEMMA StatusValues ==
  /\ StatusOf["absent"] = "none"
  /\ StatusOf["awaiting_upload"] = "waiting"
  /\ StatusOf["uploaded"] = "working"
  /\ StatusOf["validating"] = "working"
  /\ StatusOf["ready"] = "published"
  /\ StatusOf["rejected"] = "refused"
  /\ StatusOf["failed"] = "failed"
  /\ StatusOf["canceled"] = "canceled"
  /\ StatusOf["gone"] = "removed"
BY DEF StatusOf

LEMMA PublishedResult ==
  ASSUME IInv, NEW e \in Entries
  PROVE  PublishedGeneration(e) = IF entry[e] = "ready" THEN job[e].gen ELSE 0
BY Unfold DEF OutputsSettled, PublishedGeneration

LEMMA PublishedResultNext ==
  ASSUME IInv', NEW e \in Entries
  PROVE  PublishedGeneration(e)' = IF entry'[e] = "ready" THEN job'[e].gen ELSE 0
<1>1. OutputsSettled(e)'
  BY DEF IInv, Good
<1> QED BY <1>1 DEF OutputsSettled, PublishedGeneration

(* What one step may do to an entry and to the generations of its job. *)
SameGen(e) == job'[e].gen = job[e].gen
Turns(e, from, to) == entry[e] \in from /\ entry'[e] = to /\ SameGen(e)

Working == {"uploaded", "validating"}

EntryMove(e) ==
  \/ entry'[e] = entry[e] /\ SameGen(e)
  \/ Turns(e, {"absent"}, "awaiting_upload")
  \/ Turns(e, {"awaiting_upload"}, "uploaded")
  \/ /\ entry[e] \in Working /\ entry'[e] = "validating"
     /\ job[e].gen < MaxGen /\ job'[e].gen = job[e].gen + 1
  \/ Turns(e, {"validating"}, "ready")
  \/ Turns(e, {"awaiting_upload", "validating"}, "rejected")
  \/ Turns(e, Working, "uploaded")
  \/ Turns(e, Working, "failed")
  \/ Turns(e, {"failed"}, "uploaded")
  \/ Turns(e, {"awaiting_upload", "failed"} \cup Working, "canceled")
  \/ Turns(e, EntryStates \ {"absent"}, "gone")

LEMMA OwnerMoves ==
  ASSUME IInv, OwnerCommand, NEW e \in Entries PROVE EntryMove(e)
<1>1. CASE \E m \in Members, S \in SUBSET Entries : CreateUploadBatch(m, S)
  <2>1. PICK m \in Members, S \in SUBSET Entries : CreateUploadBatch(m, S)
    BY <1>1
  <2>2. /\ \A x \in S : entry[x] = "absent"
        /\ entry'[e] = IF e \in S THEN "awaiting_upload" ELSE entry[e]
        /\ job' = job
    BY <2>1 DEF CreateUploadBatch
  <2> QED BY <2>2 DEF EntryMove, Turns, SameGen
<1>2. ASSUME NEW x \in Entries, RenewUploadEntry(x) PROVE EntryMove(e)
  BY <1>2 DEF RenewUploadEntry, EntryMove, SameGen
<1>3. ASSUME NEW x \in Entries, CompleteTooLarge(x) PROVE EntryMove(e)
  BY <1>3, Unfold DEF CompleteTooLarge, TypeOK, EntryMove, Turns, SameGen
<1>4. ASSUME NEW x \in Entries, CompleteUploadEntry(x) PROVE EntryMove(e)
  <2>1. [NoJob EXCEPT !.state = "queued"].gen = 0
    BY DEF NoJob
  <2>2. e = x => job[e].gen = 0 /\ job'[e].gen = 0 /\ entry'[e] = "uploaded"
                 /\ entry[e] = "awaiting_upload"
    BY <1>4, <2>1, Unfold DEF CompleteUploadEntry, TypeOK, Agrees, OutputsSettled
  <2>3. e # x => entry'[e] = entry[e] /\ job'[e] = job[e]
    BY <1>4, Unfold DEF CompleteUploadEntry, TypeOK
  <2> QED BY <2>2, <2>3 DEF EntryMove, Turns, SameGen
<1>5. ASSUME NEW x \in Entries, CancelUploadEntry(x) PROVE EntryMove(e)
  <2>1. e = x => Cancelable(e) /\ entry'[e] = "canceled" /\ job'[e] = Cancel(job[e])
    BY <1>5, Unfold DEF CancelUploadEntry, TypeOK
  <2>2. e # x => entry'[e] = entry[e] /\ job'[e] = job[e]
    BY <1>5, Unfold DEF CancelUploadEntry, TypeOK
  <2>3. Cancel(job[e]).gen = job[e].gen
    BY Unfold, CancelFields
  <2> QED BY <2>1, <2>2, <2>3 DEF EntryMove, Turns, SameGen, Working, Cancelable
<1>6. ASSUME NEW x \in Entries, RetryUploadEntry(x) PROVE EntryMove(e)
  <2>1. e = x => entry[e] = "failed" /\ entry'[e] = "uploaded"
                 /\ job'[e] = RetriedByOwner(job[e]) /\ job[e].manual < MaxManualRetries
    BY <1>6, Unfold DEF RetryUploadEntry, Retryable, RetriesLeft, TypeOK
  <2>2. e # x => entry'[e] = entry[e] /\ job'[e] = job[e]
    BY <1>6, Unfold DEF RetryUploadEntry, TypeOK
  <2>3. job[e].manual < MaxManualRetries => RetriedByOwner(job[e]).gen = job[e].gen
    BY Unfold, RetriedByOwnerFields
  <2> QED BY <2>1, <2>2, <2>3 DEF EntryMove, Turns, SameGen
<1> QED BY <1>1, <1>2, <1>3, <1>4, <1>5, <1>6 DEF OwnerCommand

LEMMA DispatchMoves ==
  ASSUME IInv, Dispatch, NEW e \in Entries PROVE EntryMove(e)
<1>1. ASSUME NEW x \in Entries, IssueJobClaim(x) \/ ReleaseJobClaim(x) PROVE EntryMove(e)
  <2>1. PICK n : job' = [job EXCEPT ![x] = [job[x] EXCEPT !.claim = n]] /\ entry' = entry
    BY <1>1 DEF IssueJobClaim, ReleaseJobClaim
  <2>2. job \in [Entries -> JobRecords] /\ job[x] \in JobRecords
    BY Unfold DEF TypeOK
  <2>3. [job[x] EXCEPT !.claim = n].gen = job[x].gen
    BY <2>2 DEF JobRecords
  <2> QED BY <2>1, <2>2, <2>3 DEF EntryMove, SameGen
<1>2. ASSUME NEW x \in Entries, ClaimJob(x) PROVE EntryMove(e)
  <2>1. e = x => entry[e] \in Working /\ entry'[e] = "validating" /\ job'[e] = ClaimedJob(job[e])
                 /\ job[e].attempts < MaxAttempts
    BY <1>2, Unfold DEF ClaimJob, TargetRunnable, AttemptsLeft, TypeOK, Working
  <2>2. e # x => entry'[e] = entry[e] /\ job'[e] = job[e]
    BY <1>2, Unfold DEF ClaimJob, TypeOK
  <2>3. job[e].attempts < MaxAttempts => job[e].gen < MaxGen
    <3>1. restores[Owner[e]] \in 0..MaxRestores
      BY Unfold, LimitsAssumption
    <3> QED BY <3>1, Unfold, GenWithinBudget DEF Budgeted
  <2>4. job[e].attempts < MaxAttempts => ClaimedJob(job[e]).gen = job[e].gen + 1
    BY <2>3, Unfold, ClaimedFields
  <2> QED BY <2>1, <2>2, <2>3, <2>4 DEF EntryMove, SameGen
<1> QED BY <1>1, <1>2 DEF Dispatch

(* private.retry_or_fail moves a working entry back, or to failed. *)
LEMMA RetryMoves ==
  ASSUME IInv, NEW e \in Entries, job[e].state = "running",
         job'[e] = RetriedJob(job[e]), entry'[e] = RetriedEntry(e)
  PROVE  EntryMove(e)
<1>1. entry[e] = "validating" /\ job[e].attempts # 0
  BY Unfold DEF Agrees, RunsProperly
<1>2. RetriedJob(job[e]).gen = job[e].gen
  BY <1>1, Unfold, RetriedFields
<1> QED BY <1>1, <1>2 DEF EntryMove, Turns, SameGen, Working, RetriedEntry

LEMMA CallbackMoves ==
  ASSUME IInv, Callback, NEW e \in Entries PROVE EntryMove(e)
<1>1. PICK x \in Entries, g \in Gens :
        \/ HeartbeatJob(x, g) \/ FailJobAttempt(x, g) \/ PutOutput(x, g) \/ RejectOutput(x, g)
        \/ ApplyReady(x, g) \/ RepeatReady(x, g) \/ FenceReady(x, g) \/ DiscardJobOutput(x, g)
        \/ CompleteRejected(x, g)
  BY DEF Callback
<1>2. CASE HeartbeatJob(x, g)
  <2>1. PICK n : job' = [job EXCEPT ![x] = [job[x] EXCEPT !.lease = n]] /\ entry' = entry
    BY <1>2 DEF HeartbeatJob
  <2>2. job \in [Entries -> JobRecords] /\ job[x] \in JobRecords
    BY Unfold DEF TypeOK
  <2>3. [job[x] EXCEPT !.lease = n].gen = job[x].gen
    BY <2>2 DEF JobRecords
  <2> QED BY <2>1, <2>2, <2>3 DEF EntryMove, SameGen
<1>3. CASE FailJobAttempt(x, g)
  <2>1. e = x => job[e].state = "running" /\ job'[e] = RetriedJob(job[e])
                 /\ entry'[e] = RetriedEntry(e)
    BY <1>3, Unfold DEF FailJobAttempt, Current, TypeOK
  <2>2. e # x => entry'[e] = entry[e] /\ job'[e] = job[e]
    BY <1>3, Unfold DEF FailJobAttempt, TypeOK
  <2> QED BY <2>1, <2>2, RetryMoves DEF EntryMove, SameGen
<1>4. CASE ApplyReady(x, g) \/ CompleteRejected(x, g)
  <2>1. PICK s \in {"succeeded", "failed"} : job' = [job EXCEPT ![x] = Parked(job[x], s)]
    BY <1>4 DEF ApplyReady, CompleteRejected
  <2>2. Parked(job[x], s).gen = job[x].gen
    <3>1. s \in JobStates
      BY <2>1 DEF JobStates
    <3> QED BY <3>1, Unfold, ParkedFields
  <2>3. SameGen(e)
    BY <2>1, <2>2, Unfold DEF SameGen, TypeOK
  <2>4. \/ entry'[e] = entry[e]
        \/ entry[e] = "validating" /\ entry'[e] \in {"ready", "rejected"}
    BY <1>4, Unfold DEF ApplyReady, CompleteRejected, Applicable, TypeOK
  <2> QED BY <2>3, <2>4 DEF EntryMove, Turns
<1>5. CASE PutOutput(x, g) \/ RejectOutput(x, g) \/ RepeatReady(x, g) \/ FenceReady(x, g)
             \/ DiscardJobOutput(x, g)
  BY <1>5 DEF PutOutput, RejectOutput, RepeatReady, FenceReady, DiscardJobOutput,
     EntryMove, SameGen
<1> QED BY <1>1, <1>2, <1>3, <1>4, <1>5

LEMMA SchedulerMoves ==
  ASSUME IInv, Scheduler, NEW e \in Entries PROVE EntryMove(e)
<1>1. ASSUME NEW S \in SUBSET Entries, ReconcileJobs(S) PROVE EntryMove(e)
  <2>1. CASE e \in S
    <3>1. job[e].state = "running" /\ job'[e] = RetriedJob(job[e]) /\ entry'[e] = RetriedEntry(e)
      BY <1>1, <2>1 DEF ReconcileJobs, Expired, Running
    <3> QED BY <3>1, RetryMoves
  <2>2. CASE e \notin S
    <3>1. /\ entry'[e] = entry[e]
          /\ job'[e] = IF e \in Due THEN [job[e] EXCEPT !.state = "queued"] ELSE job[e]
      BY <1>1, <2>2 DEF ReconcileJobs
    <3>2. [job[e] EXCEPT !.state = "queued"].gen = job[e].gen
      <4>1. job[e] \in JobRecords
        BY Unfold
      <4> QED BY <4>1 DEF JobRecords
    <3> QED BY <3>1, <3>2 DEF EntryMove, SameGen
  <2> QED BY <2>1, <2>2
<1>2. ASSUME NEW S \in SUBSET Entries, TemporaryCleanup(S) PROVE EntryMove(e)
  <2>1. e \in S => Abandoned(e) /\ entry'[e] = "canceled" /\ job'[e] = Cancel(job[e])
    BY <1>2 DEF TemporaryCleanup
  <2>2. e \notin S => entry'[e] = entry[e] /\ job'[e] = job[e]
    BY <1>2 DEF TemporaryCleanup
  <2>3. Cancel(job[e]).gen = job[e].gen
    BY Unfold, CancelFields
  <2> QED BY <2>1, <2>2, <2>3 DEF EntryMove, Turns, SameGen, Abandoned, Working
<1> QED BY <1>1, <1>2 DEF Scheduler

LEMMA AdministrationMoves ==
  ASSUME IInv, Administration, NEW e \in Entries PROVE EntryMove(e)
<1>0. Cancel(job[e]).gen = job[e].gen /\ Requeued(job[e]).gen = job[e].gen
  BY Unfold, CancelFields, RequeuedFields
<1>1. ASSUME NEW m \in Members, SuspendMember(m) PROVE EntryMove(e)
  <2>1. /\ job'[e] = IF Owner[e] = m THEN Cancel(job[e]) ELSE job[e]
        /\ entry'[e] = IF Owner[e] = m /\ entry[e] = "validating" THEN "uploaded" ELSE entry[e]
    BY <1>1 DEF SuspendMember
  <2> QED BY <1>0, <2>1 DEF EntryMove, Turns, SameGen, Working
<1>2. ASSUME NEW m \in Members, RestoreMember(m) PROVE EntryMove(e)
  <2>1. /\ job'[e] = IF Owner[e] = m /\ Resumable(e) THEN Requeued(job[e]) ELSE job[e]
        /\ entry' = entry
    BY <1>2 DEF RestoreMember
  <2> QED BY <1>0, <2>1 DEF EntryMove, SameGen
<1>3. ASSUME NEW m \in Members, StartAccountDeletion(m) PROVE EntryMove(e)
  <2>1. /\ job'[e] = IF Owner[e] = m THEN Cancel(job[e]) ELSE job[e]
        /\ entry'[e] = IF Owner[e] = m /\ entry[e] # "absent" THEN "gone" ELSE entry[e]
    BY <1>3 DEF StartAccountDeletion
  <2> QED BY <1>0, <2>1, Unfold DEF EntryMove, Turns, SameGen
<1>4. ASSUME NEW m \in Members, DrainCommands(m) PROVE EntryMove(e)
  BY <1>4 DEF DrainCommands, EntryMove, SameGen
<1>5. ASSUME PrepareRestoredDatabase PROVE EntryMove(e)
  <2>1. Parked(job[e], "failed").gen = job[e].gen
    <3>1. "failed" \in JobStates
      BY DEF JobStates
    <3> QED BY <3>1, Unfold, ParkedFields
  <2>2. /\ job'[e].gen = job[e].gen
        /\ entry'[e] = IF entry[e] \in {"uploaded", "validating"} THEN "failed" ELSE entry[e]
    BY <1>5, <2>1 DEF PrepareRestoredDatabase
  <2> QED BY <2>2 DEF EntryMove, Turns, SameGen, Working
<1> QED BY <1>1, <1>2, <1>3, <1>4, <1>5 DEF Administration

LEMMA ClockMoves ==
  ASSUME IInv, Clock, NEW e \in Entries PROVE EntryMove(e)
<1>1. CASE Tick
  <2>1. job'[e] = Elapsed(job[e]) /\ entry' = entry
    BY <1>1 DEF Tick
  <2>2. Elapsed(job[e]).gen = job[e].gen
    BY Unfold, ElapsedFields
  <2> QED BY <2>1, <2>2 DEF EntryMove, SameGen
<1>2. CASE \E x \in Entries : CloseSlot(x) \/ ExpireAsset(x)
  BY <1>2 DEF CloseSlot, ExpireAsset, EntryMove, SameGen
<1> QED BY <1>1, <1>2 DEF Clock

(* Every step moves every entry by one of the moves above, or not at all. *)
LEMMA StepMoves ==
  ASSUME IInv, Next, NEW e \in Entries PROVE EntryMove(e)
BY OwnerMoves, DispatchMoves, CallbackMoves, SchedulerMoves, AdministrationMoves, ClockMoves
   DEF Next

(* A move of an entry is a move of the promise, or none. *)
LEMMA MoveKeepsPromise ==
  ASSUME IInv, IInv', NEW e \in Entries, EntryMove(e)
  PROVE  \/ promise!Submit(e) \/ promise!Accept(e) \/ promise!Attempt(e) \/ promise!Publish(e)
         \/ promise!Refuse(e) \/ promise!Fail(e) \/ promise!Retry(e) \/ promise!Cancel(e)
         \/ promise!Remove(e) \/ promise!Rest(e)
<1> DEFINE old == PublishedGeneration(e)
           new == PublishedGeneration(e)'
<1>1. /\ old = IF entry[e] = "ready" THEN job[e].gen ELSE 0
      /\ new = IF entry'[e] = "ready" THEN job'[e].gen ELSE 0
  BY PublishedResult, PublishedResultNext
<1>2. /\ entry[e] \in EntryStates
      /\ entry'[e] = "ready" => job'[e].gen \in Gens
  <2>1. OutputsSettled(e)'
    BY DEF IInv, Good
  <2> QED BY <2>1, Unfold DEF OutputsSettled
<1>3. Gens \subseteq Nat \ {0}
  BY BudgetFacts DEF Gens
<1> HIDE DEF old, new
<1>4. CASE entry'[e] = entry[e] /\ SameGen(e)
  BY <1>1, <1>4 DEF promise!Rest, promise!SameWork, SameGen, old, new
<1>5. CASE Turns(e, {"absent"}, "awaiting_upload")
  <2>1. promise!Submit(e)
    BY <1>1, <1>5, StatusValues
       DEF promise!Submit, promise!Moves, promise!SameWork, Turns, SameGen, old, new
  <2> QED BY <2>1
<1>6. CASE Turns(e, {"awaiting_upload"}, "uploaded")
  <2>1. promise!Accept(e)
    BY <1>1, <1>6, StatusValues
       DEF promise!Accept, promise!Moves, promise!SameWork, Turns, SameGen, old, new
  <2> QED BY <2>1
<1>7. CASE /\ entry[e] \in Working /\ entry'[e] = "validating"
           /\ job[e].gen < MaxGen /\ job'[e].gen = job[e].gen + 1
  <2>1. promise!Attempt(e)
    BY <1>1, <1>7, StatusValues DEF promise!Attempt, promise!Moves, Working, old, new
  <2> QED BY <2>1
<1>8. CASE Turns(e, {"validating"}, "ready")
  <2>1. job[e].gen \in Nat /\ job[e].gen > 0
    <3>1. job[e].gen \in Gens
      BY <1>2, <1>8 DEF Turns, SameGen
    <3>2. job[e].gen \in Nat \ {0}
      BY <1>3, <3>1
    <3> QED BY <3>2
  <2>2. promise!Publish(e)
    BY <1>1, <1>8, <2>1, StatusValues
       DEF promise!Publish, promise!Moves, Turns, SameGen, old, new
  <2> QED BY <2>2
<1>9. CASE Turns(e, {"awaiting_upload", "validating"}, "rejected")
  <2>1. promise!Refuse(e)
    BY <1>1, <1>9, StatusValues
       DEF promise!Refuse, promise!Moves, promise!SameWork, Turns, SameGen, old, new
  <2> QED BY <2>1
<1>10. CASE Turns(e, Working, "uploaded")
  <2>1. promise!Rest(e)
    BY <1>1, <1>10, StatusValues
       DEF promise!Rest, promise!SameWork, Turns, SameGen, Working, old, new
  <2> QED BY <2>1
<1>11. CASE Turns(e, Working, "failed")
  <2>1. promise!Fail(e)
    BY <1>1, <1>11, StatusValues
       DEF promise!Fail, promise!Moves, promise!SameWork, Turns, SameGen, Working, old, new
  <2> QED BY <2>1
<1>12. CASE Turns(e, {"failed"}, "uploaded")
  <2>1. promise!Retry(e)
    BY <1>1, <1>12, StatusValues
       DEF promise!Retry, promise!Moves, promise!SameWork, Turns, SameGen, old, new
  <2> QED BY <2>1
<1>13. CASE Turns(e, {"awaiting_upload", "failed"} \cup Working, "canceled")
  <2>1. promise!Cancel(e)
    BY <1>1, <1>13, StatusValues
       DEF promise!Cancel, promise!Moves, promise!SameWork, Turns, SameGen, Working, old, new
  <2> QED BY <2>1
<1>14. CASE Turns(e, EntryStates \ {"absent"}, "gone")
  <2>1. StatusOf[entry[e]] \in promise!Statuses \ {"none"}
    BY <1>14, StatusValues DEF Turns, EntryStates, promise!Statuses
  <2>2. promise!Remove(e)
    BY <1>1, <1>14, <2>1, StatusValues DEF promise!Remove, promise!Moves, Turns, SameGen, old, new
  <2> QED BY <2>2
<1> QED BY <1>4, <1>5, <1>6, <1>7, <1>8, <1>9, <1>10, <1>11, <1>12, <1>13, <1>14 DEF EntryMove

LEMMA InitPromise == Init => promise!Init
<1> SUFFICES ASSUME Init PROVE promise!Init
  OBVIOUS
<1>1. IInv
  BY InitIInv
<1>2. ASSUME NEW e \in Entries
      PROVE  entry[e] = "absent" /\ job[e].gen = 0 /\ PublishedGeneration(e) = 0
  <2>1. entry[e] = "absent" /\ job[e].gen = 0
    BY DEF Init, NoJob
  <2> QED BY <1>1, <2>1, PublishedResult
<1> QED BY <1>2, StatusValues DEF promise!Init

LEMMA PromiseTyped == IInv => promise!PromiseTypeOK
<1> SUFFICES ASSUME IInv PROVE promise!PromiseTypeOK
  OBVIOUS
<1>1. ASSUME NEW e \in Entries
      PROVE  /\ StatusOf[entry[e]] \in promise!Statuses
             /\ job[e].gen \in 0..MaxGen
             /\ PublishedGeneration(e) \in 0..MaxGen
  <2>1. StatusOf[entry[e]] \in promise!Statuses
    BY Unfold, StatusValues DEF EntryStates, promise!Statuses
  <2>2. job[e].gen \in 0..MaxGen /\ 0 \in 0..MaxGen
    BY Unfold, BudgetFacts DEF JobRecords
  <2> QED BY <2>1, <2>2, PublishedResult
<1> QED BY <1>1 DEF promise!PromiseTypeOK

(* The durable jobs keep the promise: whatever crashes, expires, repeats or  *)
(* races, an upload is published once, by its newest attempt.               *)
THEOREM UploadJobsKeepPromise == Spec => KeepsPromise
<1>1. IInv /\ IInv' /\ [Next]_vars =>
        [promise!Next /\ promise!PromiseTypeOK']_(promise!promiseVars)
  <2> SUFFICES ASSUME IInv, IInv', [Next]_vars
               PROVE  [promise!Next /\ promise!PromiseTypeOK']_(promise!promiseVars)
    OBVIOUS
  <2>1. CASE Next
    <3>1. promise!Next
      BY <2>1, StepMoves, MoveKeepsPromise DEF promise!Next
    <3>2. promise!PromiseTypeOK'
      BY PromiseTyped, PTL
    <3> QED BY <3>1, <3>2
  <2>2. CASE UNCHANGED vars
    BY <2>2 DEF vars, promise!promiseVars, PublishedGeneration
  <2> QED BY <2>1, <2>2
<1> QED BY <1>1, InitPromise, Invariance, PTL DEF Spec, KeepsPromise, promise!Spec
=============================================================================

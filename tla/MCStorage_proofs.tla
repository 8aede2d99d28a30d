-------------------------- MODULE MCStorage_proofs --------------------------
(* Proofs of the runs of the worker (WorkerRun), the part that MCStorage     *)
(* extends, and what the theorems about the other parts say of the           *)
(* composition that is checked.                                              *)
EXTENDS MCStorage, TLAPS

JobRecords ==
  [state : Unended \cup {"succeeded", "failed", "canceled"}, gen : 0..MaxGen,
   attempts : 0..MaxAttempts, manual : 0..MaxManual,
   lease : 0..LeaseTicks, stage : 0..StageTicks]
Answers == {"none", "applied", "already_applied", "stale", "refused"}
RunRecords ==
  [at : Steps, gen : 0..MaxGen, cap : 0..LeaseTicks, lost : BOOLEAN, beating : BOOLEAN,
   ready : BOOLEAN, left : SUBSET Outputs, answer : Answers]

(* A generation costs an attempt, and a manual retry gives them back.        *)
GenerationsSpent == job.gen <= MaxAttempts * job.manual + job.attempts

(* No two runs have one generation, and none has a later one than the job.   *)
Live == Steps \ {"idle", "fenced", "refused", "ended"}
OwnGeneration ==
  /\ \A r \in Runs : run[r].gen <= job.gen /\ (run[r].at # "idle" => run[r].gen # 0)
  /\ \A r, q \in Runs : r # q /\ run[r].gen # 0 => run[r].gen # run[q].gen
  /\ published <= job.gen /\ \A k \in tasks : k[1] <= job.gen

(* Until its completion is answered a run's outputs are neither shown nor    *)
(* recorded; the Edge that verified them found them all; and one that is     *)
(* discarding has recorded all but those left.                               *)
LiveRunsUntouched ==
  \A r \in Runs : run[r].at \in Live =>
    published # run[r].gen /\ \A o \in Outputs : Key(run[r].gen, o) \notin tasks
VerifiedPresent ==
  \A r \in Runs : run[r].at = "verified" /\ run[r].ready => KeysOf(run[r].gen) \subseteq store
DiscardsRecorded ==
  \A r \in Runs : run[r].at \in {"fenced", "refused"} =>
    published # run[r].gen /\ \A o \in Outputs \ run[r].left : Key(run[r].gen, o) \in tasks
AnsweredAtEnd == \A r \in Runs : run[r].at # "ended" => run[r].answer = "none"

RunsInv ==
  /\ OwnGeneration /\ LiveRunsUntouched /\ VerifiedPresent /\ DiscardsRecorded /\ AnsweredAtEnd
  /\ PublishedWhole /\ FencedOutputsRecorded
IInv == TypeOK /\ GenerationsSpent /\ RunsInv

-----------------------------------------------------------------------------
(* What a step may do to the runs, as far as those facts tell runs apart.    *)
Same(q) ==
  /\ run'[q].at = run[q].at /\ run'[q].gen = run[q].gen /\ run'[q].ready = run[q].ready
  /\ run'[q].left = run[q].left /\ run'[q].answer = run[q].answer
Others(r) == \A q \in Runs \ {r} : Same(q)

Rests ==
  /\ \A q \in Runs : Same(q)
  /\ job'.gen >= job.gen /\ published' = published /\ tasks' = tasks /\ store \ tasks \subseteq store'
Claims(r) ==
  /\ run'[r].at = "working" /\ run'[r].gen = job.gen + 1 /\ run'[r].answer = "none"
  /\ Others(r) /\ job'.gen = job.gen + 1
  /\ published' = published /\ tasks' = tasks /\ store' = store
Goes(r) ==
  /\ run[r].at \in Live /\ run'[r].at \in Steps \ {"idle"} /\ run'[r].gen = run[r].gen
  /\ run'[r].at = "verified" /\ run'[r].ready => KeysOf(run[r].gen) \subseteq store
  /\ run'[r].at \in {"fenced", "refused"} => run'[r].left = Outputs
  /\ run'[r].at # "ended" => run'[r].answer = "none"
  /\ run'[r].answer \in {"stale", "refused"} => ~run'[r].ready
  /\ \/ published' = published
     \/ /\ run[r].at = "verified" /\ run[r].ready /\ run'[r].at = "ended"
        /\ published' = run[r].gen
  /\ Others(r) /\ job'.gen = job.gen /\ tasks' = tasks /\ store \subseteq store'
Discards(r) ==
  /\ run[r].at \in {"fenced", "refused"} /\ run'[r].gen = run[r].gen
  /\ \/ /\ run'[r].at = run[r].at /\ run'[r].answer = "none"
        /\ \A o \in Outputs \ run'[r].left : o \notin run[r].left \/ Key(run[r].gen, o) \in tasks'
     \/ /\ run'[r].at = "ended"
        /\ run'[r].answer = "none" \/ run[r].left = {}
  /\ tasks \subseteq tasks' /\ tasks' \subseteq tasks \cup KeysOf(run[r].gen)
  /\ Others(r) /\ job'.gen = job.gen /\ published' = published /\ store' = store

LEMMA MaxGenIsNat == MaxGen \in Nat
<1>1. MaxAttempts \in Nat /\ 1 + MaxManual \in Nat
  BY BoundsAssumption
<1> QED BY <1>1 DEF MaxGen

LEMMA Numbers ==
  ASSUME TypeOK, TypeOK'
  PROVE  /\ job.gen \in Nat /\ job'.gen \in Nat /\ published \in Nat
         /\ \A q \in Runs : run[q].gen \in Nat /\ run'[q].gen \in Nat
         /\ \A k \in tasks : k[1] \in Nat
<1>1. job.gen \in 0..MaxGen /\ job'.gen \in 0..MaxGen /\ published \in 0..MaxGen
  BY DEF TypeOK
<1>2. \A q \in Runs : run[q].gen \in 0..MaxGen /\ run'[q].gen \in 0..MaxGen
  BY DEF TypeOK
<1>3. \A k \in tasks : k[1] \in 1..MaxGen
  BY DEF TypeOK, Gens
<1> QED BY <1>1, <1>2, <1>3, MaxGenIsNat

(* The facts survive whatever the step does to the runs.                     *)
LEMMA RestKeepsRuns == ASSUME TypeOK, TypeOK', RunsInv, Rests PROVE RunsInv'
<1>1. OwnGeneration'
  BY Numbers DEF Rests, Same, RunsInv, OwnGeneration
<1>2. LiveRunsUntouched' /\ VerifiedPresent' /\ DiscardsRecorded' /\ AnsweredAtEnd'
  <2>1. \A r \in Runs : run[r].at = "verified" /\ run[r].ready => KeysOf(run[r].gen) \subseteq store \ tasks
    BY DEF RunsInv, LiveRunsUntouched, VerifiedPresent, Live, KeysOf, Steps
  <2> QED BY <2>1 DEF Rests, Same, RunsInv, LiveRunsUntouched, VerifiedPresent, DiscardsRecorded, AnsweredAtEnd
<1>3. PublishedWhole' /\ FencedOutputsRecorded'
  BY DEF Rests, Same, RunsInv, PublishedWhole, FencedOutputsRecorded
<1> QED BY <1>1, <1>2, <1>3 DEF RunsInv

LEMMA ClaimKeepsRuns == ASSUME TypeOK, TypeOK', RunsInv, NEW r \in Runs, Claims(r) PROVE RunsInv'
<1>2. OwnGeneration'
  BY Numbers DEF Claims, Others, Same, RunsInv, OwnGeneration
<1>3. published # job.gen + 1 /\ \A o \in Outputs : Key(job.gen + 1, o) \notin tasks
  BY Numbers DEF RunsInv, OwnGeneration, Key
<1>4. LiveRunsUntouched' /\ VerifiedPresent' /\ DiscardsRecorded' /\ AnsweredAtEnd'
  BY <1>3 DEF Claims, Others, Same, RunsInv, LiveRunsUntouched, VerifiedPresent, DiscardsRecorded, AnsweredAtEnd
<1>5. PublishedWhole' /\ FencedOutputsRecorded'
  BY DEF Claims, Others, Same, RunsInv, PublishedWhole, FencedOutputsRecorded
<1> QED BY <1>2, <1>4, <1>5 DEF RunsInv

LEMMA GoKeepsRuns == ASSUME TypeOK, TypeOK', RunsInv, NEW r \in Runs, Goes(r) PROVE RunsInv'
<1>1. run[r].gen # 0 /\ \A q \in Runs \ {r} : run[q].gen # run[r].gen
  BY DEF Goes, Live, RunsInv, OwnGeneration
<1>2. OwnGeneration'
  BY DEF Goes, Live, Others, Same, RunsInv, OwnGeneration
<1>3. published # run[r].gen /\ \A o \in Outputs : Key(run[r].gen, o) \notin tasks
  BY DEF Goes, RunsInv, LiveRunsUntouched
<1>4. \A q \in Runs \ {r} : published' = run[q].gen => published = run[q].gen
  BY <1>1 DEF Goes
<1>5. run'[r].at # "ended" => published' # run[r].gen
  BY <1>3 DEF Goes
<1>6. LiveRunsUntouched'
  BY <1>3, <1>4, <1>5 DEF Goes, Others, Same, RunsInv, LiveRunsUntouched, Live
<1>7. VerifiedPresent'
  BY DEF Goes, Others, Same, RunsInv, VerifiedPresent
<1>8. DiscardsRecorded' /\ AnsweredAtEnd'
  BY <1>4, <1>5 DEF Goes, Others, Same, RunsInv, DiscardsRecorded, AnsweredAtEnd
<1>9. PublishedWhole'
  BY <1>3 DEF Goes, RunsInv, PublishedWhole, VerifiedPresent, KeysOf
<1>10. FencedOutputsRecorded'
  BY DEF Goes, Others, Same, RunsInv, FencedOutputsRecorded
<1> QED BY <1>2, <1>6, <1>7, <1>8, <1>9, <1>10 DEF RunsInv

LEMMA DiscardKeepsRuns == ASSUME TypeOK, TypeOK', RunsInv, NEW r \in Runs, Discards(r) PROVE RunsInv'
<1>1. run[r].gen # 0 /\ \A q \in Runs \ {r} : run[q].gen # run[r].gen
  BY DEF Discards, RunsInv, OwnGeneration
<1>2. \A k \in KeysOf(run[r].gen) : k[1] = run[r].gen
  BY DEF KeysOf, Key
<1>3. \A g, o : g # run[r].gen /\ Key(g, o) \in tasks' => Key(g, o) \in tasks
  BY <1>2 DEF Discards, Key
<1>4. OwnGeneration'
  BY <1>2 DEF Discards, Others, Same, RunsInv, OwnGeneration
<1>5. published # run[r].gen
  BY DEF Discards, RunsInv, DiscardsRecorded
<1>6. LiveRunsUntouched' /\ VerifiedPresent'
  BY <1>1, <1>3 DEF Discards, Others, Same, RunsInv, LiveRunsUntouched, VerifiedPresent, Live
<1>7. DiscardsRecorded' /\ AnsweredAtEnd'
  BY <1>5 DEF Discards, Others, Same, RunsInv, DiscardsRecorded, AnsweredAtEnd
<1>8. PublishedWhole'
  BY <1>3, <1>5 DEF Discards, RunsInv, PublishedWhole, KeysOf
<1>9. FencedOutputsRecorded'
  BY DEF Discards, Others, Same, RunsInv, FencedOutputsRecorded, DiscardsRecorded, KeysOf
<1> QED BY <1>4, <1>6, <1>7, <1>8, <1>9 DEF RunsInv

-----------------------------------------------------------------------------
(* Every step keeps the types and moves the runs in one of those ways.       *)
LEMMA IdleTyped ==
  Idle \in RunRecords /\ Idle.gen = 0 /\ Idle.at = "idle" /\ Idle.answer = "none"
<1>1. 0 \in 0..MaxGen /\ 0 \in 0..LeaseTicks
  BY MaxGenIsNat, BoundsAssumption
<1> QED BY <1>1 DEF Idle, RunRecords, Steps, Answers

LEMMA InitHolds == Init => IInv
<1> SUFFICES ASSUME Init PROVE IInv OBVIOUS
<1>1. 0 \in 0..MaxGen /\ 0 \in 0..MaxAttempts /\ 0 \in 0..MaxManual /\ 0 \in 0..LeaseTicks /\ 0 \in 0..StageTicks
  BY MaxGenIsNat, BoundsAssumption
<1>2. Idle \in RunRecords /\ Idle.gen = 0 /\ Idle.at = "idle" /\ Idle.answer = "none"
  BY IdleTyped
<1>3. TypeOK
  BY <1>1, <1>2 DEF Init, TypeOK, RunRecords, Answers, Unended
<1>4. GenerationsSpent
  BY BoundsAssumption DEF Init, GenerationsSpent
<1>5. RunsInv
  BY <1>2 DEF Init, RunsInv, OwnGeneration, LiveRunsUntouched, VerifiedPresent, DiscardsRecorded,
     AnsweredAtEnd, PublishedWhole, FencedOutputsRecorded, Live
<1> QED BY <1>3, <1>4, <1>5 DEF IInv

LEMMA MultiplesGrow ==
  ASSUME NEW a \in Nat, NEW m \in Nat, NEW n \in Nat, m <= n PROVE a * m <= a * n
<1>1. n - m \in Nat /\ n = m + (n - m)
  OBVIOUS
<1>2. a * (n - m) \in Nat
  BY <1>1
<1>3. a * n = a * m + a * (n - m)
  BY <1>1
<1> QED BY <1>2, <1>3

(* An attempt fits into the generations that a job may have.                 *)
LEMMA AnotherGeneration ==
  ASSUME TypeOK, GenerationsSpent, job.attempts < MaxAttempts
  PROVE  job.gen + 1 \in 1..MaxGen
<1>1. /\ job.gen \in 0..MaxGen /\ job.attempts \in Nat /\ job.manual \in Nat /\ job.manual <= MaxManual
      /\ MaxAttempts \in Nat /\ MaxManual \in Nat
  BY BoundsAssumption DEF TypeOK
<1>2. PICK p \in Nat : p = MaxAttempts * job.manual
  BY <1>1
<1>3. PICK q \in Nat : q = MaxAttempts * MaxManual
  BY <1>1
<1>4. p <= q
  BY <1>1, <1>2, <1>3, MultiplesGrow
<1>5. MaxGen = q + MaxAttempts
  BY <1>1, <1>3 DEF MaxGen
<1>6. job.gen <= p + job.attempts
  BY <1>2 DEF GenerationsSpent
<1> QED BY <1>1, <1>4, <1>5, <1>6, MaxGenIsNat

(* The job's row is claimed, asked for again, or keeps its numbers.          *)
States == Unended \cup {"succeeded", "failed", "canceled"}
Keeps(j) ==
  /\ j \in JobRecords /\ j.lease <= j.stage
  /\ j.gen = job.gen /\ j.attempts = job.attempts /\ j.manual = job.manual
Numbered(j) == j \in JobRecords /\ j.lease <= j.stage /\ j.gen <= MaxAttempts * j.manual + j.attempts

LEMMA KeepsRow ==
  ASSUME TypeOK, NEW s \in States, NEW l \in 0..LeaseTicks, NEW m \in 0..StageTicks, l <= m
  PROVE  Keeps([job EXCEPT !.state = s, !.lease = l, !.stage = m])
BY DEF TypeOK, Keeps, JobRecords, States

LEMMA KeptIsNumbered ==
  ASSUME GenerationsSpent, NEW j, Keeps(j) PROVE Numbered(j)
BY DEF GenerationsSpent, Keeps, Numbered

LEMMA RetryKeeps == ASSUME TypeOK PROVE Keeps(RetryOrFail(job))
<1>1. PICK s \in States : s = IF job.attempts >= MaxAttempts THEN "failed" ELSE "retry_wait"
  BY DEF States, Unended
<1>2. 0 \in 0..LeaseTicks /\ 0 \in 0..StageTicks /\ 0 <= 0
  BY BoundsAssumption
<1>3. RetryOrFail(job) = [job EXCEPT !.state = s, !.lease = 0, !.stage = 0]
  BY <1>1 DEF RetryOrFail
<1> QED BY <1>2, <1>3, KeepsRow

LEMMA EndKeeps ==
  ASSUME TypeOK, NEW s \in States PROVE Keeps([job EXCEPT !.state = s, !.lease = 0, !.stage = 0])
<1>1. 0 \in 0..LeaseTicks /\ 0 \in 0..StageTicks /\ 0 <= 0
  BY BoundsAssumption
<1> QED BY <1>1, KeepsRow

LEMMA StateKeeps == ASSUME TypeOK, NEW s \in States PROVE Keeps([job EXCEPT !.state = s])
BY DEF TypeOK, Keeps, JobRecords, States

LEMMA TimesKeep ==
  ASSUME TypeOK, NEW l \in 0..LeaseTicks, NEW m \in 0..StageTicks, l <= m
  PROVE  Keeps([job EXCEPT !.lease = l, !.stage = m])
BY DEF TypeOK, Keeps, JobRecords

LEMMA ClaimNumbers ==
  ASSUME TypeOK, GenerationsSpent, job.attempts < MaxAttempts
  PROVE  Numbered([job EXCEPT !.state = "running", !.gen = job.gen + 1,
                              !.attempts = job.attempts + 1,
                              !.lease = LeaseTicks, !.stage = StageTicks])
<1> DEFINE j == [job EXCEPT !.state = "running", !.gen = job.gen + 1,
                            !.attempts = job.attempts + 1,
                            !.lease = LeaseTicks, !.stage = StageTicks]
<1>1. job.gen + 1 \in 0..MaxGen
  BY AnotherGeneration, MaxGenIsNat
<1>2. j \in JobRecords /\ j.lease <= j.stage
  <2>1. job \in JobRecords /\ "running" \in States /\ job.attempts + 1 \in 0..MaxAttempts
    BY BoundsAssumption DEF TypeOK, JobRecords, States, Unended
  <2>2. LeaseTicks \in 0..LeaseTicks /\ StageTicks \in 0..StageTicks /\ LeaseTicks <= StageTicks
    BY BoundsAssumption
  <2> QED BY <1>1, <2>1, <2>2 DEF JobRecords, States
<1>3. PICK p \in Int : p = MaxAttempts * job.manual
  BY BoundsAssumption DEF TypeOK
<1>4. job.gen <= p + job.attempts /\ job.gen \in Int /\ job.attempts \in Int
  BY <1>1, <1>3, MaxGenIsNat DEF GenerationsSpent, TypeOK
<1>5. j.gen <= p + j.attempts /\ j.manual = job.manual
  BY <1>4 DEF TypeOK
<1> QED BY <1>2, <1>3, <1>5 DEF Numbered

LEMMA ManualNumbers ==
  ASSUME TypeOK, GenerationsSpent, job.manual < MaxManual
  PROVE  Numbered([job EXCEPT !.state = "queued", !.attempts = 0, !.manual = job.manual + 1])
<1> DEFINE j == [job EXCEPT !.state = "queued", !.attempts = 0, !.manual = job.manual + 1]
<1>1. j \in JobRecords /\ j.lease <= j.stage /\ j.gen = job.gen
  <2>1. job \in JobRecords /\ "queued" \in States /\ 0 \in 0..MaxAttempts /\ job.manual + 1 \in 0..MaxManual
    BY BoundsAssumption DEF TypeOK, JobRecords, States, Unended
  <2>2. job.lease <= job.stage
    BY DEF TypeOK
  <2> QED BY <2>1, <2>2 DEF JobRecords, States
<1>2. /\ MaxAttempts \in Nat /\ job.manual \in Nat /\ job.attempts \in 0..MaxAttempts
      /\ job.gen \in 0..MaxGen
  BY BoundsAssumption DEF TypeOK
<1>3. PICK p \in Nat : p = MaxAttempts * job.manual
  BY <1>2
<1>4. MaxAttempts * (job.manual + 1) = p + MaxAttempts
  BY <1>2, <1>3
<1>5. job.gen <= p + MaxAttempts
  BY <1>2, <1>3, MaxGenIsNat DEF GenerationsSpent
<1>6. j.attempts = 0 /\ j.manual = job.manual + 1
  BY DEF TypeOK
<1>7. j.gen <= MaxAttempts * j.manual + j.attempts
  BY <1>1, <1>2, <1>3, <1>4, <1>5, <1>6
<1> QED BY <1>1, <1>7 DEF Numbered

(* A step's types: the row, the runs, and what it adds to the objects.       *)
LEMMA TypesOf ==
  ASSUME Numbered(job'), current' \in BOOLEAN, run' \in [Runs -> RunRecords],
         store' \subseteq Gens \X Outputs, published' \in 0..MaxGen, tasks' \subseteq Gens \X Outputs
  PROVE  TypeOK' /\ GenerationsSpent'
BY DEF TypeOK, GenerationsSpent, Numbered, JobRecords, RunRecords, Answers

LEMMA SetTyped ==
  ASSUME TypeOK, NEW r \in Runs, NEW x \in RunRecords, Set(r, x)
  PROVE  /\ run' \in [Runs -> RunRecords] /\ run'[r] = x
         /\ \A q \in Runs \ {r} : run'[q] = run[q]
BY DEF TypeOK, Set, RunRecords, Answers

LEMMA Given ==
  ASSUME TypeOK
  PROVE  /\ job \in JobRecords /\ job.lease <= job.stage /\ run \in [Runs -> RunRecords]
         /\ store \subseteq Gens \X Outputs /\ published \in 0..MaxGen
         /\ tasks \subseteq Gens \X Outputs /\ current \in BOOLEAN
         /\ Keeps(job)
BY DEF TypeOK, JobRecords, RunRecords, Answers, Keeps

(* A step of one run that leaves the rest alone, or only adds to it.         *)
LEMMA RunStepTypes ==
  ASSUME TypeOK, GenerationsSpent, NEW r \in Runs, NEW x \in RunRecords, Set(r, x), Keeps(job'),
         current' = current, store' \subseteq Gens \X Outputs, published' \in 0..MaxGen,
         tasks' \subseteq Gens \X Outputs
  PROVE  TypeOK' /\ GenerationsSpent'
BY SetTyped, Given, KeptIsNumbered, TypesOf

(* The outcome of every step.                                                *)
Outcome ==
  /\ TypeOK' /\ GenerationsSpent'
  /\ Rests \/ \E r \in Runs : Claims(r) \/ Goes(r) \/ Discards(r)

(* The steps of a live run that touch nothing but that run.                  *)
LEMMA WorksAlone ==
  ASSUME TypeOK, GenerationsSpent, NEW r \in Runs, run[r].at \in Live, NEW x \in RunRecords,
         Set(r, x), Keeps(job'), UNCHANGED <<current, store, published, tasks>>,
         x.gen = run[r].gen, x.at # "idle",
         x.at = "verified" /\ x.ready => KeysOf(run[r].gen) \subseteq store,
         x.at \in {"fenced", "refused"} => x.left = Outputs,
         x.at # "ended" => x.answer = "none",
         x.answer \in {"stale", "refused"} => ~x.ready
  PROVE  Outcome
<1>1. TypeOK' /\ GenerationsSpent'
  BY Given, RunStepTypes
<1>2. run'[r] = x /\ (\A q \in Runs \ {r} : run'[q] = run[q]) /\ x.at \in Steps
  BY SetTyped DEF RunRecords
<1>3. Goes(r)
  BY <1>2 DEF Goes, Others, Same, Keeps
<1> QED BY <1>1, <1>3 DEF Outcome

LEMMA LiveRun ==
  ASSUME TypeOK, RunsInv, NEW r \in Runs, run[r].at \in Live
  PROVE  run[r] \in RunRecords /\ run[r].answer = "none" /\ run[r].gen \in Gens
<1>1. run[r] \in RunRecords
  BY Given
<1>2. run[r].answer = "none" /\ run[r].gen # 0
  BY DEF Live, RunsInv, AnsweredAtEnd, OwnGeneration
<1> QED BY <1>1, <1>2, MaxGenIsNat DEF RunRecords, Gens

LEMMA EndsAlone ==
  ASSUME TypeOK, GenerationsSpent, RunsInv, NEW r \in Runs, run[r].at \in Live,
         NEW answer \in Answers, answer \in {"stale", "refused"} => ~run[r].ready,
         End(r, answer), Keeps(job'), UNCHANGED <<current, store, published, tasks>>
  PROVE  Outcome
<1> DEFINE x == [run[r] EXCEPT !.at = "ended", !.beating = FALSE, !.answer = answer]
<1>1. run[r] \in RunRecords
  BY Given
<1>2. x \in RunRecords /\ x.gen = run[r].gen /\ x.at = "ended" /\ x.ready = run[r].ready /\ x.answer = answer
  BY <1>1 DEF RunRecords, Steps
<1>3. Set(r, x)
  BY DEF End
<1> QED BY <1>2, <1>3, WorksAlone

-----------------------------------------------------------------------------
(* The steps of a worker.                                                    *)
LEMMA StageOutcome ==
  ASSUME TypeOK, GenerationsSpent, RunsInv, NEW r \in Runs, Stage(r) PROVE Outcome
<1>1. ASSUME Reject(r) \/ Fails(r) \/ AllPut(r) PROVE Outcome
  <2>1. run[r].at \in Live /\ run[r] \in RunRecords /\ run[r].answer = "none"
    BY <1>1, LiveRun DEF Reject, Fails, AllPut, Live, Steps
  <2>2. PICK at \in {"closing", "reporting"} : Set(r, [run[r] EXCEPT !.at = at])
    BY <1>1 DEF Reject, Fails, AllPut
  <2>3. PICK x : x = [run[r] EXCEPT !.at = at]
    OBVIOUS
  <2>4. x \in RunRecords /\ x.gen = run[r].gen /\ x.at = at /\ x.answer = "none"
    BY <2>1, <2>3 DEF RunRecords, Steps
  <2>5. Keeps(job') /\ UNCHANGED <<current, store, published, tasks>>
    BY <1>1, Given DEF Reject, Fails, AllPut
  <2> QED BY <2>1, <2>2, <2>3, <2>4, <2>5, WorksAlone
<1>2. ASSUME Prepare(r) PROVE Outcome
  <2>1. run[r].at \in Live /\ run[r] \in RunRecords /\ run[r].answer = "none"
    BY <1>2, LiveRun DEF Prepare, Live, Steps
  <2>2. Keeps(job') /\ UNCHANGED <<current, store, published, tasks>>
    BY <1>2, Given DEF Prepare
  <2>3. CASE End(r, "none")
    BY <2>1, <2>2, <2>3, EndsAlone DEF Answers
  <2>4. CASE Set(r, [run[r] EXCEPT !.at = "putting", !.ready = TRUE, !.left = Outputs])
    <3>1. PICK x : x = [run[r] EXCEPT !.at = "putting", !.ready = TRUE, !.left = Outputs]
      OBVIOUS
    <3>2. x \in RunRecords /\ x.gen = run[r].gen /\ x.at = "putting" /\ x.answer = "none"
      BY <2>1, <3>1 DEF RunRecords, Steps
    <3> QED BY <2>1, <2>2, <2>4, <3>1, <3>2, WorksAlone
  <2> QED BY <1>2, <2>3, <2>4 DEF Prepare
<1>3. ASSUME NEW o \in Outputs, Put(r, o) PROVE Outcome
  <2>1. run[r].at \in Live /\ run[r] \in RunRecords /\ run[r].answer = "none" /\ run[r].gen \in Gens
    BY <1>3, LiveRun DEF Put, Live, Steps
  <2>2. PICK x : x = [run[r] EXCEPT !.left = run[r].left \ {o}]
    OBVIOUS
  <2>3. x \in RunRecords /\ x.gen = run[r].gen /\ x.at = "putting" /\ x.answer = "none"
    BY <1>3, <2>1, <2>2 DEF RunRecords, Put
  <2>4. Set(r, x) /\ UNCHANGED <<job, current, published, tasks>> /\ store' = store \cup {Key(run[r].gen, o)}
    BY <1>3, <2>2 DEF Put
  <2>5. store' \subseteq Gens \X Outputs
    BY <2>1, <2>4, Given DEF Key
  <2>6. TypeOK' /\ GenerationsSpent'
    BY <2>3, <2>4, <2>5, Given, RunStepTypes
  <2>7. run'[r] = x /\ \A q \in Runs \ {r} : run'[q] = run[q]
    BY <2>3, <2>4, SetTyped
  <2>8. Goes(r)
    BY <2>1, <2>3, <2>4, <2>7 DEF Goes, Others, Same, Steps
  <2> QED BY <2>6, <2>8 DEF Outcome
<1> QED BY <1>1, <1>2, <1>3 DEF Stage

LEMMA ClaimOutcome ==
  ASSUME TypeOK, GenerationsSpent, RunsInv, NEW r \in Runs, Claim(r) PROVE Outcome
<1>1. /\ Numbered(job') /\ job'.gen = job.gen + 1 /\ job.gen + 1 \in 1..MaxGen
      /\ UNCHANGED <<current, store, published, tasks>>
  BY ClaimNumbers, AnotherGeneration DEF Claim, TypeOK
<1>2. job.gen \in Nat
  BY MaxGenIsNat DEF TypeOK
<1>3. CASE run' = run
  <2>1. TypeOK' /\ GenerationsSpent'
    BY <1>1, <1>3, Given, TypesOf
  <2>2. Rests
    BY <1>1, <1>2, <1>3 DEF Rests, Same
  <2> QED BY <2>1, <2>2 DEF Outcome
<1>4. ASSUME run' # run PROVE Outcome
  <2>1. PICK x : x = [Idle EXCEPT !.at = "working", !.gen = job.gen + 1, !.cap = LeaseTicks, !.beating = TRUE]
    OBVIOUS
  <2>2. x \in RunRecords /\ x.at = "working" /\ x.gen = job.gen + 1 /\ x.answer = "none"
    <3>1. Idle \in RunRecords /\ Idle.answer = "none" /\ job.gen + 1 \in 0..MaxGen
      BY <1>1, IdleTyped, MaxGenIsNat
    <3>2. LeaseTicks \in 0..LeaseTicks
      BY BoundsAssumption
    <3> QED BY <2>1, <3>1, <3>2 DEF RunRecords, Steps
  <2>3. Set(r, x)
    BY <1>4, <2>1 DEF Claim
  <2>4. run' \in [Runs -> RunRecords] /\ run'[r] = x /\ \A q \in Runs \ {r} : run'[q] = run[q]
    BY <2>2, <2>3, SetTyped
  <2>5. TypeOK' /\ GenerationsSpent'
    BY <1>1, <2>4, Given, TypesOf
  <2>6. Claims(r)
    BY <1>1, <2>2, <2>4 DEF Claims, Others, Same
  <2> QED BY <2>5, <2>6 DEF Outcome
<1> QED BY <1>3, <1>4

LEMMA ReportOutcome ==
  ASSUME TypeOK, GenerationsSpent, RunsInv, NEW r \in Runs,
         Post(r) \/ ReportFailure(r) \/ Crash(r)
  PROVE  Outcome
<1>1. run[r].at \in Live /\ run[r] \in RunRecords /\ run[r].answer = "none"
  BY LiveRun DEF Post, ReportFailure, Crash, Live, Steps
<1>2. Keeps(job') /\ UNCHANGED <<current, store, published, tasks>>
  BY Given, RetryKeeps DEF Post, ReportFailure, Crash, Fail
<1>3. CASE End(r, "none")
  BY <1>1, <1>2, <1>3, EndsAlone DEF Answers
<1>4. ASSUME NEW beating \in {run[r].beating, FALSE},
             Set(r, [run[r] EXCEPT !.at = "posted", !.beating = beating])
      PROVE  Outcome
  <2>1. PICK x : x = [run[r] EXCEPT !.at = "posted", !.beating = beating]
    OBVIOUS
  <2>2. x \in RunRecords /\ x.gen = run[r].gen /\ x.at = "posted" /\ x.answer = "none"
    BY <1>1, <2>1 DEF RunRecords, Steps
  <2> QED BY <1>1, <1>2, <1>4, <2>1, <2>2, WorksAlone
<1> QED BY <1>3, <1>4 DEF Post, ReportFailure, Crash

-----------------------------------------------------------------------------
(* The steps of the Edge, on a completion that was posted.                   *)
LEMMA VerifyOutcome ==
  ASSUME TypeOK, GenerationsSpent, RunsInv, NEW r \in Runs, CheckCapability(r) \/ VerifyOutputs(r)
  PROVE  Outcome
<1>1. run[r].at \in Live /\ run[r] \in RunRecords /\ run[r].answer = "none"
  BY LiveRun DEF CheckCapability, VerifyOutputs, Live, Steps
<1>2. Keeps(job') /\ UNCHANGED <<current, store, published, tasks>>
  BY Given DEF CheckCapability, VerifyOutputs
<1>3. CASE End(r, "none")
  BY <1>1, <1>2, <1>3, EndsAlone DEF Answers
<1>4. ASSUME NEW at \in {"verifying", "verified"}, Set(r, [run[r] EXCEPT !.at = at]),
             at = "verified" /\ run[r].ready => KeysOf(run[r].gen) \subseteq store
      PROVE  Outcome
  <2>1. PICK x : x = [run[r] EXCEPT !.at = at]
    OBVIOUS
  <2>2. /\ x \in RunRecords /\ x.gen = run[r].gen /\ x.at = at /\ x.answer = "none"
        /\ x.ready = run[r].ready
    BY <1>1, <2>1 DEF RunRecords, Steps
  <2> QED BY <1>1, <1>2, <1>4, <2>1, <2>2, WorksAlone
<1>5. ASSUME Set(r, [run[r] EXCEPT !.at = "refused", !.left = Outputs]) PROVE Outcome
  <2>1. PICK x : x = [run[r] EXCEPT !.at = "refused", !.left = Outputs]
    OBVIOUS
  <2>2. /\ x \in RunRecords /\ x.gen = run[r].gen /\ x.at = "refused" /\ x.answer = "none"
        /\ x.left = Outputs
    BY <1>1, <2>1 DEF RunRecords, Steps
  <2> QED BY <1>1, <1>2, <1>5, <2>1, <2>2, WorksAlone
<1> QED BY <1>3, <1>4, <1>5 DEF CheckCapability, VerifyOutputs

LEMMA AnsweredOutcome ==
  ASSUME TypeOK, GenerationsSpent, RunsInv, NEW r \in Runs, run[r].at = "verified",
         NEW answer \in {"stale", "already_applied"}, Answered(r, answer),
         Keeps(job'), UNCHANGED <<current, store, published, tasks>>
  PROVE  Outcome
<1>1. run[r].at \in Live /\ run[r] \in RunRecords /\ run[r].answer = "none"
  BY LiveRun DEF Live, Steps
<1>2. CASE answer = "stale" /\ run[r].ready
  <2>1. PICK x : x = [run[r] EXCEPT !.at = "fenced", !.left = Outputs]
    OBVIOUS
  <2>2. /\ x \in RunRecords /\ x.gen = run[r].gen /\ x.at = "fenced" /\ x.answer = "none"
        /\ x.left = Outputs
    BY <1>1, <2>1 DEF RunRecords, Steps
  <2> QED BY <1>1, <1>2, <2>1, <2>2, WorksAlone DEF Answered
<1>3. CASE ~(answer = "stale" /\ run[r].ready)
  BY <1>1, <1>3, EndsAlone DEF Answered, Answers
<1> QED BY <1>2, <1>3

LEMMA CompleteOutcome ==
  ASSUME TypeOK, GenerationsSpent, RunsInv, NEW r \in Runs, Complete(r) PROVE Outcome
<1>1. /\ run[r].at = "verified" /\ UNCHANGED <<current, store, tasks>>
      /\ run[r].at \in Live /\ run[r] \in RunRecords /\ run[r].gen \in Gens
  BY LiveRun DEF Complete, Live, Steps
<1>2. ASSUME NEW answer \in {"stale", "already_applied"}, Answered(r, answer),
             UNCHANGED <<job, published>>
      PROVE  Outcome
  BY <1>1, <1>2, Given, AnsweredOutcome
<1>3. ASSUME job' = [job EXCEPT !.state = "canceled", !.lease = 0, !.stage = 0],
             Answered(r, "stale"), UNCHANGED published
      PROVE  Outcome
  <2>1. Keeps(job')
    BY <1>3, EndKeeps DEF States
  <2> QED BY <1>1, <1>3, <2>1, AnsweredOutcome
<1>4. ASSUME job' = [job EXCEPT !.state = IF run[r].ready THEN "succeeded" ELSE "failed",
                                !.lease = 0, !.stage = 0],
             published' = IF run[r].ready THEN run[r].gen ELSE published, Answered(r, "applied")
      PROVE  Outcome
  <2>1. PICK s \in States : s = IF run[r].ready THEN "succeeded" ELSE "failed"
    BY DEF States
  <2>2. Keeps(job')
    BY <1>4, <2>1, EndKeeps
  <2>3. PICK x : x = [run[r] EXCEPT !.at = "ended", !.beating = FALSE, !.answer = "applied"]
    OBVIOUS
  <2>4. x \in RunRecords /\ x.gen = run[r].gen /\ x.at = "ended" /\ x.answer = "applied"
    BY <1>1, <2>3 DEF RunRecords, Steps, Answers
  <2>5. Set(r, x)
    BY <1>4, <2>3 DEF Answered, End
  <2>6. published' \in 0..MaxGen
    BY <1>1, <1>4, Given, MaxGenIsNat DEF Gens
  <2>7. TypeOK' /\ GenerationsSpent'
    BY <1>1, <2>2, <2>4, <2>5, <2>6, Given, RunStepTypes
  <2>8. run'[r] = x /\ \A q \in Runs \ {r} : run'[q] = run[q]
    BY <2>4, <2>5, SetTyped
  <2>9. Goes(r)
    BY <1>1, <1>4, <2>2, <2>4, <2>8 DEF Goes, Others, Same, Keeps, Steps
  <2> QED BY <2>7, <2>9 DEF Outcome
<1> QED BY <1>2, <1>3, <1>4 DEF Complete

LEMMA DiscardOutcome ==
  ASSUME TypeOK, GenerationsSpent, RunsInv, NEW r \in Runs, run[r].at \in {"fenced", "refused"},
         Discard(r) \/ EdgeDies(r)
  PROVE  Outcome
<1>1. /\ run[r] \in RunRecords /\ run[r].gen \in Gens /\ run[r].answer = "none"
      /\ UNCHANGED <<job, current, store, published>>
  <2>1. run[r] \in RunRecords /\ run[r].gen # 0 /\ run[r].answer = "none"
    BY Given DEF RunsInv, OwnGeneration, AnsweredAtEnd
  <2> QED BY <2>1, MaxGenIsNat DEF RunRecords, Gens, Discard, EdgeDies
<1>2. ASSUME NEW answer \in Answers, End(r, answer), answer = "none" \/ run[r].left = {}, tasks' = tasks
      PROVE  Outcome
  <2>1. PICK x : x = [run[r] EXCEPT !.at = "ended", !.beating = FALSE, !.answer = answer]
    OBVIOUS
  <2>2. x \in RunRecords /\ x.gen = run[r].gen /\ x.at = "ended" /\ x.answer = answer
    BY <1>1, <2>1 DEF RunRecords, Steps
  <2>3. Set(r, x)
    BY <1>2, <2>1 DEF End
  <2>4. TypeOK' /\ GenerationsSpent'
    BY <1>1, <1>2, <2>2, <2>3, Given, RunStepTypes
  <2>5. run'[r] = x /\ \A q \in Runs \ {r} : run'[q] = run[q]
    BY <2>2, <2>3, SetTyped
  <2>6. Discards(r)
    BY <1>1, <1>2, <2>2, <2>5 DEF Discards, Others, Same
  <2> QED BY <2>4, <2>6 DEF Outcome
<1>3. ASSUME NEW o \in run[r].left, tasks' = tasks \cup {Key(run[r].gen, o)},
             Set(r, [run[r] EXCEPT !.left = run[r].left \ {o}])
      PROVE  Outcome
  <2>1. PICK x : x = [run[r] EXCEPT !.left = run[r].left \ {o}]
    OBVIOUS
  <2>2. /\ x \in RunRecords /\ x.gen = run[r].gen /\ x.at = run[r].at /\ x.answer = "none"
        /\ x.left = run[r].left \ {o} /\ o \in Outputs
    BY <1>1, <2>1 DEF RunRecords
  <2>3. tasks' \subseteq Gens \X Outputs
    BY <1>1, <1>3, <2>2, Given DEF Key
  <2>4. TypeOK' /\ GenerationsSpent'
    BY <1>1, <1>3, <2>1, <2>2, <2>3, Given, RunStepTypes
  <2>5. run'[r] = x /\ \A q \in Runs \ {r} : run'[q] = run[q]
    BY <1>3, <2>1, <2>2, SetTyped
  <2>6. Discards(r)
    BY <1>1, <1>3, <2>2, <2>5 DEF Discards, Others, Same, KeysOf
  <2> QED BY <2>4, <2>6 DEF Outcome
<1>4. CASE Discard(r) /\ run[r].left = {}
  <2>1. PICK answer \in Answers : answer = IF run[r].at = "fenced" THEN "stale" ELSE "refused"
    BY DEF Answers
  <2> QED BY <1>2, <1>4, <2>1 DEF Discard
<1>5. CASE Discard(r) /\ run[r].left # {}
  BY <1>3, <1>5 DEF Discard
<1>6. CASE EdgeDies(r)
  BY <1>2, <1>6 DEF EdgeDies, Answers
<1> QED BY <1>4, <1>5, <1>6

LEMMA HandlerOutcome ==
  ASSUME TypeOK, GenerationsSpent, RunsInv, NEW r \in Runs, CompleteHandler(r) PROVE Outcome
<1>1. CASE EdgeDies(r) /\ run[r].at \notin {"fenced", "refused"}
  <2>1. run[r].at \in Live /\ Keeps(job') /\ UNCHANGED <<current, store, published, tasks>>
    BY <1>1, Given DEF EdgeDies, Live, Steps
  <2> QED BY <1>1, <2>1, EndsAlone DEF EdgeDies, Answers
<1>2. CASE Discard(r) \/ (EdgeDies(r) /\ run[r].at \in {"fenced", "refused"})
  BY <1>2, DiscardOutcome DEF Discard
<1>3. CASE CheckCapability(r) \/ VerifyOutputs(r)
  BY <1>3, VerifyOutcome
<1>4. CASE Complete(r)
  BY <1>4, CompleteOutcome
<1> QED BY <1>1, <1>2, <1>3, <1>4 DEF CompleteHandler

-----------------------------------------------------------------------------
(* Time, the heartbeats, the schedule, the member and the deletions.         *)
LEMMA HeartbeatOutcome ==
  ASSUME TypeOK, GenerationsSpent, RunsInv, NEW r \in Runs, Heartbeat(r) PROVE Outcome
<1>1. run[r] \in RunRecords
  BY Given
<1>2. PICK ticks : ticks = Renewal(r)
  OBVIOUS
<1>3. ticks \in 0..LeaseTicks /\ ticks <= job.stage
  BY <1>2, BoundsAssumption DEF Renewal, Renewed, TypeOK
<1>4. Keeps(job')
  <2>1. job.stage \in 0..StageTicks /\ [job EXCEPT !.lease = ticks] = [job EXCEPT !.lease = ticks, !.stage = job.stage]
    BY Given DEF JobRecords
  <2>2. Keeps([job EXCEPT !.lease = ticks])
    BY <1>3, <2>1, TimesKeep
  <2> QED BY <1>2, <2>2, Given DEF Heartbeat
<1>5. ASSUME NEW x \in RunRecords, Set(r, x), x.at = run[r].at, x.gen = run[r].gen,
             x.ready = run[r].ready, x.left = run[r].left, x.answer = run[r].answer
      PROVE  Outcome
  <2>1. TypeOK' /\ GenerationsSpent'
    BY <1>4, <1>5, Given, RunStepTypes DEF Heartbeat
  <2>2. run'[r] = x /\ \A q \in Runs \ {r} : run'[q] = run[q]
    BY <1>5, SetTyped
  <2>3. Rests
    BY <1>4, <1>5, <2>2, MaxGenIsNat, Given DEF Rests, Same, Heartbeat, Keeps, JobRecords
  <2> QED BY <2>1, <2>3 DEF Outcome
<1>6. run' = run \/ Set(r, [run[r] EXCEPT !.cap = ticks]) \/ Set(r, [run[r] EXCEPT !.lost = TRUE])
  BY <1>2 DEF Heartbeat
<1>7. CASE run' = run
  BY <1>1, <1>5, <1>7, Given DEF Set
<1>8. CASE Set(r, [run[r] EXCEPT !.cap = ticks])
  <2>1. PICK x : x = [run[r] EXCEPT !.cap = ticks]
    OBVIOUS
  <2>2. /\ x \in RunRecords /\ x.at = run[r].at /\ x.gen = run[r].gen
        /\ x.ready = run[r].ready /\ x.left = run[r].left /\ x.answer = run[r].answer
    BY <1>1, <1>3, <2>1 DEF RunRecords
  <2> QED BY <1>5, <1>8, <2>1, <2>2
<1>9. CASE Set(r, [run[r] EXCEPT !.lost = TRUE])
  <2>1. PICK x : x = [run[r] EXCEPT !.lost = TRUE]
    OBVIOUS
  <2>2. /\ x \in RunRecords /\ x.at = run[r].at /\ x.gen = run[r].gen
        /\ x.ready = run[r].ready /\ x.left = run[r].left /\ x.answer = run[r].answer
    BY <1>1, <2>1 DEF RunRecords
  <2> QED BY <1>5, <1>9, <2>1, <2>2
<1> QED BY <1>6, <1>7, <1>8, <1>9

LEMMA TickOutcome == ASSUME TypeOK, GenerationsSpent, RunsInv, Tick PROVE Outcome
<1>1. \A n \in Nat : Less(n) \in Nat /\ Less(n) <= n
  BY DEF Less
<1>2. \A m, n \in Nat : m <= n => Less(m) <= Less(n)
  BY DEF Less
<1>3. Keeps(job')
  <2>1. PICK l \in 0..LeaseTicks, m \in 0..StageTicks : l = Less(job.lease) /\ m = Less(job.stage) /\ l <= m
    <3>1. job.lease \in 0..LeaseTicks /\ job.stage \in 0..StageTicks /\ job.lease <= job.stage
      BY DEF TypeOK
    <3> QED BY <1>1, <1>2, <3>1, BoundsAssumption
  <2>2. job' = [job EXCEPT !.lease = l, !.stage = m]
    BY <2>1 DEF Tick
  <2> QED BY <2>1, <2>2, TimesKeep
<1>4. \A q \in Runs : run'[q] \in RunRecords /\ Same(q)
  <2> TAKE q \in Runs
  <2>1. PICK c : c = Less(run[q].cap)
    OBVIOUS
  <2>2. run[q] \in RunRecords /\ c \in 0..LeaseTicks
    BY <1>1, <2>1, Given, BoundsAssumption DEF RunRecords
  <2>3. run'[q] = [run[q] EXCEPT !.cap = c]
    BY <2>1 DEF Tick
  <2> QED BY <2>2, <2>3 DEF Same, RunRecords
<1>5. run' \in [Runs -> RunRecords]
  BY <1>4 DEF Tick
<1>6. TypeOK' /\ GenerationsSpent'
  BY <1>3, <1>5, Given, KeptIsNumbered, TypesOf DEF Tick
<1>7. Rests
  BY <1>3, <1>4, Given, MaxGenIsNat DEF Rests, Tick, Keeps, JobRecords
<1> QED BY <1>6, <1>7 DEF Outcome

LEMMA RowOutcome ==
  ASSUME TypeOK, GenerationsSpent, RunsInv,
         ClaimMoved \/ ExpireLease \/ RequeueDue \/ RetryManually \/ Move \/ DeleteRecorded
  PROVE  Outcome
<1>1. Numbered(job') /\ job'.gen = job.gen
  <2>1. Keeps(job) /\ Keeps(RetryOrFail(job)) /\ Keeps([job EXCEPT !.state = "canceled"])
        /\ Keeps([job EXCEPT !.state = "queued"])
        /\ Keeps([job EXCEPT !.state = "canceled", !.lease = 0, !.stage = 0])
    BY Given, RetryKeeps, StateKeeps, EndKeeps DEF States, Unended
  <2>2. CASE RetryManually
    BY <2>2, ManualNumbers DEF RetryManually, TypeOK
  <2>3. CASE ~RetryManually
    <3>1. Keeps(job')
      BY <2>1, <2>3 DEF ClaimMoved, ExpireLease, RequeueDue, Move, DeleteRecorded
    <3> QED BY <3>1, KeptIsNumbered DEF Keeps
  <2> QED BY <2>2, <2>3
<1>2. /\ run' = run /\ current' \in BOOLEAN /\ published' = published /\ tasks' = tasks
      /\ store' \subseteq store /\ store \ tasks \subseteq store'
  BY Given DEF ClaimMoved, ExpireLease, RequeueDue, RetryManually, Move, DeleteRecorded
<1>3. TypeOK' /\ GenerationsSpent'
  BY <1>1, <1>2, Given, TypesOf
<1>4. Rests
  BY <1>1, <1>2, Given, MaxGenIsNat DEF Rests, Same, JobRecords
<1> QED BY <1>3, <1>4 DEF Outcome

-----------------------------------------------------------------------------
LEMMA NextHolds == IInv /\ [Next]_vars => IInv'
<1> SUFFICES ASSUME IInv, [Next]_vars PROVE IInv'
  OBVIOUS
<1>1. CASE UNCHANGED vars
  BY <1>1 DEF vars, IInv, TypeOK, GenerationsSpent, RunsInv, OwnGeneration, LiveRunsUntouched,
     VerifiedPresent, DiscardsRecorded, AnsweredAtEnd, PublishedWhole, FencedOutputsRecorded
<1>2. CASE Next
  <2>1. Outcome
    BY <1>2, StageOutcome, ClaimOutcome, ReportOutcome, HandlerOutcome, HeartbeatOutcome, TickOutcome,
       RowOutcome DEF IInv, Next, RunJob
  <2>2. RunsInv'
    BY <2>1, RestKeepsRuns, ClaimKeepsRuns, GoKeepsRuns, DiscardKeepsRuns DEF IInv, Outcome
  <2> QED BY <2>1, <2>2 DEF IInv, Outcome
<1> QED BY <1>1, <1>2

(* The inductive invariant: generations cost attempts, no two runs have one, *)
(* and until its completion is answered a run's outputs are neither shown    *)
(* nor recorded for deletion. [svc_claim_job, completeStage]                 *)
THEOREM RunInvariance == Spec => []IInv
BY InitHolds, NextHolds, PTL DEF Spec

(* Whatever runs overlap, crash or come late, what the target shows is whole *)
(* and not to be deleted, and what a fenced run uploaded is recorded.        *)
(*                                           [completeStage, discardOutputs] *)
THEOREM OutputsStayAccounted == Spec => []OutputsAccounted
<1>1. IInv => OutputsAccounted
  BY DEF IInv, RunsInv, OutputsAccounted
<1> QED BY <1>1, RunInvariance, PTL

(* Only the run whose lease the job still records publishes, and only for a  *)
(* target that has not moved. [svc_complete_item_stage]                      *)
THEOREM NewestPublish == Spec => NewestPublishes
<1>1. IInv /\ [Next]_vars =>
        [published' # published => published' = job.gen /\ job.state = "running" /\ current]_vars
  BY DEF IInv, Next, RunJob, Claim, Stage, Reject, Fails, Prepare, Put, AllPut, Post, ReportFailure,
     Crash, Heartbeat, CompleteHandler, CheckCapability, VerifyOutputs, Complete, Holds, Discard,
     EdgeDies, Tick, ClaimMoved, ExpireLease, RequeueDue, RetryManually, Move, DeleteRecorded, vars
<1> QED BY <1>1, RunInvariance, PTL DEF Spec, NewestPublishes

LEMMA LeaseEndsByItsOwn ==
  ASSUME TypeOK, Next, job.state = "running", job.lease > 0, job'.state # "running"
  PROVE  current # current' \/ \E r \in Runs : run[r].gen = job.gen /\ run'[r] # run[r]
<1>1. ASSUME NEW r \in Runs, ReportFailure(r) \/ Complete(r)
      PROVE  run[r].gen = job.gen /\ run'[r] # run[r]
  <2>1. Holds(r)
    BY <1>1 DEF ReportFailure, Fail, Complete, Holds
  <2>2. PICK x : Set(r, x) /\ x.at # run[r].at
    <3>1. run[r] \in RunRecords
      BY Given
    <3>2. run[r].at \in {"reporting", "verified"}
      BY <1>1 DEF ReportFailure, Complete
    <3>3. \A a : [run[r] EXCEPT !.at = "ended", !.beating = FALSE, !.answer = a].at # run[r].at
      BY <3>1, <3>2 DEF RunRecords
    <3>4. [run[r] EXCEPT !.at = "fenced", !.left = Outputs].at # run[r].at
      BY <3>1, <3>2 DEF RunRecords
    <3>5. \/ \E a : End(r, a)
          \/ Set(r, [run[r] EXCEPT !.at = "fenced", !.left = Outputs])
      BY <1>1 DEF ReportFailure, Complete, Answered
    <3> QED BY <3>3, <3>4, <3>5 DEF End
  <2>3. run'[r] = x
    BY <2>2 DEF Set, TypeOK
  <2> QED BY <2>1, <2>2, <2>3 DEF Holds
<1>2. ASSUME NEW r \in Runs, Claim(r) PROVE FALSE
  BY <1>2 DEF Claim
<1>3. ASSUME NEW r \in Runs, Heartbeat(r) PROVE FALSE
  BY <1>3 DEF Heartbeat, TypeOK
<1>4. Tick => FALSE
  BY DEF Tick, TypeOK
<1>5. ClaimMoved \/ ExpireLease \/ RequeueDue \/ RetryManually => FALSE
  BY DEF ClaimMoved, ExpireLease, RequeueDue, RetryManually
<1>6. job' # job
  OBVIOUS
<1>7. Move => current' # current
  <2> HAVE Move
  <2>1. current = TRUE /\ current' = FALSE
    BY DEF Move, TypeOK
  <2> QED BY <2>1
<1>8. \A r \in Runs : ~(Stage(r) \/ Post(r) \/ Crash(r) \/ CheckCapability(r) \/ VerifyOutputs(r)
                         \/ Discard(r) \/ EdgeDies(r))
  BY <1>6 DEF Stage, Reject, Fails, Prepare, Put, AllPut, Post, Crash, CheckCapability,
     VerifyOutputs, Discard, EdgeDies
<1>9. ~DeleteRecorded
  BY <1>6 DEF DeleteRecorded
<1> QED BY <1>1, <1>2, <1>3, <1>4, <1>5, <1>7, <1>8, <1>9 DEF Next, RunJob, CompleteHandler

(* A live lease is ended by the run that holds it or by the target that      *)
(* moved: that no two runs have one generation is why another run's report   *)
(* cannot end it. [svc_fail_job_attempt, svc_complete_item_stage]            *)
THEOREM LiveLeaseKept == Spec => LiveLeaseNotTaken
<1>1. IInv /\ [Next]_vars =>
        [job.state = "running" /\ job.lease > 0 /\ job'.state # "running" =>
           \/ current # current'
           \/ \E r \in Runs : run[r].gen = job.gen /\ run'[r] # run[r]]_vars
  BY LeaseEndsByItsOwn DEF IInv
<1> QED BY <1>1, RunInvariance, PTL DEF Spec, LiveLeaseNotTaken

(***************************************************************************)
(* The composition.                                                        *)
(***************************************************************************)
(* Whatever part is chosen, the worker makes steps of its own or none, so    *)
(* that the theorems above hold of the composition.                          *)
LEMMA StorageIsWorker == StorageSpec => Spec
<1>1. StorageInit => Init
  BY DEF StorageInit
<1>2. [StorageNext]_allVars => [Next]_vars
  BY DEF StorageNext, allVars, vars
<1> QED BY <1>1, <1>2, PTL DEF StorageSpec, Spec

(* Each part's constants are what its theorems ask of them.                  *)
LEMMA StageBounds == Photos!Bounds /\ Tags!Bounds /\ Retries!Bounds
BY DEF Photos!Bounds, Tags!Bounds, Retries!Bounds

(* A behaviour is one of the part chosen at its start.                       *)
LEMMA StagesStart ==
  ASSUME StorageInit
  PROVE  /\ part = "photos" => Photos!Init
         /\ part = "tags" => Tags!Init
         /\ part = "retries" => Retries!Init
BY DEF StorageInit

LEMMA StagesMove ==
  ASSUME [StorageNext]_allVars
  PROVE  /\ part' = part
         /\ part = "photos" => [Photos!Next]_(Photos!vars)
         /\ part = "tags" => [Tags!Next]_(Tags!vars)
         /\ part = "retries" => [Retries!Next]_(Retries!vars)
<1>1. CASE StorageNext
  BY <1>1 DEF StorageNext
<1>2. CASE UNCHANGED allVars
  BY <1>2 DEF allVars, stageVars, Photos!vars, Tags!vars, Retries!vars
<1> QED BY <1>1, <1>2

StageParts ==
  /\ part = "photos" => Photos!IInv
  /\ part = "tags" => Tags!IInv
  /\ part = "retries" => Retries!IInv

LEMMA StagesBegin == ASSUME StorageInit PROVE StageParts
<1>1. part = "photos" => Photos!IInv
  BY StageBounds, StagesStart, Photos!InitStages, Photos!InitKeys DEF Photos!IInv
<1>2. part = "tags" => Tags!IInv
  BY StageBounds, StagesStart, Tags!InitStages, Tags!InitKeys DEF Tags!IInv
<1>3. part = "retries" => Retries!IInv
  BY StageBounds, StagesStart, Retries!InitStages, Retries!InitKeys DEF Retries!IInv
<1> QED BY <1>1, <1>2, <1>3 DEF StageParts

LEMMA StagesContinue == ASSUME StageParts, [StorageNext]_allVars PROVE StageParts'
<1>1. part = "photos" => Photos!IInv'
  BY StageBounds, StagesMove, Photos!NextStages, Photos!NextKeys DEF StageParts, Photos!IInv
<1>2. part = "tags" => Tags!IInv'
  BY StageBounds, StagesMove, Tags!NextStages, Tags!NextKeys DEF StageParts, Tags!IInv
<1>3. part = "retries" => Retries!IInv'
  BY StageBounds, StagesMove, Retries!NextStages, Retries!NextKeys DEF StageParts, Retries!IInv
<1> QED BY <1>1, <1>2, <1>3, StagesMove DEF StageParts

LEMMA StagesKept == StorageSpec => []StageParts
<1>1. StorageInit => StageParts
  BY StagesBegin
<1>2. StageParts /\ [StorageNext]_allVars => StageParts'
  BY StagesContinue
<1> QED BY <1>1, <1>2, PTL DEF StorageSpec

(* Of the deletion, whose keys are told apart.                               *)
LEMMA MediaBounds == OfOutputs!KeysAssumption /\ OfUploads!KeysAssumption
BY DEF OfOutputs!KeysAssumption, OfUploads!KeysAssumption

MediaParts ==
  /\ part = "outputs" => OfOutputs!MediaInv
  /\ part = "uploads" => OfUploads!MediaInv

LEMMA MediaKept == StorageSpec => []MediaParts
<1>1. StorageInit => MediaParts
  BY MediaBounds, OfOutputs!InitMedia, OfUploads!InitMedia DEF StorageInit, MediaParts
<1>2. ASSUME MediaParts, [StorageNext]_allVars PROVE MediaParts'
  <2>1. /\ part' = part
        /\ part = "outputs" => [OfOutputs!Next]_(OfOutputs!vars)
        /\ part = "uploads" => [OfUploads!Next]_(OfUploads!vars)
    <3>1. CASE StorageNext
      BY <3>1 DEF StorageNext
    <3>2. CASE UNCHANGED allVars
      BY <3>2 DEF allVars, media, OfOutputs!vars, OfUploads!vars
    <3> QED BY <1>2, <3>1, <3>2
  <2>2. part = "outputs" => OfOutputs!MediaInv'
    BY <1>2, <2>1, MediaBounds, OfOutputs!NextIsStep, OfOutputs!StepKeepsMedia DEF MediaParts
  <2>3. part = "uploads" => OfUploads!MediaInv'
    BY <1>2, <2>1, MediaBounds, OfUploads!NextIsStep, OfUploads!StepKeepsMedia DEF MediaParts
  <2> QED BY <2>1, <2>2, <2>3 DEF MediaParts
<1> QED BY <1>1, <1>2, PTL DEF StorageSpec

(* What is shown and recorded of a piece belongs to the photo it has now,    *)
(* and a piece in deletion has no work left (ItemStages).                    *)
THEOREM PiecesShowTheirPhoto == StorageSpec => []StagesFollowThePiece
<1>1. StageParts => StagesFollowThePiece
  BY DEF StageParts, StagesFollowThePiece, Photos!IInv, Photos!StagesInv, Tags!IInv, Tags!StagesInv,
     Retries!IInv, Retries!StagesInv
<1> QED BY <1>1, StagesKept, PTL

(* A photo is paid for no more often than it was asked for (ItemStages).     *)
THEOREM PhotosPaidAsAsked == StorageSpec => []StagesPaidAsAsked
<1>1. StageParts => StagesPaidAsAsked
  BY StageBounds, Tags!PaidWithinRequests, Retries!PaidWithinRequests DEF StageParts, StagesPaidAsAsked
<1> QED BY <1>1, StagesKept, PTL

(* No late answer is applied (ItemStages).                                   *)
THEOREM NoLateAnswer == StorageSpec => LateResultsNeverApplied
<1>1. StageParts /\ [StorageNext]_allVars =>
        [/\ part = "photos" => Photos!AppliesToItsRevision
         /\ part = "tags" => Tags!AppliesToItsRevision
         /\ part = "retries" => Retries!AppliesToItsRevision]_allVars
  <2> SUFFICES ASSUME StageParts, StorageNext
               PROVE  /\ part = "photos" => Photos!AppliesToItsRevision
                      /\ part = "tags" => Tags!AppliesToItsRevision
                      /\ part = "retries" => Retries!AppliesToItsRevision
    OBVIOUS
  <2>1. /\ part = "photos" => Photos!Next
        /\ part = "tags" => Tags!Next
        /\ part = "retries" => Retries!Next
    BY DEF StorageNext
  <2> QED BY <2>1, StageBounds, Photos!StepApplies, Tags!StepApplies, Retries!StepApplies
          DEF StageParts, Photos!IInv, Tags!IInv, Retries!IInv
<1> QED BY <1>1, StagesKept, PTL DEF StorageSpec, LateResultsNeverApplied

(* Deletion takes neither too much nor too little: what the registry shows   *)
(* stays, what was rechecked never comes back, and an identity goes last     *)
(* (MediaDeletion). [svc_reconcile_storage, svc_account_deletions_ready]     *)
THEOREM DeletedNoMoreNoLess == StorageSpec => []DeletedAsRecorded
<1>1. MediaParts => DeletedAsRecorded
  <2>1. OfOutputs!MediaInv =>
          OfOutputs!TypeOK /\ OfOutputs!PublishedKept /\ OfOutputs!ObjectsBeforeIdentity
    BY OfOutputs!MediaSays DEF OfOutputs!MediaInv
  <2>2. OfUploads!MediaInv =>
          OfUploads!TypeOK /\ OfUploads!RecheckedStaysGone /\ OfUploads!ObjectsBeforeIdentity
    BY OfUploads!MediaSays DEF OfUploads!MediaInv
  <2> QED BY <2>1, <2>2 DEF MediaParts, DeletedAsRecorded
<1> QED BY <1>1, MediaKept, PTL
=============================================================================

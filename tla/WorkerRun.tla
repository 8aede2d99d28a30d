------------------------------ MODULE WorkerRun ------------------------------
(***************************************************************************)
(* One job and the worker processes that run it: the claim, the heartbeat  *)
(* thread, the uploads of the outputs to signed URLs, and the completion   *)
(* the Edge function checks, applies or discards.                          *)
(*                                                                         *)
(* A worker step is one request it sends or one branch it takes; an Edge   *)
(* step is what happens between two of its awaits, so that a lease may     *)
(* expire, the job may be claimed again or its target may move between any *)
(* two of them.  Time is counted in ticks: a lease, a capability and the   *)
(* signed URLs given with it end together, and a stage has a deadline.     *)
(* What a stage computes is left out: a run prepares its outputs, rejects  *)
(* the photo, or fails.                                                    *)
(***************************************************************************)
EXTENDS Integers, FiniteSets

CONSTANTS
  Outputs,      \* names of the stage's outputs, each its own object
  Runs,         \* worker processes
  MaxAttempts,  \* job_limits.max_attempts
  MaxManual,    \* manual retries allowed after a failure
  LeaseTicks,   \* job_limits.lease_seconds, in ticks
  StageTicks    \* job_limits.stage_deadline_seconds, in ticks

ASSUME BoundsAssumption ==
  /\ MaxAttempts \in Nat \ {0}
  /\ MaxManual \in Nat
  /\ LeaseTicks \in Nat \ {0}
  /\ StageTicks \in Nat \ {0}
  /\ LeaseTicks <= StageTicks

VARIABLES
  job,        \* the row of private.jobs
  current,    \* the target still is what the job was queued for
  run,        \* what each worker process, or the Edge for it, is doing
  store,      \* object keys present in the bucket
  published,  \* generation whose outputs the target shows, 0 for none
  tasks       \* object keys recorded in private.deletion_tasks

vars == <<job, current, run, store, published, tasks>>

MaxGen == MaxAttempts * (1 + MaxManual)
Gens == 1..MaxGen

(* The object key of an output carries the generation of its lease.          *)
KeyForAllGenerations(g, o) == <<1, o>>
Key(g, o) == <<g, o>>
KeysOf(g) == {Key(g, o) : o \in Outputs}

Unended == {"queued", "running", "retry_wait"}
Steps == {"idle", "working", "putting", "closing", "posted", "verifying", "verified",
          "fenced", "refused", "reporting", "ended"}
Idle == [at |-> "idle", gen |-> 0, cap |-> 0, lost |-> FALSE, beating |-> FALSE,
         ready |-> FALSE, left |-> {}, answer |-> "none"]

TypeOK ==
  /\ job \in [state : Unended \cup {"succeeded", "failed", "canceled"}, gen : 0..MaxGen,
              attempts : 0..MaxAttempts, manual : 0..MaxManual,
              lease : 0..LeaseTicks, stage : 0..StageTicks]
  /\ job.lease <= job.stage
  /\ current \in BOOLEAN
  /\ run \in [Runs -> [at : Steps, gen : 0..MaxGen, cap : 0..LeaseTicks,
                       lost : BOOLEAN, beating : BOOLEAN, ready : BOOLEAN,
                       left : SUBSET Outputs,
                       answer : {"none", "applied", "already_applied", "stale", "refused"}]]
  /\ store \subseteq Gens \X Outputs
  /\ published \in 0..MaxGen
  /\ tasks \subseteq Gens \X Outputs

Init ==
  /\ job = [state |-> "queued", gen |-> 0, attempts |-> 0, manual |-> 0,
            lease |-> 0, stage |-> 0]
  /\ current = TRUE
  /\ run = [r \in Runs |-> Idle]
  /\ store = {}
  /\ published = 0
  /\ tasks = {}

Set(r, x) == run' = [run EXCEPT ![r] = x]
End(r, answer) == Set(r, [run[r] EXCEPT !.at = "ended", !.beating = FALSE, !.answer = answer])

-----------------------------------------------------------------------------
(* Time passes for every lease and every capability alike.                   *)
Less(n) == IF n = 0 THEN 0 ELSE n - 1
Tick ==
  /\ job.stage > 0 \/ \E r \in Runs : run[r].cap > 0
  /\ job' = [job EXCEPT !.lease = Less(job.lease), !.stage = Less(job.stage)]
  /\ run' = [r \in Runs |-> [run[r] EXCEPT !.cap = Less(run[r].cap)]]
  /\ UNCHANGED <<current, store, published, tasks>>

(* A claim commits before its answer arrives, and the answer may be lost.    *)
Claim(r) ==
  /\ run[r].at \in {"idle", "ended"}
  /\ job.state = "queued"
  /\ job.attempts < MaxAttempts
  /\ current
  /\ job' = [job EXCEPT !.state = "running", !.gen = job.gen + 1,
                        !.attempts = job.attempts + 1,
                        !.lease = LeaseTicks, !.stage = StageTicks]
  /\ \/ Set(r, [Idle EXCEPT !.at = "working", !.gen = job.gen + 1, !.cap = LeaseTicks,
                            !.beating = TRUE])
     \/ UNCHANGED run
  /\ UNCHANGED <<current, store, published, tasks>>

(* The claim of a job whose target has moved cancels it.                     *)
ClaimMoved ==
  /\ job.state = "queued"
  /\ ~current
  /\ job' = [job EXCEPT !.state = "canceled"]
  /\ UNCHANGED <<current, run, store, published, tasks>>

(* jobCapability: the bearer's signature, job and generation are the run's   *)
(* own, so only its expiry is left to check.                                 *)
Capable(r) == run[r].cap > 0

HoldsAnyLease(r) == job.state = "running"
Holds(r) == job.state = "running" /\ job.gen = run[r].gen

(* svc_heartbeat_job: until when the lease may run, 0 when it is refused.    *)
Renewed(r) ==
  IF Holds(r) /\ job.lease > 0 /\ job.stage > 0
  THEN IF LeaseTicks < job.stage THEN LeaseTicks ELSE job.stage
  ELSE 0

(* The handler: a bearer that expired cannot renew.                          *)
Renewal(r) == IF Capable(r) THEN Renewed(r) ELSE 0

(* One turn of the heartbeat thread.  An answer other than "renewed" marks   *)
(* the lease lost; an answer that never arrives is tried again.              *)
Heartbeat(r) ==
  LET ticks == Renewal(r) IN
  /\ run[r].beating
  /\ ~run[r].lost
  /\ IF ticks > 0
     THEN /\ job' = [job EXCEPT !.lease = ticks]
          /\ \/ Set(r, [run[r] EXCEPT !.cap = ticks])
             \/ UNCHANGED run
     ELSE /\ Set(r, [run[r] EXCEPT !.lost = TRUE])
          /\ UNCHANGED job
  /\ UNCHANGED <<current, store, published, tasks>>

-----------------------------------------------------------------------------
(* The stage: what it read is missing or unusable, it failed for another     *)
(* reason, or its outputs are ready and the lease is looked at once.         *)
Reject(r) ==
  /\ run[r].at = "working"
  /\ Set(r, [run[r] EXCEPT !.at = "closing"])
  /\ UNCHANGED <<job, current, store, published, tasks>>

Fails(r) ==
  /\ run[r].at \in {"working", "putting"}
  /\ Set(r, [run[r] EXCEPT !.at = "reporting"])
  /\ UNCHANGED <<job, current, store, published, tasks>>

Prepare(r) ==
  /\ run[r].at = "working"
  /\ IF run[r].lost /\ Outputs # {}
     THEN End(r, "none")
     ELSE Set(r, [run[r] EXCEPT !.at = "putting", !.ready = TRUE, !.left = Outputs])
  /\ UNCHANGED <<job, current, store, published, tasks>>

(* Each output is put to its own signed URL; an expired one is refused.      *)
Put(r, o) ==
  /\ run[r].at = "putting"
  /\ o \in run[r].left
  /\ Capable(r)
  /\ store' = store \cup {Key(run[r].gen, o)}
  /\ Set(r, [run[r] EXCEPT !.left = run[r].left \ {o}])
  /\ UNCHANGED <<job, current, published, tasks>>

AllPut(r) ==
  /\ run[r].at = "putting"
  /\ run[r].left = {}
  /\ Set(r, [run[r] EXCEPT !.at = "closing"])
  /\ UNCHANGED <<job, current, store, published, tasks>>

(* The heartbeat is stopped and the lease looked at again, then the result   *)
(* is posted.  A heartbeat already sent may outlive the five seconds the     *)
(* worker waits for its thread.                                              *)
Post(r) ==
  /\ run[r].at = "closing"
  /\ IF run[r].lost
     THEN End(r, "none")
     ELSE \E beating \in {run[r].beating, FALSE} :
            Set(r, [run[r] EXCEPT !.at = "posted", !.beating = beating])
  /\ UNCHANGED <<job, current, store, published, tasks>>

(* A worker process may die at any point before its last request.            *)
Crash(r) ==
  /\ run[r].at \in {"working", "putting", "closing", "reporting"}
  /\ End(r, "none")
  /\ UNCHANGED <<job, current, store, published, tasks>>

-----------------------------------------------------------------------------
(* retry_or_fail.                                                            *)
RetryOrFail(j) ==
  [j EXCEPT !.state = IF j.attempts >= MaxAttempts THEN "failed" ELSE "retry_wait",
            !.lease = 0, !.stage = 0]

(* The failure report, which may be lost or refused.                         *)
Fail(r) == job' = IF Capable(r) /\ Holds(r) THEN RetryOrFail(job) ELSE job

ReportFailure(r) ==
  /\ run[r].at = "reporting"
  /\ Fail(r) \/ UNCHANGED job
  /\ End(r, "none")
  /\ UNCHANGED <<current, store, published, tasks>>

(* The Edge handler of a completion checks the capability, then reads every  *)
(* output back and compares it with what the worker said of it.              *)
CheckCapability(r) ==
  /\ run[r].at = "posted"
  /\ IF Capable(r) THEN Set(r, [run[r] EXCEPT !.at = "verifying"]) ELSE End(r, "none")
  /\ UNCHANGED <<job, current, store, published, tasks>>

VerifyOutputs(r) ==
  /\ run[r].at = "verifying"
  /\ \/ /\ run[r].ready => KeysOf(run[r].gen) \subseteq store
        /\ Set(r, [run[r] EXCEPT !.at = "verified"])
     \/ /\ run[r].ready
        /\ Set(r, [run[r] EXCEPT !.at = "refused", !.left = Outputs])
  /\ UNCHANGED <<job, current, store, published, tasks>>

(* The completing transaction, and what the handler does with its answer.    *)
Answered(r, answer) ==
  IF answer = "stale" /\ run[r].ready
  THEN Set(r, [run[r] EXCEPT !.at = "fenced", !.left = Outputs])
  ELSE End(r, answer)

Complete(r) ==
  /\ run[r].at = "verified"
  /\ \/ /\ job.state \in {"succeeded", "failed"} /\ job.gen = run[r].gen
        /\ Answered(r, "already_applied")
        /\ UNCHANGED <<job, published>>
     \/ /\ ~(job.state \in {"succeeded", "failed"} /\ job.gen = run[r].gen) /\ ~Holds(r)
        /\ Answered(r, "stale")
        /\ UNCHANGED <<job, published>>
     \/ /\ Holds(r) /\ ~current
        /\ job' = [job EXCEPT !.state = "canceled", !.lease = 0, !.stage = 0]
        /\ Answered(r, "stale")
        /\ UNCHANGED published
     \/ /\ Holds(r) /\ current
        /\ job' = [job EXCEPT !.state = IF run[r].ready THEN "succeeded" ELSE "failed",
                              !.lease = 0, !.stage = 0]
        /\ published' = IF run[r].ready THEN run[r].gen ELSE published
        /\ Answered(r, "applied")
  /\ UNCHANGED <<current, store, tasks>>

(* discardOutputs: every output of a fenced or refused completion is         *)
(* recorded, one transaction each, before the answer is sent.                *)
Discard(r) ==
  /\ run[r].at \in {"fenced", "refused"}
  /\ IF run[r].left = {}
     THEN /\ End(r, IF run[r].at = "fenced" THEN "stale" ELSE "refused")
          /\ UNCHANGED tasks
     ELSE \E o \in run[r].left :
            /\ tasks' = tasks \cup {Key(run[r].gen, o)}
            /\ Set(r, [run[r] EXCEPT !.left = run[r].left \ {o}])
  /\ UNCHANGED <<job, current, store, published>>

(* The Edge runtime may stop between any two of its steps.                   *)
EdgeDies(r) ==
  /\ run[r].at \in {"posted", "verifying", "verified", "fenced", "refused"}
  /\ End(r, "none")
  /\ UNCHANGED <<job, current, store, published, tasks>>

-----------------------------------------------------------------------------
(* svc_reconcile_jobs of the minute schedule.                                *)
ExpireLease ==
  /\ job.state = "running"
  /\ job.lease = 0
  /\ job' = RetryOrFail(job)
  /\ UNCHANGED <<current, run, store, published, tasks>>

RequeueDue ==
  /\ job.state = "retry_wait"
  /\ job' = [job EXCEPT !.state = "queued"]
  /\ UNCHANGED <<current, run, store, published, tasks>>

(* The member asks for the failed job again.                                 *)
RetryManually ==
  /\ job.state = "failed"
  /\ current
  /\ job.manual < MaxManual
  /\ job' = [job EXCEPT !.state = "queued", !.attempts = 0, !.manual = job.manual + 1]
  /\ UNCHANGED <<current, run, store, published, tasks>>

(* The upload is canceled, or the piece gets a new photo or is deleted: work *)
(* not begun is canceled, work under way only if the target is gone.         *)
Move ==
  /\ current
  /\ current' = FALSE
  /\ job' \in {[job EXCEPT !.state = "canceled", !.lease = 0, !.stage = 0], job}
  /\ job' = job => job.state \notin {"queued", "retry_wait"}
  /\ job' # job => job.state \in Unended
  /\ UNCHANGED <<run, store, published, tasks>>

(* A recorded object is deleted, right after the answer or by the schedule.  *)
DeleteRecorded ==
  /\ \E k \in tasks \cap store : store' = store \ {k}
  /\ UNCHANGED <<job, current, run, published, tasks>>

Stage(r) == Reject(r) \/ Fails(r) \/ Prepare(r) \/ (\E o \in Outputs : Put(r, o)) \/ AllPut(r)
RunJob(r) == Claim(r) \/ Stage(r) \/ Post(r) \/ ReportFailure(r) \/ Crash(r)
CompleteHandler(r) == CheckCapability(r) \/ VerifyOutputs(r) \/ Complete(r) \/ Discard(r) \/ EdgeDies(r)
Next ==
  \/ \E r \in Runs : RunJob(r) \/ Heartbeat(r) \/ CompleteHandler(r)
  \/ Tick \/ ClaimMoved \/ ExpireLease \/ RequeueDue \/ RetryManually \/ Move \/ DeleteRecorded

Spec == Init /\ [][Next]_vars

(* Time passes, the schedule runs, and a queued job is dispatched until a    *)
(* worker claims it.  No worker and no Edge call is assumed to go on, but    *)
(* none outlives its platform's time limit.                                  *)
Dispatched == ClaimMoved \/ \E r \in Runs : Claim(r)
FairSpec ==
  /\ Spec
  /\ WF_vars(Tick) /\ WF_vars(ExpireLease) /\ WF_vars(RequeueDue)
  /\ WF_vars(Dispatched)
  /\ \A r \in Runs : WF_vars(Crash(r) \/ EdgeDies(r))

-----------------------------------------------------------------------------
(* What the target shows is whole: every output of the published generation  *)
(* is in the bucket and none of them was ever recorded for deletion, by this *)
(* run's answer or by that of a fenced run.  [completeStage, discardOutputs] *)
PublishedWhole ==
  published # 0 => KeysOf(published) \subseteq store \ tasks

(* Only the run whose lease the job still records, for a target that has not *)
(* moved, publishes; a run that lost its lease publishes nothing whatever it *)
(* has uploaded.                                   [svc_complete_item_stage] *)
NewestPublishes ==
  [][published' # published =>
       /\ published' = job.gen
       /\ job.state = "running"
       /\ current]_vars

(* A live lease is ended by the run that holds it or by the target that      *)
(* moved, never by another run's report.              [svc_fail_job_attempt] *)
LiveLeaseNotTaken ==
  [][job.state = "running" /\ job.lease > 0 /\ job'.state # "running" =>
       \/ current # current'
       \/ \E r \in Runs : run[r].gen = job.gen /\ run'[r] # run[r]]_vars

(* Once the worker of a fenced or refused completion has its answer, every   *)
(* output it uploaded is recorded for deletion.             [discardOutputs] *)
FencedOutputsRecorded ==
  \A r \in Runs :
    run[r].answer \in {"stale", "refused"} /\ run[r].ready => KeysOf(run[r].gen) \subseteq tasks

(* What the target shows is whole, and whatever a fenced run uploaded is     *)
(* recorded for deletion.                    [completeStage, discardOutputs] *)
OutputsAccounted == TypeOK /\ PublishedWhole /\ FencedOutputsRecorded

(* Whatever workers and Edge calls do, hang with a beating heart included,   *)
(* the job ends.                         [svc_heartbeat_job's stage deadline] *)
JobSettles == job.state \in Unended ~> job.state \notin Unended

(* Any answered completion whose outputs were uploaded and not published has *)
(* queued them for deletion.                 [completeStage; see README, §4] *)
AnsweredOutputsAccounted ==
  \A r \in Runs :
    run[r].answer \notin {"none"} /\ run[r].ready =>
      published = run[r].gen \/ KeysOf(run[r].gen) \subseteq tasks

(* A run that knows its lease is lost uploads nothing more.                  *)
(*                                                    [Lease; README, §4]    *)
LostUploadsNothing ==
  [][\A r \in Runs : run[r].lost => \A o \in Outputs :
       Key(run[r].gen, o) \in store' => Key(run[r].gen, o) \in store]_vars
=============================================================================

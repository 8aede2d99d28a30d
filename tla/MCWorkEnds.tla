----------------------------- MODULE MCWorkEnds -----------------------------
(* Work that must end: the crops of a group photo (GroupedPhotos), the       *)
(* stages of a piece (ItemStages) and the jobs of the worker (WorkerRun).  A *)
(* behaviour is one of the part chosen at its start, with that part's        *)
(* fairness; the others stay as they began, and owe nothing.                 *)
EXTENDS GroupedPhotos

CONSTANTS solo

VARIABLES part,
  member, item, row, stageJob, mask, derived, tagged, runs, ai, budget,
  job, current, run, store, published, tasks

Parked == INSTANCE ItemStages WITH
  Stages <- {"cutout", "tags"}, Revisions <- 1, MaxAttempts <- 2, MaxManualRetries <- 0,
  MaxCuts <- 1, Months <- 2, MaxRestores <- 0, job <- stageJob
Worker == INSTANCE WorkerRun WITH
  Outputs <- {"original"}, Runs <- {solo}, MaxAttempts <- 2, MaxManual <- 0, LeaseTicks <- 2,
  StageTicks <- 3

stageVars == <<member, item, row, stageJob, mask, derived, tagged, runs, ai, budget>>
jobVars == <<job, current, run, store, published, tasks>>

EndsInit ==
  /\ part \in {"crops", "stages", "worker"}
  /\ Init /\ Worker!Init
  /\ Parked!Init /\ (part = "stages" \/ ~budget.paused)

EndsNext ==
  /\ UNCHANGED part
  /\ \/ part = "crops" /\ Next /\ UNCHANGED <<stageVars, jobVars>>
     \/ part = "stages" /\ Parked!Next /\ UNCHANGED <<vars, jobVars>>
     \/ part = "worker" /\ Worker!Next /\ UNCHANGED <<vars, stageVars>>

(* Each part's own fairness, owed only by a behaviour of that part.          *)
CropFairness ==
  /\ WF_vars(part = "crops" /\ Tick)
  /\ WF_vars(part = "crops" /\ Work)
  /\ WF_vars(part = "crops" /\ \E s \in Slots : LapseCrop(s))
  /\ WF_vars(part = "crops" /\ ExpireSource)
  /\ WF_vars(part = "crops" /\ RemoveObject)
StageFairness ==
  /\ \A s \in {"cutout", "tags"} :
       /\ WF_stageVars(part = "stages" /\ Parked!ClaimItemStage(s, 1))
       /\ WF_stageVars(part = "stages" /\ Parked!LoseAttempt(s, 1))
       /\ WF_stageVars(part = "stages" /\ Parked!RequeueDue(s, 1))
  /\ WF_stageVars(part = "stages" /\ Parked!ResumeBlockedStages)
WorkerFairness ==
  /\ WF_jobVars(part = "worker" /\ Worker!Tick)
  /\ WF_jobVars(part = "worker" /\ Worker!ExpireLease)
  /\ WF_jobVars(part = "worker" /\ Worker!RequeueDue)
  /\ WF_jobVars(part = "worker" /\ Worker!Dispatched)
  /\ WF_jobVars(part = "worker" /\ (Worker!Crash(solo) \/ Worker!EdgeDies(solo)))

EndsSpec ==
  /\ EndsInit /\ [][EndsNext]_<<part, vars, stageVars, jobVars>>
  /\ CropFairness /\ StageFairness /\ WorkerFairness

(* Every piece of a group photo gets its original, fails or is deleted, and  *)
(* the shared photo's bytes are gone in the end.                             *)
(*                      [svc_complete_item_stage, svc_expire_group_sources]  *)
CropsEnd == part = "crops" => PiecesSettle /\ SourceIsTemporary

(* Whatever workers and Edge calls do, a job ends, a stage settles, and one  *)
(* parked for the month's budget resumes.                                    *)
(*            [svc_heartbeat_job's stage deadline, svc_resume_blocked_stages] *)
WorkSettles ==
  /\ part = "stages" => Parked!StageSettles /\ Parked!ParkedStageResumes
  /\ part = "worker" => Worker!JobSettles
=============================================================================

----------------------------- MODULE MCStorage ------------------------------
(* How a piece's images are made, kept and removed: its stages (ItemStages:  *)
(* three photos, a budget, or retries), the workers' outputs (WorkerRun) and *)
(* the deletion of objects and accounts (MediaDeletion: outputs or uploads). *)
(* A behaviour is one of the part chosen at its start; the others stay as    *)
(* they began.  The types of a part are checked with its safety properties.  *)
EXTENDS WorkerRun

CONSTANTS cutout, mask, w1, w2, raw, out, r1, r2

VARIABLES part, bucket, old, row, window, work, task, eraser, sweep, account, journal, auth,
          remover, faults,
          member, item, stageRow, stageJob, drawn, derived, tagged, runs, ai, budget

TwoOutputs == {cutout, mask}
TwoWorkers == {w1, w2}

OfOutputs == INSTANCE MediaDeletion_proofs WITH
  RawKeys <- {}, OutKeys <- {out}, Runs <- {r1, r2}, MaxFaults <- 1, store <- bucket,
  run <- eraser
OfUploads == INSTANCE MediaDeletion_proofs WITH
  RawKeys <- {raw}, OutKeys <- {}, Runs <- {r1}, MaxFaults <- 2, store <- bucket, run <- eraser

media == <<bucket, old, row, window, work, task, eraser, sweep, account, journal, auth, remover,
           faults>>

Photos == INSTANCE ItemStages_proofs WITH
  Stages <- {"cutout", "colors"}, Revisions <- 3, MaxAttempts <- 1, MaxManualRetries <- 0,
  MaxCuts <- 2, Months <- 1, MaxRestores <- 1, row <- stageRow, job <- stageJob, mask <- drawn
Tags == INSTANCE ItemStages_proofs WITH
  Stages <- {"cutout", "tags"}, Revisions <- 2, MaxAttempts <- 1, MaxManualRetries <- 0,
  MaxCuts <- 2, Months <- 2, MaxRestores <- 0, row <- stageRow, job <- stageJob, mask <- drawn
Retries == INSTANCE ItemStages_proofs WITH
  Stages <- {"cutout", "tags"}, Revisions <- 1, MaxAttempts <- 2, MaxManualRetries <- 1,
  MaxCuts <- 2, Months <- 1, MaxRestores <- 0, row <- stageRow, job <- stageJob, mask <- drawn

stageVars == <<member, item, stageRow, stageJob, drawn, derived, tagged, runs, ai, budget>>

StorageInit ==
  /\ part \in {"worker", "outputs", "uploads", "photos", "tags", "retries"}
  /\ Init
  /\ IF part = "uploads" THEN OfUploads!Init ELSE OfOutputs!Init
  /\ \/ part = "photos" /\ Photos!Init
     \/ part = "tags" /\ Tags!Init
     \/ part = "retries" /\ Retries!Init
     \/ part \notin {"photos", "tags", "retries"} /\ Photos!Init /\ ~budget.paused

StorageNext ==
  /\ UNCHANGED part
  /\ \/ part = "worker" /\ Next /\ UNCHANGED <<media, stageVars>>
     \/ /\ \/ part = "outputs" /\ OfOutputs!Next
           \/ part = "uploads" /\ OfUploads!Next
        /\ UNCHANGED <<vars, stageVars>>
     \/ /\ \/ part = "photos" /\ Photos!Next
           \/ part = "tags" /\ Tags!Next
           \/ part = "retries" /\ Retries!Next
        /\ UNCHANGED <<vars, media>>

allVars == <<part, vars, media, stageVars>>
StorageSpec == StorageInit /\ [][StorageNext]_allVars

(* Deletion takes neither too much nor too little: an object the registry    *)
(* shows stays, a rechecked upload never comes back, and an identity goes    *)
(* only after the objects registered when its deletion began.                *)
(*      [reconcileOrphans, svc_reconcile_storage, svc_account_deletions_ready] *)
DeletedAsRecorded ==
  /\ part = "outputs" =>
       OfOutputs!TypeOK /\ OfOutputs!PublishedKept /\ OfOutputs!ObjectsBeforeIdentity
  /\ part = "uploads" =>
       OfUploads!TypeOK /\ OfUploads!RecheckedStaysGone /\ OfUploads!ObjectsBeforeIdentity

(* What is shown and recorded of a piece belongs to the photo it has now:    *)
(* the cutout, and the colors and embedding computed from it; and a piece in *)
(* deletion has no work left, nor gets any by a retry, resume or restore.    *)
(*  [replace_item_photo, svc_complete_item_stage, claim_item_stage, discard_item] *)
StagesFollowThePiece ==
  /\ part = "photos" =>
       Photos!CutoutFollowsPhoto /\ Photos!DerivedFromItsCutout /\ Photos!DeletedPieceIdle
  /\ part = "tags" => Tags!CutoutFollowsPhoto /\ Tags!DeletedPieceIdle
  /\ part = "retries" => Retries!TypeOK /\ Retries!CutoutFollowsPhoto /\ Retries!DeletedPieceIdle

(* A photo is paid for once for its first run, once per manual retry and     *)
(* once per resume.                    [attempt_key in svc_item_ai_context]  *)
StagesPaidAsAsked ==
  /\ part = "tags" => Tags!PaidAsAsked
  /\ part = "retries" => Retries!PaidAsAsked

(* A result changes the piece only at the revision it was computed for, and  *)
(* never one that is deleted.                      [svc_complete_item_stage] *)
LateResultsNeverApplied ==
  [][/\ part = "photos" => Photos!AppliesToItsRevision
     /\ part = "tags" => Tags!AppliesToItsRevision
     /\ part = "retries" => Retries!AppliesToItsRevision]_allVars
=============================================================================

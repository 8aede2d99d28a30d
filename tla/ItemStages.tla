----------------------------- MODULE ItemStages -----------------------------
(***************************************************************************)
(* The stages of one piece (cutout, tags, colors, embedding): what queues  *)
(* them, what a claimed stage may do to the piece, the AI run of the tags  *)
(* stage with its budget refusals, and what a new photo, a mask, a recut,  *)
(* a deletion, a suspension and the start of a month do to work under way. *)
(*                                                                         *)
(* An action is one database transaction, or one step of the Edge function *)
(* between two of them.  A job is named by its stage and media revision:   *)
(* each revision queues a stage once, so this is its dedupe key.  Leases,  *)
(* claims and back-off are those of UploadJobs and are not repeated: a     *)
(* claimed attempt may end by a report or by its lease at any time, and an *)
(* answer for a lease generation that is not the current one changes       *)
(* nothing.  The budget is what a stage sees of it: whether this month is  *)
(* paused, and which attempt keys were refused or sent.                    *)
(***************************************************************************)
EXTENDS Integers, FiniteSets

CONSTANTS
  Stages,            \* stages in use: cutout, tags and those after the cutout
  Revisions,         \* bound of the model: media revisions 1..n
  MaxAttempts,       \* job_limits.max_attempts
  MaxManualRetries,  \* svc_retry_item_stage allows two
  MaxCuts,           \* model cutouts per original: three
  Months,            \* bound of the model: months 1..n
  MaxRestores        \* bound of the model: suspensions of the member

VARIABLES
  member,    \* memberships.state, and suspensions so far
  item,      \* the piece: lifecycle, media revision, original and cutout shown
  row,       \* item_stages: the revision whose job the stage's row points at
  job,       \* private.jobs, per stage and revision
  mask,      \* the submitted mask of a revision, if its cutout is manual
  derived,   \* item_embeddings and applied colors: revision and cutout used
  tagged,    \* revisions whose tags were applied
  runs,      \* AI runs under way in the Edge
  ai,        \* ai_usage of an attempt key
  budget     \* the current month, and whether budget_mode is paused

vars == <<member, item, row, job, mask, derived, tagged, runs, ai, budget>>

Revs == 1..Revisions
FromCutout == Stages \ {"cutout", "tags"}
MaxResumes == Months - 1
MaxGen == MaxAttempts * (1 + MaxManualRetries + MaxResumes + MaxRestores)

Waiting == {"queued", "retry_wait", "blocked_budget"}
Ended == {"succeeded", "failed", "canceled"}
Codes == {"none", "SUPERSEDED", "AI_BUDGET_PAUSED", "transient", "final"}

NoJob == [state |-> "none", gen |-> 0, attempts |-> 0, manual |-> 0,
          resumes |-> 0, code |-> "none", parked |-> 0, source |-> 0]
Queued == [NoJob EXCEPT !.state = "queued"]

Keys == [rev : Revs, manual : 0..MaxManualRetries, resumes : 0..MaxResumes]
AiRuns == [rev : Revs, gen : 1..MaxGen, key : Keys,
           at : {"asked", "refused", "calling", "answered", "lost"}]

TypeOK ==
  /\ member \in [active : BOOLEAN, suspensions : 0..MaxRestores]
  /\ item \in [life : {"active", "deleted"}, rev : Revs, original : 0..Revisions,
               shown : 0..Revisions, cutFrom : 0..Revisions]
  /\ row \in [Stages -> 0..Revisions]
  /\ job \in [Stages -> [Revs ->
       [state : Waiting \cup Ended \cup {"none", "running"}, gen : 0..MaxGen,
        attempts : 0..MaxAttempts, manual : 0..MaxManualRetries,
        resumes : 0..MaxResumes, code : Codes, parked : 0..Months,
        source : 0..Revisions]]]
  /\ mask \in [Revs -> {"none", "stored", "gone"}]
  /\ derived \subseteq [stage : FromCutout, rev : Revs, cutout : Revs]
  /\ tagged \subseteq Revs
  /\ runs \subseteq AiRuns
  /\ ai \in [Keys -> [state : {"none", "refused", "sent"}, month : 0..Months]]
  /\ budget \in [month : 1..Months, paused : BOOLEAN]

(* A garment photo became a piece: its cutout and its tags are queued.       *)
Init ==
  /\ member = [active |-> TRUE, suspensions |-> 0]
  /\ item = [life |-> "active", rev |-> 1, original |-> 1, shown |-> 0,
             cutFrom |-> 0]
  /\ row = [s \in Stages |-> IF s \in FromCutout THEN 0 ELSE 1]
  /\ job = [s \in Stages |-> [r \in Revs |->
              IF s \notin FromCutout /\ r = 1 THEN Queued ELSE NoJob]]
  /\ mask = [r \in Revs |-> "none"]
  /\ derived = {}
  /\ tagged = {}
  /\ runs = {}
  /\ ai = [k \in Keys |-> [state |-> "none", month |-> 0]]
  /\ budget \in [month : {1}, paused : BOOLEAN]

-----------------------------------------------------------------------------
Current(r) == item.life # "deleted" /\ item.rev = r

(* The rows a transaction locks: the stage's job, or all jobs of the piece.  *)
SetJob(s, r, j) == job' = [job EXCEPT ![s][r] = j]

Ending(j, state, code) == [j EXCEPT !.state = state, !.code = code]

Requeued(j) == [j EXCEPT !.state = "queued", !.attempts = 0]

(* enqueue_item_stage, at the piece's current revision.                      *)
Enqueue(S, jobs, r) ==
  [s \in Stages |-> IF s \in S /\ jobs[s][r].state = "none"
                    THEN [jobs[s] EXCEPT ![r] = Queued] ELSE jobs[s]]
Point(S, r) == row' = [s \in Stages |-> IF s \in S THEN r ELSE row[s]]

(* What a stage reads: the original, or the cutout shown; 0 if there is none.*)
SourceOf(s) == IF s \in FromCutout THEN item.shown ELSE item.original
MaskMissing(s, r) == s = "cutout" /\ mask[r] = "gone"

(* The claim of a queued stage, with its three outcomes.                     *)
ClaimedFor(r) == Current(r) /\ member.active
ClaimItemStage(s, r) ==
  LET j == job[s][r] IN
  /\ j.state = "queued"
  /\ j.attempts < MaxAttempts
  /\ SetJob(s, r,
       IF ~ClaimedFor(r)
       THEN Ending(j, "canceled", IF Current(r) THEN "none" ELSE "SUPERSEDED")
       ELSE IF SourceOf(s) = 0 \/ MaskMissing(s, r)
       THEN Ending(j, "failed", "final")
       ELSE [j EXCEPT !.state = "running", !.gen = j.gen + 1,
                      !.attempts = j.attempts + 1, !.source = SourceOf(s)])
  /\ UNCHANGED <<member, item, row, mask, derived, tagged, runs, ai, budget>>

(* retry_or_fail: the attempt was reported as failed, or its lease expired.  *)
LoseAttempt(s, r) ==
  LET j == job[s][r] IN
  /\ j.state = "running"
  /\ SetJob(s, r, Ending(j, IF j.attempts >= MaxAttempts THEN "failed" ELSE "retry_wait",
                         "transient"))
  /\ UNCHANGED <<member, item, row, mask, derived, tagged, runs, ai, budget>>

RequeueNever(s, r) == FALSE /\ UNCHANGED vars
RequeueDue(s, r) ==
  /\ job[s][r].state = "retry_wait"
  /\ SetJob(s, r, Ending(job[s][r], "queued", job[s][r].code))
  /\ UNCHANGED <<member, item, row, mask, derived, tagged, runs, ai, budget>>

-----------------------------------------------------------------------------
(* svc_complete_item_stage for the running generation.  The mask is used up  *)
(* whatever the outcome.                                                     *)
UsedMask(s, r) ==
  mask' = IF s = "cutout" /\ mask[r] = "stored" THEN [mask EXCEPT ![r] = "gone"] ELSE mask

Supersede(s, r) ==
  /\ job[s][r].state = "running"
  /\ ~Current(r)
  /\ SetJob(s, r, Ending(job[s][r], "canceled", "SUPERSEDED"))
  /\ UsedMask(s, r)

Reject(s, r) ==
  /\ job[s][r].state = "running"
  /\ Current(r)
  /\ SetJob(s, r, Ending(job[s][r], "failed", "final"))
  /\ UsedMask(s, r)

ApplicableToAnyRevision(r) == item.life # "deleted"
Applicable(r) == Current(r)

PublishCutout(r) ==
  /\ job["cutout"][r].state = "running"
  /\ Applicable(r)
  /\ item' = [item EXCEPT !.shown = r, !.cutFrom = job["cutout"][r].source]
  /\ job' = Enqueue(FromCutout,
              [job EXCEPT !["cutout"][r] = Ending(job["cutout"][r], "succeeded", "none")],
              item.rev)
  /\ Point(FromCutout, item.rev)
  /\ UsedMask("cutout", r)
  /\ UNCHANGED derived

PublishDerived(s, r) ==
  /\ s \in FromCutout
  /\ job[s][r].state = "running"
  /\ Applicable(r)
  /\ derived' = derived \cup {[stage |-> s, rev |-> r, cutout |-> job[s][r].source]}
  /\ SetJob(s, r, Ending(job[s][r], "succeeded", "none"))
  /\ UNCHANGED <<item, row, mask>>

CompleteItemStage(s, r) ==
  /\ s # "tags"
  /\ \/ s = "cutout" /\ PublishCutout(r)
     \/ PublishDerived(s, r)
     \/ (Reject(s, r) \/ Supersede(s, r)) /\ UNCHANGED <<item, row, derived>>
  /\ UNCHANGED <<member, tagged, runs, ai, budget>>

-----------------------------------------------------------------------------
(* runAi: the context and its attempt key; one call per lease generation.    *)
AttemptKeyPerLease(r) ==
  [rev |-> r, manual |-> IF job["tags"][r].gen > 1 THEN MaxManualRetries ELSE 0,
   resumes |-> job["tags"][r].resumes]
AttemptKey(r) == [rev |-> r, manual |-> job["tags"][r].manual,
                  resumes |-> job["tags"][r].resumes]

AskAi(r) ==
  LET j == job["tags"][r] IN
  /\ j.state = "running"
  /\ ~\E u \in runs : u.rev = r /\ u.gen = j.gen
  /\ runs' = runs \cup {[rev |-> r, gen |-> j.gen, key |-> AttemptKey(r), at |-> "asked"]}
  /\ UNCHANGED <<member, item, row, job, mask, derived, tagged, ai, budget>>

Moved(u, at) == runs' = (runs \ {u}) \cup {[u EXCEPT !.at = at]}

(* The reservation: a known key is never sent again, a refused one stays so. *)
Recorded(k, state) == ai' = [ai EXCEPT ![k] = [state |-> state, month |-> budget.month]]
ReserveRun(u) ==
  /\ u.at = "asked"
  /\ \/ /\ ai[u.key].state = "none" /\ budget.paused
        /\ Recorded(u.key, "refused")
        /\ Moved(u, "refused")
     \/ /\ ai[u.key].state = "none" /\ ~budget.paused
        /\ Recorded(u.key, "sent")
        /\ Moved(u, "calling")
     \/ /\ ai[u.key].state # "none"
        /\ Moved(u, IF ai[u.key].state = "refused" THEN "refused" ELSE "lost")
        /\ UNCHANGED ai
  /\ UNCHANGED <<member, item, row, job, mask, derived, tagged, budget>>

ProviderAnswers(u) ==
  /\ u.at = "calling"
  /\ \E at \in {"answered", "lost"} : Moved(u, at)
  /\ UNCHANGED <<member, item, row, job, mask, derived, tagged, ai, budget>>

HoldsLease(u) == job["tags"][u.rev].state = "running" /\ job["tags"][u.rev].gen = u.gen

(* The run's own transaction: apply, park or reject, if it holds the lease.  *)
ApplyTags(u) ==
  /\ u.at = "answered" /\ HoldsLease(u) /\ Applicable(u.rev)
  /\ tagged' = tagged \cup {u.rev}
  /\ SetJob("tags", u.rev, Ending(job["tags"][u.rev], "succeeded", "none"))
  /\ UNCHANGED mask

BlockItemStage(u) ==
  /\ u.at = "refused" /\ HoldsLease(u)
  /\ SetJob("tags", u.rev,
       [Ending(job["tags"][u.rev], "blocked_budget", "AI_BUDGET_PAUSED")
          EXCEPT !.parked = budget.month])
  /\ UNCHANGED <<mask, tagged>>

FinishRun(u) ==
  /\ \/ ApplyTags(u)
     \/ BlockItemStage(u)
     \/ u.at = "lost" /\ HoldsLease(u) /\ Reject("tags", u.rev) /\ UNCHANGED tagged
     \/ u.at \in {"answered", "lost"} /\ HoldsLease(u) /\ Supersede("tags", u.rev)
          /\ UNCHANGED tagged
  /\ runs' = runs \ {u}
  /\ UNCHANGED <<member, item, row, derived, ai, budget>>

(* The answer is stale, or the Edge function dies: nothing is written.       *)
DropRun(u) ==
  /\ runs' = runs \ {u}
  /\ UNCHANGED <<member, item, row, job, mask, derived, tagged, ai, budget>>

-----------------------------------------------------------------------------
(* advance_media_revision: work of the old revision that nobody runs ends.   *)
Superseded == [s \in Stages |-> [r \in Revs |->
                IF r <= item.rev /\ job[s][r].state \in Waiting
                THEN Ending(job[s][r], "canceled", "SUPERSEDED") ELSE job[s][r]]]

Advance(S) ==
  /\ member.active
  /\ item.life # "deleted"
  /\ item.rev < Revisions
  /\ job' = Enqueue(S, Superseded, item.rev + 1)
  /\ Point(S, item.rev + 1)
  /\ UNCHANGED <<member, derived, tagged, runs, ai, budget>>

ReplaceItemPhoto ==
  /\ Advance({"cutout", "tags"})
  /\ item' = [item EXCEPT !.rev = item.rev + 1, !.original = item.rev + 1]
  /\ UNCHANGED mask

SubmitMask ==
  /\ item.original # 0
  /\ Advance({"cutout"})
  /\ item' = [item EXCEPT !.rev = item.rev + 1]
  /\ mask' = [mask EXCEPT ![item.rev + 1] = "stored"]

CutsLeft ==
  Cardinality({r \in Revs : /\ r >= item.original
                            /\ job["cutout"][r].state # "none"
                            /\ mask[r] = "none"}) < MaxCuts
RecutItem ==
  /\ item.original # 0
  /\ CutsLeft
  /\ Advance({"cutout"})
  /\ item' = [item EXCEPT !.rev = item.rev + 1]
  /\ UNCHANGED mask

(* svc_expire_mask_inputs: the temporary window of a mask is over.           *)
ExpireMask(r) ==
  /\ mask[r] = "stored"
  /\ mask' = [mask EXCEPT ![r] = "gone"]
  /\ UNCHANGED <<member, item, row, job, derived, tagged, runs, ai, budget>>

CanceledUnlessRunning(j) ==
  IF j.state \in Waiting THEN Ending(j, "canceled", "SUPERSEDED") ELSE j
Discarded(j) ==
  IF j.state \in Waiting \cup {"running"} THEN Ending(j, "canceled", "SUPERSEDED") ELSE j

DiscardItem ==
  /\ member.active
  /\ item.life # "deleted"
  /\ item' = [item EXCEPT !.life = "deleted", !.original = 0, !.shown = 0, !.cutFrom = 0]
  /\ job' = [s \in Stages |-> [r \in Revs |-> Discarded(job[s][r])]]
  /\ derived' = {}
  /\ UNCHANGED <<member, row, mask, tagged, runs, ai, budget>>

(* The member retries: the job that the stage's row points at, whatever its  *)
(* revision.                                                                 *)
CanRetry(s) ==
  row[s] # 0 /\ job[s][row[s]].state \in {"failed", "canceled"}
    /\ job[s][row[s]].manual < MaxManualRetries

RetryItemStage(s) ==
  /\ member.active
  /\ item.life # "deleted"
  /\ CanRetry(s)
  /\ LET j == job[s][row[s]]
     IN  SetJob(s, row[s], Ending([Requeued(j) EXCEPT !.manual = j.manual + 1], "queued", "none"))
  /\ UNCHANGED <<member, item, row, mask, derived, tagged, runs, ai, budget>>

(* svc_resume_blocked_stages: parked before this month began.                *)
Resumable(r) ==
  /\ "tags" \in Stages
  /\ job["tags"][r].state = "blocked_budget"
  /\ job["tags"][r].parked < budget.month
  /\ Current(r)

ResumeBlockedStages ==
  /\ ~budget.paused
  /\ \E r \in Revs : Resumable(r)
  /\ job' = [job EXCEPT !["tags"] = [r \in Revs |->
       IF Resumable(r)
       THEN [Ending(Requeued(job["tags"][r]), "queued", "none")
               EXCEPT !.resumes = job["tags"][r].resumes + 1]
       ELSE job["tags"][r]]]
  /\ UNCHANGED <<member, item, row, mask, derived, tagged, runs, ai, budget>>

SuspendMember ==
  /\ member.active
  /\ member.suspensions < MaxRestores
  /\ member' = [active |-> FALSE, suspensions |-> member.suspensions + 1]
  /\ job' = [s \in Stages |-> [r \in Revs |->
       IF job[s][r].state \in {"queued", "running", "retry_wait"}
       THEN Ending(job[s][r], "canceled", job[s][r].code) ELSE job[s][r]]]
  /\ UNCHANGED <<item, row, mask, derived, tagged, runs, ai, budget>>

Restorable(j, r) == j.state = "canceled" /\ j.code = "none" /\ Current(r)
RestoreMember ==
  /\ ~member.active
  /\ member' = [member EXCEPT !.active = TRUE]
  /\ job' = [s \in Stages |-> [r \in Revs |->
       IF Restorable(job[s][r], r) THEN Requeued(job[s][r]) ELSE job[s][r]]]
  /\ UNCHANGED <<item, row, mask, derived, tagged, runs, ai, budget>>

(* Others spend the month's budget, the owner changes the thresholds.        *)
ChangeBudget ==
  /\ budget' = [budget EXCEPT !.paused = ~budget.paused]
  /\ UNCHANGED <<member, item, row, job, mask, derived, tagged, runs, ai>>

StartMonth ==
  /\ budget.month < Months
  /\ \E paused \in BOOLEAN : budget' = [month |-> budget.month + 1, paused |-> paused]
  /\ UNCHANGED <<member, item, row, job, mask, derived, tagged, runs, ai>>

-----------------------------------------------------------------------------
Worker == \E s \in Stages, r \in Revs :
            ClaimItemStage(s, r) \/ CompleteItemStage(s, r)
Queue == \E s \in Stages, r \in Revs : LoseAttempt(s, r) \/ RequeueDue(s, r)
Gateway == \/ "tags" \in Stages /\ \E r \in Revs : AskAi(r)
           \/ \E u \in runs : \/ ReserveRun(u) \/ ProviderAnswers(u)
                              \/ FinishRun(u) \/ DropRun(u)
Member == \/ ReplaceItemPhoto \/ SubmitMask \/ RecutItem \/ DiscardItem
          \/ \E s \in Stages : RetryItemStage(s)
Scheduler == ResumeBlockedStages \/ \E r \in Revs : ExpireMask(r)
Environment == SuspendMember \/ RestoreMember \/ ChangeBudget \/ StartMonth

Next == Worker \/ Queue \/ Gateway \/ Member \/ Scheduler \/ Environment

Spec == Init /\ [][Next]_vars

(* The schedules keep running (minute, ten minutes): stages are dispatched   *)
(* and claimed, expired leases end, due retries and parked stages resume.    *)
(* Workers and the Edge promise nothing.                                     *)
Fairness ==
  /\ \A s \in Stages, r \in Revs :
       /\ WF_vars(ClaimItemStage(s, r))
       /\ WF_vars(LoseAttempt(s, r))
       /\ WF_vars(RequeueDue(s, r))
  /\ WF_vars(ResumeBlockedStages)

FairSpec == Spec /\ Fairness

-----------------------------------------------------------------------------
(* A cutout stage that has succeeded shows a cutout of the photo the piece   *)
(* has now: while an earlier photo's cutout stays visible, the stage says so *)
(* (replace_item_photo, svc_complete_item_stage).                            *)
CutoutFollowsPhoto ==
  (item.life # "deleted" /\ row["cutout"] # 0 /\ job["cutout"][row["cutout"]].state = "succeeded")
    => item.shown = row["cutout"] /\ item.cutFrom = item.original

(* Colors and embeddings recorded for a revision were computed from the      *)
(* cutout of that revision, never from the one it replaced                   *)
(* (claim_item_stage, enqueue_after_cutout).                                 *)
DerivedFromItsCutout == \A d \in derived : d.cutout = d.rev

(* A piece in deletion has no work left, and none can come back by a retry,  *)
(* a resume or a restoration (discard_item).                                 *)
DeletedPieceIdle ==
  item.life = "deleted" =>
    \A s \in Stages, r \in Revs : job[s][r].state \in Ended \cup {"none"}

(* A photo is paid for at most once for its first run, once per manual retry *)
(* and once per resume, however many attempts, leases and runs race          *)
(* (attempt_key in svc_item_ai_context).                                     *)
PaidAsAsked ==
  "tags" \in Stages => \A r \in Revs :
    Cardinality({k \in Keys : k.rev = r /\ ai[k].state = "sent"})
      <= 1 + job["tags"][r].manual + job["tags"][r].resumes

(* A result changes the piece only at the revision it was computed for, and  *)
(* never one that is deleted: no late answer is applied (fencing by media    *)
(* revision in svc_complete_item_stage).                                     *)
AppliesToItsRevision ==
  /\ item'.shown # item.shown => item'.shown \in {0, item.rev}
  /\ tagged' \subseteq tagged \cup {item.rev}
  /\ \A d \in derived' \ derived : d.rev = item.rev
  /\ item.life = "deleted" => item' = item /\ derived' = derived /\ tagged' = tagged
LateResultsNeverApplied == [][AppliesToItsRevision]_vars

(* A stage that is queued ends, or is parked for its budget, although every  *)
(* worker and every Edge call may die.                                       *)
StageSettles ==
  \A s \in Stages, r \in Revs :
    job[s][r].state \in {"queued", "running", "retry_wait"}
      ~> job[s][r].state \in Ended \cup {"blocked_budget"}

(* A stage parked in an earlier month does not stay parked while the piece   *)
(* still has that photo and the budget stays open.                           *)
ParkedStageResumes ==
  \A r \in Revs :
    ("tags" \in Stages /\ job["tags"][r].state = "blocked_budget" /\ job["tags"][r].parked < budget.month)
      ~> \/ job["tags"][r].state # "blocked_budget"
         \/ ~Current(r) \/ budget.paused

-----------------------------------------------------------------------------
(* "Failed and canceled stages can be retried twice" (p1_02_inference:75):   *)
(* a stage that is offered for a retry can run again.  Does not hold: a      *)
(* recut or a mask leaves the tags row at the old revision, whose retry is   *)
(* always canceled at its claim.                                             *)
OfferedRetryCanRun ==
  \A s \in Stages : item.life # "deleted" /\ CanRetry(s) => row[s] = item.rev

(* "Restoring a suspended member also resumes item stages the suspension     *)
(* canceled" (p1_01_items:917).  Does not hold: a stage that had failed once *)
(* keeps its failure code, so it is not recognised.                          *)
SuspendedStagesResume ==
  member.active => \A s \in Stages :
    ~(row[s] = item.rev /\ job[s][row[s]].state = "canceled"
        /\ job[s][row[s]].code = "transient")

(* "A refused reservation parks the stage until the budget allows it again"  *)
(* (p1_02_inference:547), and parked stages resume once their month is over. *)
(* Does not hold: a refusal of the old month that is recorded just after the *)
(* new one began is parked in a month whose budget never refused it.         *)
ParkedByItsMonth ==
  \A r \in Revs :
    job["tags"][r].state = "blocked_budget"
      => \E k \in Keys : k.rev = r /\ ai[k] = [state |-> "refused", month |-> job["tags"][r].parked]

(* "A parked (budget) stage shows why it waits and offers no manual retry:   *)
(* it resumes after the reset" (p1_02_inference:74).  Does not hold: tags    *)
(* refused after a recut are parked at the old revision, where they are      *)
(* neither canceled nor resumed.                                             *)
ParkedStageCanResume ==
  item.life # "deleted" /\ row["tags"] # 0 /\ job["tags"][row["tags"]].state = "blocked_budget"
    => row["tags"] = item.rev
=============================================================================

----------------------------- MODULE UploadJobs -----------------------------
(***************************************************************************)
(* The durable validation job behind one uploaded photo: upload slots, the *)
(* job queue, dispatch, leases, retries, worker callbacks, temporary       *)
(* cleanup, and what suspension, account deletion and a restore do to it.  *)
(*                                                                         *)
(* An action is one database transaction of the migrations, or one step of *)
(* the Edge function that calls it.  A worker is not a process here: any   *)
(* lease generation that was ever claimed may call back at any moment, any *)
(* number of times, or never.  That is every crash, stall, duplicate and   *)
(* reordering a worker and its HTTP calls can show: the capability of a    *)
(* call is checked once, before the stored bytes are read, and the         *)
(* transaction may run any time after (internal/index.ts:156 and 232).     *)
(*                                                                         *)
(* Time is a set of countdowns, 0 meaning "not in the future"; Tick is the *)
(* passing of one unit.  A claim nonce is 256 random bits, so only the     *)
(* newest one can match: a job's usable claim is its countdown alone.      *)
(* Entries are of the purposes whose "ready" is final (garment and         *)
(* replacement photos).                                                    *)
(***************************************************************************)
EXTENDS Integers, FiniteSets

CONSTANTS
  Members,           \* members with a wardrobe
  Admin,             \* the member whose role is owner: suspends and restores
  Entries,           \* upload entries that may ever be created
  Owner,             \* entry -> member
  MaxAttempts,       \* job_limits.max_attempts
  MaxManualRetries,  \* svc_retry_upload_entry allows two
  GlobalLimit,       \* job_limits.max_running_global
  MemberLimit,       \* job_limits.max_running_per_member
  ClaimTicks,        \* upload_limits.claim_seconds
  LeaseTicks,        \* job_limits.lease_seconds
  StageTicks,        \* job_limits.stage_deadline_seconds
  Backoff,           \* attempt -> delay before the next; the jitter is below a tick
  MaxRestores,       \* bound of the model: restorations of one member
  FromBackup         \* whether the database may be restored from a backup

ASSUME SetsAssumption ==
  /\ Owner \in [Entries -> Members]
  /\ Admin \in Members
  /\ FromBackup \in BOOLEAN

ASSUME LimitsAssumption ==
  /\ MaxAttempts \in Nat \ {0}
  /\ MaxManualRetries \in Nat
  /\ MaxRestores \in Nat
  /\ GlobalLimit \in Nat \ {0}
  /\ MemberLimit \in Nat \ {0}

ASSUME TimeAssumption ==
  /\ ClaimTicks \in Nat \ {0}
  /\ LeaseTicks \in Nat \ {0}
  /\ StageTicks \in Nat
  /\ LeaseTicks <= StageTicks
  /\ Backoff \in [1..MaxAttempts -> Nat]

VARIABLES
  member,    \* memberships.state
  racing,    \* a transaction that read an active membership is still open
  restores,  \* restorations so far (bounds the model)
  entry,     \* upload_entries.state
  asset,     \* media_assets.state
  slot,      \* the signed PUT: open, closed, or its temporary asset expired too
  raw,       \* deletion tasks of the quarantine object: "now", "recheck"
  job,       \* the validation job of the entry
  out        \* per lease generation, where its output stands

vars == <<member, racing, restores, entry, asset, slot, raw, job, out>>
memberVars == <<member, racing, restores>>

MaxGen == MaxAttempts * (1 + MaxManualRetries + MaxRestores)
Gens == 1..MaxGen

MemberStates == {"active", "suspended", "deleting"}
EntryStates == {"absent", "awaiting_upload", "uploaded", "validating",
                "ready", "rejected", "failed", "canceled", "gone"}
AssetStates == {"absent", "awaiting_upload", "uploaded", "validating",
                "ready", "rejected", "deletion_pending"}
JobStates == {"none", "queued", "running", "retry_wait",
              "succeeded", "failed", "canceled"}
(* none: no bytes; ended: the worker reported a failure or an unusable      *)
(* photo instead; stored: bytes put, no answer yet; original: published;    *)
(* fenced: answered stale, discard not yet recorded; rejected: bytes the   *)
(* Edge refused, recorded; discarded: recorded for deletion; unrecorded:   *)
(* answered already_applied although the job had failed without it.        *)
OutStates == {"none", "ended", "stored", "original", "fenced", "rejected",
              "discarded", "unrecorded"}

Terminal == {"succeeded", "failed", "canceled"}

NoJob == [state |-> "none", gen |-> 0, attempts |-> 0, manual |-> 0,
          claim |-> 0, next |-> 0, lease |-> 0, stage |-> 0]

JobRecords ==
  [state : JobStates, gen : 0..MaxGen, attempts : 0..MaxAttempts,
   manual : 0..MaxManualRetries, claim : 0..ClaimTicks, next : Nat,
   lease : 0..LeaseTicks, stage : 0..StageTicks]

TypeOK ==
  /\ member \in [Members -> MemberStates]
  /\ racing \in [Members -> BOOLEAN]
  /\ restores \in [Members -> 0..MaxRestores]
  /\ entry \in [Entries -> EntryStates]
  /\ asset \in [Entries -> AssetStates]
  /\ slot \in [Entries -> {"open", "closed", "expired"}]
  /\ raw \in [Entries -> SUBSET {"now", "recheck"}]
  /\ job \in [Entries -> JobRecords]
  /\ out \in [Entries -> [Gens -> OutStates]]

Init ==
  /\ member = [m \in Members |-> "active"]
  /\ racing = [m \in Members |-> FALSE]
  /\ restores = [m \in Members |-> 0]
  /\ entry = [e \in Entries |-> "absent"]
  /\ asset = [e \in Entries |-> "absent"]
  /\ slot = [e \in Entries |-> "closed"]
  /\ raw = [e \in Entries |-> {}]
  /\ job = [e \in Entries |-> NoJob]
  /\ out = [e \in Entries |-> [g \in Gens |-> "none"]]

Least(a, b) == IF a <= b THEN a ELSE b
Countdown(n) == IF n = 0 THEN 0 ELSE n - 1

EntriesOf(m) == {e \in Entries : Owner[e] = m}
Running == {e \in Entries : job[e].state = "running"}

(* require_active_member_id reads the membership without a lock, so a       *)
(* command that read "active" may commit after a suspension or a deletion.  *)
Admitted(m) == member[m] = "active" \/ racing[m]

(* The job leaves the queue or the worker for good, or until a retry:       *)
(* claim and lease are cleared or never read again.                         *)
Parked(j, state) ==
  [j EXCEPT !.state = state, !.claim = 0, !.next = 0, !.lease = 0, !.stage = 0]

Requeued(j) == [Parked(j, "queued") EXCEPT !.attempts = 0]

RetriedByOwner(j) == [Requeued(j) EXCEPT !.manual = j.manual + 1]

Cancel(j) == IF j.state \in Terminal \cup {"none"} THEN j ELSE Parked(j, "canceled")

(***************************************************************************)
(* Owner commands                                                          *)
(***************************************************************************)

CreateUploadBatch(m, S) ==
  /\ Admitted(m)
  /\ S # {}
  /\ \A e \in S : Owner[e] = m /\ entry[e] = "absent"
  /\ entry' = [e \in Entries |-> IF e \in S THEN "awaiting_upload" ELSE entry[e]]
  /\ asset' = [e \in Entries |-> IF e \in S THEN "awaiting_upload" ELSE asset[e]]
  /\ slot' = [e \in Entries |-> IF e \in S THEN "open" ELSE slot[e]]
  /\ UNCHANGED <<memberVars, raw, job, out>>

RenewUploadEntry(e) ==
  /\ Admitted(Owner[e])
  /\ entry[e] = "awaiting_upload"
  /\ slot[e] # "expired"
  /\ slot' = [slot EXCEPT ![e] = "open"]
  /\ UNCHANGED <<memberVars, entry, asset, raw, job, out>>

(* The stored bytes exceed max_bytes: no job is ever created. *)
CompleteTooLarge(e) ==
  /\ Admitted(Owner[e])
  /\ entry[e] = "awaiting_upload"
  /\ entry' = [entry EXCEPT ![e] = "rejected"]
  /\ asset' = [asset EXCEPT ![e] = "rejected"]
  /\ raw' = [raw EXCEPT ![e] = {"now", "recheck"}]
  /\ UNCHANGED <<memberVars, slot, job, out>>

(* The entry becomes work: its job commits in the same transaction. *)
CompleteUploadEntry(e) ==
  /\ Admitted(Owner[e])
  /\ entry[e] = "awaiting_upload"
  /\ entry' = [entry EXCEPT ![e] = "uploaded"]
  /\ asset' = [asset EXCEPT ![e] = "uploaded"]
  /\ job' = [job EXCEPT ![e] = [NoJob EXCEPT !.state = "queued"]]
  /\ UNCHANGED <<memberVars, slot, raw, out>>

Cancelable(e) == entry[e] \in {"awaiting_upload", "uploaded", "validating", "failed"}

CancelUploadEntry(e) ==
  /\ Admitted(Owner[e])
  /\ Cancelable(e)
  /\ entry' = [entry EXCEPT ![e] = "canceled"]
  /\ asset' = [asset EXCEPT ![e] = "deletion_pending"]
  /\ job' = [job EXCEPT ![e] = Cancel(job[e])]
  /\ raw' = [raw EXCEPT ![e] = {"now", "recheck"}]
  /\ UNCHANGED <<memberVars, slot, out>>

RetryableWithFailureCode(e) == entry[e] \in {"failed", "rejected"}
Retryable(e) == entry[e] = "failed"

RetriesLeft(e) == job[e].manual < MaxManualRetries

RetryUploadEntry(e) ==
  /\ Admitted(Owner[e])
  /\ Retryable(e)
  /\ RetriesLeft(e)
  /\ job' = [job EXCEPT ![e] = RetriedByOwner(job[e])]
  /\ entry' = [entry EXCEPT ![e] = "uploaded"]
  /\ UNCHANGED <<memberVars, asset, slot, raw, out>>

(***************************************************************************)
(* Dispatch and claim                                                      *)
(***************************************************************************)

(* Concurrency is counted here, over running jobs only. *)
IssueJobClaim(e) ==
  /\ job[e].state = "queued"
  /\ Cardinality(Running) < GlobalLimit
  /\ Cardinality(Running \cap EntriesOf(Owner[e])) < MemberLimit
  /\ job' = [job EXCEPT ![e] = [job[e] EXCEPT !.claim = ClaimTicks]]
  /\ UNCHANGED <<memberVars, entry, asset, slot, raw, out>>

(* The wake-up was not accepted: its dispatcher gives the claim back. *)
ReleaseJobClaim(e) ==
  /\ job[e].state = "queued"
  /\ job[e].claim > 0
  /\ job' = [job EXCEPT ![e] = [job[e] EXCEPT !.claim = 0]]
  /\ UNCHANGED <<memberVars, entry, asset, slot, raw, out>>

AttemptsLeft(e) == job[e].attempts < MaxAttempts

TargetRunnableForAnyone(e) == entry[e] \in {"uploaded", "validating"}
TargetRunnable(e) ==
  entry[e] \in {"uploaded", "validating"} /\ member[Owner[e]] = "active"

ClaimedJob(j) ==
  [j EXCEPT !.state = "running", !.claim = 0, !.gen = j.gen + 1,
            !.attempts = j.attempts + 1, !.lease = LeaseTicks, !.stage = StageTicks]

(* A refused claim raises, which rolls back the cancellation before it, so  *)
(* only the accepted claim changes anything.                                *)
ClaimJob(e) ==
  /\ job[e].state = "queued"
  /\ job[e].claim > 0
  /\ AttemptsLeft(e)
  /\ TargetRunnable(e)
  /\ job' = [job EXCEPT ![e] = ClaimedJob(job[e])]
  /\ entry' = [entry EXCEPT ![e] = "validating"]
  /\ asset' = [asset EXCEPT ![e] = "validating"]
  /\ UNCHANGED <<memberVars, slot, raw, out>>

(***************************************************************************)
(* Worker callbacks, for any generation g                                  *)
(***************************************************************************)

Current(e, g) == job[e].state = "running" /\ job[e].gen = g
Claimed(e, g) == g <= job[e].gen

RenewedLease(j) == Least(LeaseTicks, j.stage)

HeartbeatForEver(e, g) ==
  /\ Current(e, g)
  /\ job[e].lease > 0
  /\ job' = [job EXCEPT ![e].lease = LeaseTicks]
  /\ UNCHANGED <<memberVars, entry, asset, slot, raw, out>>

HeartbeatJob(e, g) ==
  /\ Current(e, g)
  /\ job[e].lease > 0
  /\ job[e].stage > 0
  /\ job' = [job EXCEPT ![e] = [job[e] EXCEPT !.lease = RenewedLease(job[e])]]
  /\ UNCHANGED <<memberVars, entry, asset, slot, raw, out>>

(* private.retry_or_fail on the three rows it touches. *)
RetriedJob(j) ==
  IF j.attempts >= MaxAttempts
  THEN Parked(j, "failed")
  ELSE [Parked(j, "retry_wait") EXCEPT !.next = Backoff[j.attempts]]

RetriedEntryNeverFails(e) == IF entry[e] = "validating" THEN "uploaded" ELSE entry[e]
RetriedEntry(e) ==
  IF job[e].attempts >= MaxAttempts /\ entry[e] \in {"uploaded", "validating"}
  THEN "failed"
  ELSE IF entry[e] = "validating" THEN "uploaded" ELSE entry[e]

RetriedAsset(e) == IF asset[e] = "validating" THEN "uploaded" ELSE asset[e]

(* A worker answers once: a failure, an unusable photo, or its output. *)
FailJobAttempt(e, g) ==
  /\ Current(e, g)
  /\ out[e][g] = "none"
  /\ job' = [job EXCEPT ![e] = RetriedJob(job[e])]
  /\ entry' = [entry EXCEPT ![e] = RetriedEntry(e)]
  /\ asset' = [asset EXCEPT ![e] = RetriedAsset(e)]
  /\ out' = [out EXCEPT ![e][g] = "ended"]
  /\ UNCHANGED <<memberVars, slot, raw>>

(* The worker puts its output under the key of its own generation. *)
PutOutput(e, g) ==
  /\ Claimed(e, g)
  /\ out[e][g] = "none"
  /\ out' = [out EXCEPT ![e][g] = "stored"]
  /\ UNCHANGED <<memberVars, entry, asset, slot, raw, job>>

(* The Edge finds no bytes, or not the ones the worker announced. *)
RejectOutput(e, g) ==
  /\ Claimed(e, g)
  /\ out[e][g] = "none"
  /\ out' = [out EXCEPT ![e][g] = "rejected"]
  /\ UNCHANGED <<memberVars, entry, asset, slot, raw, job>>

HasOutput(e, g) == Claimed(e, g) /\ out[e][g] \notin {"none", "ended", "rejected"}

AlreadyAppliedNever(e, g) == FALSE
AlreadyApplied(e, g) ==
  job[e].state \in {"succeeded", "failed"} /\ job[e].gen = g

ApplicableToAnyLease(e, g) == job[e].state = "running" /\ entry[e] = "validating"
Applicable(e, g) == Current(e, g) /\ entry[e] = "validating"

(* Raw bytes go now, and again once the upload URL has expired. *)
ConsumedRawOnce == {"now"}
ConsumedRaw == {"now", "recheck"}

ApplyReady(e, g) ==
  /\ HasOutput(e, g)
  /\ Applicable(e, g)
  /\ out' = [out EXCEPT ![e][g] = "original"]
  /\ entry' = [entry EXCEPT ![e] = "ready"]
  /\ asset' = [asset EXCEPT ![e] = "ready"]
  /\ job' = [job EXCEPT ![e] = Parked(job[e], "succeeded")]
  /\ raw' = [raw EXCEPT ![e] = ConsumedRaw]
  /\ UNCHANGED <<memberVars, slot>>

(* The answer is "already_applied" whether or not this output was applied. *)
RepeatReady(e, g) ==
  /\ HasOutput(e, g)
  /\ AlreadyApplied(e, g)
  /\ out[e][g] = "stored"
  /\ out' = [out EXCEPT ![e][g] = "unrecorded"]
  /\ UNCHANGED <<memberVars, entry, asset, slot, raw, job>>

(* The answer is "stale"; the Edge now owes a discard. *)
FenceReady(e, g) ==
  /\ HasOutput(e, g)
  /\ ~ AlreadyApplied(e, g)
  /\ ~ Applicable(e, g)
  /\ out[e][g] # "discarded"
  /\ out' = [out EXCEPT ![e][g] = "fenced"]
  /\ UNCHANGED <<memberVars, entry, asset, slot, raw, job>>

(* A transaction of its own: the Edge may die before it. *)
DiscardJobOutput(e, g) ==
  /\ out[e][g] = "fenced"
  /\ out' = [out EXCEPT ![e][g] = "discarded"]
  /\ UNCHANGED <<memberVars, entry, asset, slot, raw, job>>

(* The photo itself is unusable: final, and there is no output. *)
CompleteRejected(e, g) ==
  /\ Applicable(e, g)
  /\ out[e][g] = "none"
  /\ entry' = [entry EXCEPT ![e] = "rejected"]
  /\ asset' = [asset EXCEPT ![e] = "rejected"]
  /\ job' = [job EXCEPT ![e] = Parked(job[e], "failed")]
  /\ raw' = [raw EXCEPT ![e] = ConsumedRaw]
  /\ out' = [out EXCEPT ![e][g] = "ended"]
  /\ UNCHANGED <<memberVars, slot>>

(***************************************************************************)
(* Scheduler                                                               *)
(***************************************************************************)

Due == {e \in Entries : job[e].state = "retry_wait" /\ job[e].next = 0}
Expired == {e \in Running : job[e].lease = 0}

(* S: the expired leases this run locked (a limit, and SKIP LOCKED). *)
ReconcileJobs(S) ==
  /\ S \subseteq Expired
  /\ S \cup Due # {}
  /\ job' = [e \in Entries |-> IF e \in S THEN RetriedJob(job[e])
                               ELSE IF e \in Due THEN [job[e] EXCEPT !.state = "queued"]
                               ELSE job[e]]
  /\ entry' = [e \in Entries |-> IF e \in S THEN RetriedEntry(e) ELSE entry[e]]
  /\ asset' = [e \in Entries |-> IF e \in S THEN RetriedAsset(e) ELSE asset[e]]
  /\ UNCHANGED <<memberVars, slot, raw, out>>

Abandoned(e) ==
  \/ entry[e] = "awaiting_upload" /\ slot[e] # "open"
  \/ entry[e] = "failed" /\ slot[e] = "expired"

TemporaryCleanup(S) ==
  /\ S # {}
  /\ \A e \in S : Abandoned(e)
  /\ entry' = [e \in Entries |-> IF e \in S THEN "canceled" ELSE entry[e]]
  /\ asset' = [e \in Entries |-> IF e \in S THEN "deletion_pending" ELSE asset[e]]
  /\ job' = [e \in Entries |-> IF e \in S THEN Cancel(job[e]) ELSE job[e]]
  /\ raw' = [e \in Entries |-> IF e \in S THEN raw[e] \cup {"now"} ELSE raw[e]]
  /\ UNCHANGED <<memberVars, slot, out>>

(***************************************************************************)
(* Membership and restore                                                  *)
(***************************************************************************)

SuspendMember(m) ==
  /\ m # Admin /\ member[Admin] = "active"
  /\ member[m] = "active"
  /\ member' = [member EXCEPT ![m] = "suspended"]
  /\ racing' = [racing EXCEPT ![m] = TRUE]
  /\ job' = [e \in Entries |-> IF Owner[e] = m THEN Cancel(job[e]) ELSE job[e]]
  /\ entry' = [e \in Entries |-> IF Owner[e] = m /\ entry[e] = "validating"
                                 THEN "uploaded" ELSE entry[e]]
  /\ UNCHANGED <<restores, asset, slot, raw, out>>

Resumable(e) == job[e].state = "canceled" /\ entry[e] = "uploaded"

RestoreMember(m) ==
  /\ member[Admin] = "active"
  /\ member[m] = "suspended"
  /\ restores[m] < MaxRestores
  /\ member' = [member EXCEPT ![m] = "active"]
  /\ restores' = [restores EXCEPT ![m] = @ + 1]
  /\ job' = [e \in Entries |-> IF Owner[e] = m /\ Resumable(e)
                               THEN Requeued(job[e]) ELSE job[e]]
  /\ UNCHANGED <<racing, entry, asset, slot, raw, out>>

(* The last transaction that read the old membership has ended. *)
DrainCommands(m) ==
  /\ racing[m]
  /\ racing' = [racing EXCEPT ![m] = FALSE]
  /\ UNCHANGED <<member, restores, entry, asset, slot, raw, job, out>>

StartAccountDeletion(m) ==
  /\ member[m] = "active"
  /\ m = Admin => \A n \in Members \ {m} : member[n] # "active"
  /\ member' = [member EXCEPT ![m] = "deleting"]
  /\ racing' = [racing EXCEPT ![m] = TRUE]
  /\ job' = [e \in Entries |-> IF Owner[e] = m THEN Cancel(job[e]) ELSE job[e]]
  /\ raw' = [e \in Entries |-> IF Owner[e] = m /\ entry[e] # "absent"
                               THEN raw[e] \cup {"now"} ELSE raw[e]]
  /\ out' = [e \in Entries |->
               [g \in Gens |-> IF Owner[e] = m /\ out[e][g] = "original"
                               THEN "discarded" ELSE out[e][g]]]
  /\ entry' = [e \in Entries |-> IF Owner[e] = m /\ entry[e] # "absent"
                                 THEN "gone" ELSE entry[e]]
  /\ UNCHANGED <<restores, asset, slot>>

(* Run once on a restored database before it serves traffic. *)
PrepareRestoredDatabase ==
  /\ FromBackup
  /\ job' = [e \in Entries |-> IF job[e].state \in {"queued", "running", "retry_wait"}
                               THEN Parked(job[e], "failed") ELSE job[e]]
  /\ entry' = [e \in Entries |-> IF entry[e] \in {"uploaded", "validating"}
                                 THEN "failed" ELSE entry[e]]
  /\ UNCHANGED <<memberVars, asset, slot, raw, out>>

(***************************************************************************)
(* Time                                                                    *)
(***************************************************************************)

CloseSlot(e) ==
  /\ slot[e] = "open"
  /\ slot' = [slot EXCEPT ![e] = "closed"]
  /\ UNCHANGED <<memberVars, entry, asset, raw, job, out>>

ExpireAsset(e) ==
  /\ slot[e] = "closed"
  /\ entry[e] \in {"awaiting_upload", "uploaded", "validating", "failed"}
  /\ slot' = [slot EXCEPT ![e] = "expired"]
  /\ UNCHANGED <<memberVars, entry, asset, raw, job, out>>

Elapsed(j) == [j EXCEPT !.claim = Countdown(j.claim), !.next = Countdown(j.next),
                        !.lease = Countdown(j.lease), !.stage = Countdown(j.stage)]

Tick ==
  /\ job' = [e \in Entries |-> Elapsed(job[e])]
  /\ UNCHANGED <<memberVars, entry, asset, slot, raw, out>>

(***************************************************************************)
(* Specification                                                           *)
(***************************************************************************)

OwnerCommand ==
  \/ \E m \in Members, S \in SUBSET Entries : CreateUploadBatch(m, S)
  \/ \E e \in Entries :
       \/ RenewUploadEntry(e)
       \/ CompleteTooLarge(e)
       \/ CompleteUploadEntry(e)
       \/ CancelUploadEntry(e)
       \/ RetryUploadEntry(e)

Dispatch == \E e \in Entries : IssueJobClaim(e) \/ ReleaseJobClaim(e) \/ ClaimJob(e)

Callback ==
  \E e \in Entries, g \in Gens :
    \/ HeartbeatJob(e, g)
    \/ FailJobAttempt(e, g)
    \/ PutOutput(e, g)
    \/ RejectOutput(e, g)
    \/ ApplyReady(e, g)
    \/ RepeatReady(e, g)
    \/ FenceReady(e, g)
    \/ DiscardJobOutput(e, g)
    \/ CompleteRejected(e, g)

Scheduler == \E S \in SUBSET Entries : ReconcileJobs(S) \/ TemporaryCleanup(S)

Administration ==
  \/ \E m \in Members :
       SuspendMember(m) \/ RestoreMember(m) \/ DrainCommands(m) \/ StartAccountDeletion(m)
  \/ PrepareRestoredDatabase

Clock == Tick \/ \E e \in Entries : CloseSlot(e) \/ ExpireAsset(e)

Next ==
  \/ OwnerCommand
  \/ Dispatch
  \/ Callback
  \/ Scheduler
  \/ Administration
  \/ Clock

Spec == Init /\ [][Next]_vars

(* The minute scheduler keeps running and reaches every runnable job and    *)
(* every expired lease; wake-ups are lost again and again but not for ever. *)
(* Nothing is assumed of a worker that holds a claim, nor of members.       *)
Fairness ==
  /\ WF_vars(Tick)
  /\ \A e \in Entries :
       /\ WF_vars(\E S \in SUBSET Entries : e \in S \cup Due /\ ReconcileJobs(S))
       /\ SF_vars(IssueJobClaim(e))
       /\ SF_vars(ClaimJob(e))

FairSpec == Spec /\ Fairness
(***************************************************************************)
(* Properties                                                              *)
(***************************************************************************)

(* The upload a member sees and the job that works on it never disagree:    *)
(* whatever commands, callbacks, expiries, suspensions and restores          *)
(* interleave, an entry that is being processed has a job that will move it, *)
(* or an owner who may not run work, and a settled entry has no live job.    *)
Agrees(e) ==
  /\ entry[e] \in {"absent", "awaiting_upload"} => job[e].state = "none"
  /\ entry[e] = "uploaded" =>
       \/ job[e].state \in {"queued", "retry_wait"}
       \/ job[e].state = "canceled" /\ member[Owner[e]] # "active"
  /\ entry[e] = "validating" <=> job[e].state = "running"
  /\ entry[e] = "ready" => job[e].state = "succeeded"
  /\ job[e].state = "succeeded" => entry[e] \in {"ready", "gone"}
  /\ entry[e] = "rejected" => job[e].state \in {"none", "failed"}
  /\ entry[e] = "failed" => job[e].state \in {"failed", "canceled"}
  /\ entry[e] \in {"canceled", "gone"} => job[e].state \in Terminal \cup {"none"}

EntryJobAgreement == \A e \in Entries : Agrees(e)

(* Work on one photo is finite: every lease generation is paid for by an     *)
(* attempt of the automatic budget, and only a manual retry (at most two)    *)
(* or a restored membership grants a new budget.                            *)
Budgeted(e) ==
  job[e].gen <= MaxAttempts * (job[e].manual + restores[Owner[e]]) + job[e].attempts

BoundedWork == \A e \in Entries : Budgeted(e)

(* Heartbeats cannot keep an attempt alive past its stage deadline.          *)
LeaseWithinStage == \A e \in Running : job[e].lease <= job[e].stage

(* Nothing runs for a member who is suspended or leaving, whatever was       *)
(* queued by a command that raced the suspension.                           *)
OnlyActiveMembersRun == \A e \in Running : member[Owner[e]] = "active"

(* A photo has one original, of the generation that completed, exactly when  *)
(* its entry is ready: two attempts never both publish.                     *)
OneOriginal ==
  \A e \in Entries :
    LET originals == {g \in Gens : out[e][g] = "original"}
    IN originals = IF entry[e] = "ready" THEN {job[e].gen} ELSE {}

(* The raw upload is not queued for deletion while an attempt, or a manual   *)
(* retry of a failed upload, may still have to read it.                      *)
RawUploadKept ==
  \A e \in Entries :
    entry[e] \in {"uploaded", "validating", "failed"} => raw[e] = {}

(* An upload URL outlives the decision about its entry: while it is open, a  *)
(* settled entry has a deletion of the raw object due after it closes.       *)
LateUploadRechecked ==
  \A e \in Entries :
    entry[e] \in {"ready", "rejected", "canceled"} /\ slot[e] = "open" => "recheck" \in raw[e]

(* A running job holds a paid attempt, an owner who may run work and a lease *)
(* within its deadline.                                                     *)
RunsProperly(e) ==
  job[e].state = "running" =>
    job[e].attempts # 0 /\ job[e].lease <= job[e].stage /\ member[Owner[e]] = "active"

(* The original is the output of the last generation of a ready entry; an   *)
(* output that was refused belongs to a generation that no longer runs.     *)
OutputsSettled(e) ==
  /\ job[e].state = "none" => job[e].gen = 0
  /\ entry[e] = "ready" => job[e].gen \in Gens
  /\ \A g \in Gens :
       /\ out[e][g] = "original" <=> entry[e] = "ready" /\ g = job[e].gen
       /\ out[e][g] \in {"fenced", "discarded", "unrecorded"} =>
            g <= job[e].gen /\ (g = job[e].gen => job[e].state # "running")

RawKept(e) ==
  /\ entry[e] \in {"absent", "awaiting_upload", "uploaded", "validating", "failed"} =>
       raw[e] = {}
  /\ entry[e] \in {"ready", "rejected", "canceled"} /\ slot[e] = "open" => "recheck" \in raw[e]

Good(e) ==
  Agrees(e) /\ Budgeted(e) /\ RunsProperly(e) /\ OutputsSettled(e) /\ RawKept(e)

(* The invariant every transaction keeps on its own: the properties above    *)
(* and what they need of each other.                                        *)
IInv == TypeOK /\ \A e \in Entries : Good(e)

(* "ready and rejected entries are final", and so is canceled: late          *)
(* callbacks, cleanup, restores and retries never move them.                *)
FinalEntries ==
  [][\A e \in Entries :
       entry[e] \in {"ready", "rejected", "canceled"} => entry'[e] \in {entry[e], "gone"}]_vars

(* A published original is never queued for deletion by a duplicate or late  *)
(* callback, and an output once refused is never published.                 *)
OutputsSettleOnce ==
  [][\A e \in Entries, g \in Gens :
       /\ out[e][g] = "original" /\ out'[e][g] # "original" => entry'[e] = "gone"
       /\ out[e][g] \in {"ended", "fenced", "rejected", "discarded", "unrecorded"} =>
            out'[e][g] # "original"]_vars

(* Every accepted upload of an active member settles, even if every worker   *)
(* dies with its lease: ready, rejected, failed or canceled.                 *)
UploadSettles ==
  \A e \in Entries :
    entry[e] \in {"uploaded", "validating"}
      ~> \/ entry[e] \notin {"uploaded", "validating"}
         \/ member[Owner[e]] # "active"

PublishedGeneration(e) ==
  IF \E g \in Gens : out[e][g] = "original"
  THEN CHOOSE g \in Gens : out[e][g] = "original"
  ELSE 0

StatusOf ==
  [absent |-> "none", awaiting_upload |-> "waiting", uploaded |-> "working",
   validating |-> "working", ready |-> "published", rejected |-> "refused",
   failed |-> "failed", canceled |-> "canceled", gone |-> "removed"]

promise == INSTANCE UploadPromise WITH
  Uploads <- Entries,
  AttemptLimit <- MaxGen,
  status <- [e \in Entries |-> StatusOf[entry[e]]],
  attempt <- [e \in Entries |-> job[e].gen],
  result <- [e \in Entries |-> PublishedGeneration(e)]

(* Jobs, leases, fencing and cleanup implement the promise of UploadPromise: *)
(* in particular only the newest attempt is ever published, once.            *)
KeepsPromise == promise!Spec

(* ARCHITECTURE.md:595: "at most two concurrent processing jobs globally and *)
(* one per member".                                                         *)
RunningWithinLimits ==
  /\ Cardinality(Running) <= GlobalLimit
  /\ \A m \in Members : Cardinality(Running \cap EntriesOf(m)) <= MemberLimit

(* ARCHITECTURE.md:598: "Losing/stale attempts are recorded for object       *)
(* cleanup": no output is told it was applied without being the original.    *)
LosingOutputsRecorded ==
  \A e \in Entries, g \in Gens : out[e][g] # "unrecorded"
=============================================================================

---------------------------- MODULE MediaDeletion ----------------------------
(***************************************************************************)
(* How the bytes of one member leave the bucket: deletion tasks and the    *)
(* runs that work them off, the recheck after a signed upload URL expired, *)
(* the daily comparison of the bucket with the registry, and the deletion  *)
(* of the account with its journal entry and its Auth identity.            *)
(*                                                                         *)
(* The bucket, the database and the runs of the Edge functions take steps  *)
(* of their own; a run may stop between any two.  Time is kept only as far *)
(* as it orders things: a signed URL is open or shut, a task waits or is   *)
(* due, an object is older than the grace period or not.  Two pending      *)
(* tasks of one key and one reason are one task of the model.              *)
(***************************************************************************)
EXTENDS Integers, FiniteSets

CONSTANTS
  RawKeys,   \* quarantine keys, registered before they are uploaded to
  OutKeys,   \* keys a worker uploads to, registered when published
  Runs,      \* invocations that work off deletion tasks
  MaxFaults  \* bound of the model: requests that fail and runs that stop

ASSUME KeysAssumption == RawKeys \cap OutKeys = {} /\ MaxFaults \in Nat

VARIABLES
  store,     \* keys present in the bucket
  old,       \* keys whose object is older than the grace period
  row,       \* private.media_objects: none, live, or deleted_at set
  window,    \* the signed upload URL of a raw key
  work,      \* the job that produces an output key
  task,      \* private.deletion_tasks, per key and reason
  run,       \* deletion runs
  sweep,     \* orphan reconciliation: what it listed
  account,   \* the membership and its account_deletions row
  journal,   \* the deletion journal row of the account
  auth,      \* the Auth identity exists, and with it the job rows it owns
  remover,   \* processAccountDeletions
  faults     \* faults so far

vars == <<store, old, row, window, work, task, run, sweep, account, journal, auth, remover,
          faults>>

Keys == RawKeys \cup OutKeys
Reasons == {"removed", "recheck", "account", "stale", "orphan"}
Tasks == Keys \X Reasons
Pending == {"waiting", "due"}
PendingOf(k) == {t \in Tasks : t[1] = k /\ task[t] \in Pending}
IdleRun == [at |-> "idle", todo |-> {}, now |-> <<>>, absent |-> FALSE, last |-> FALSE]

TypeOK ==
  /\ store \subseteq Keys
  /\ old \subseteq store
  /\ row \in [Keys -> {"none", "live", "deleted"}]
  /\ window \in [RawKeys -> {"none", "open", "shut"}]
  /\ work \in [OutKeys -> {"none", "running", "ended"}]
  /\ task \in [Tasks -> Pending \cup {"none", "done"}]
  /\ \A r \in Runs :
       /\ run[r].at \in {"idle", "next", "delete", "head", "mark", "commit"}
       /\ run[r].todo \subseteq Tasks
       /\ run[r].now \in Tasks \cup {<<>>}
  /\ sweep \in [at : {"idle", "listed"}, candidates : SUBSET Keys]
  /\ account \in {"active", "objects_pending", "auth_pending", "complete"}
  /\ journal \in {"none", "recorded", "exported"}
  /\ auth \in BOOLEAN
  /\ remover \in {"idle", "exporting", "exported", "removing"}
  /\ faults \in 0..MaxFaults

Init ==
  /\ store = {} /\ old = {}
  /\ row = [k \in Keys |-> "none"]
  /\ window = [k \in RawKeys |-> "none"]
  /\ work = [k \in OutKeys |-> "none"]
  /\ task = [t \in Tasks |-> "none"]
  /\ run = [r \in Runs |-> IdleRun]
  /\ sweep = [at |-> "idle", candidates |-> {}]
  /\ account = "active" /\ journal = "none" /\ auth = TRUE
  /\ remover = "idle" /\ faults = 0

Fault == faults < MaxFaults /\ faults' = faults + 1

Enqueued(K, reason) ==
  [t \in Tasks |-> IF t[1] \in K /\ t[2] = reason /\ task[t] \notin Pending THEN "due" ELSE task[t]]

-----------------------------------------------------------------------------
(* Uploads: a slot registers its key and opens a URL, the browser puts while *)
(* it is open, and the upload ends by validation, cancellation or cleanup.   *)
CreateSlot(k) ==
  /\ account = "active" /\ row[k] = "none"
  /\ row' = [row EXCEPT ![k] = "live"]
  /\ window' = [window EXCEPT ![k] = "open"]
  /\ UNCHANGED <<store, old, work, task, run, sweep, account, journal, auth, remover, faults>>

PutRaw(k) ==
  /\ window[k] = "open"
  /\ store' = store \cup {k} /\ old' = old \ {k}
  /\ UNCHANGED <<row, window, work, task, run, sweep, account, journal, auth, remover, faults>>

ShutWindow(k) ==
  /\ window[k] = "open"
  /\ window' = [window EXCEPT ![k] = "shut"]
  /\ UNCHANGED <<store, old, row, work, task, run, sweep, account, journal, auth, remover, faults>>

(* Validated, rejected or canceled: deleted now, and again when the URL is   *)
(* certain to have expired.  An abandoned slot is past that already.         *)
EndUpload(k) ==
  /\ account = "active" /\ row[k] = "live" /\ PendingOf(k) = {}
  /\ task' = IF window[k] = "open"
             THEN [Enqueued({k}, "removed") EXCEPT ![<<k, "recheck">>] = "waiting"]
             ELSE Enqueued({k}, "removed")
  /\ UNCHANGED <<store, old, row, window, work, run, sweep, account, journal, auth, remover, faults>>

(* A worker uploads an output, and its completion publishes or discards it.  *)
StartWork(k) ==
  /\ account = "active" /\ work[k] = "none"
  /\ work' = [work EXCEPT ![k] = "running"]
  /\ UNCHANGED <<store, old, row, window, task, run, sweep, account, journal, auth, remover, faults>>

PutOutput(k) ==
  /\ work[k] = "running"
  /\ store' = store \cup {k}
  /\ UNCHANGED <<old, row, window, work, task, run, sweep, account, journal, auth, remover, faults>>

Publish(k) ==
  /\ work[k] = "running" /\ k \in store /\ account = "active"
  /\ work' = [work EXCEPT ![k] = "ended"]
  /\ row' = [row EXCEPT ![k] = "live"]
  /\ UNCHANGED <<store, old, window, task, run, sweep, account, journal, auth, remover, faults>>

(* svc_discard_job_output copies the owner from the job's row: without that  *)
(* row nothing is recorded.                                                  *)
DiscardOutput(k) ==
  /\ work[k] = "running"
  /\ work' = [work EXCEPT ![k] = "ended"]
  /\ task' = IF auth THEN Enqueued({k}, "stale") ELSE task
  /\ UNCHANGED <<store, old, row, window, run, sweep, account, journal, auth, remover, faults>>

AbandonOutput(k) ==
  /\ work[k] = "running"
  /\ work' = [work EXCEPT ![k] = "ended"]
  /\ UNCHANGED <<store, old, row, window, task, run, sweep, account, journal, auth, remover, faults>>

(* delete_asset, for a deleted piece or a replaced photo.                    *)
DeleteAsset(k) ==
  /\ account = "active" /\ row[k] = "live"
  /\ task' = Enqueued({k}, "removed")
  /\ UNCHANGED <<store, old, row, window, work, run, sweep, account, journal, auth, remover, faults>>

-----------------------------------------------------------------------------
(* Dueness: a recheck when its URL is shut, a claimed or failed task after   *)
(* its delay.                                                                *)
MayFallDueOnce(t) == task[t] = "waiting" /\ t[2] = "recheck" /\ window[t[1]] = "shut"
MayFallDue(t) == task[t] = "waiting" /\ (t[2] = "recheck" => window[t[1]] = "shut")
FallDue(t) ==
  /\ MayFallDue(t)
  /\ task' = [task EXCEPT ![t] = "due"]
  /\ UNCHANGED <<store, old, row, window, work, run, sweep, account, journal, auth, remover, faults>>

Set(r, x) == run' = [run EXCEPT ![r] = x]

(* processMediaDeletion: due tasks are claimed in one transaction and hidden *)
(* for a while, then worked off one by one.                                  *)
HiddenFor(S) == [t \in Tasks |-> IF t \in S THEN "waiting" ELSE task[t]]
ClaimTasks(r) ==
  LET due == {t \in Tasks : task[t] = "due"} IN
  /\ run[r].at = "idle" /\ due # {}
  /\ task' = HiddenFor(due)
  /\ Set(r, [IdleRun EXCEPT !.at = "next", !.todo = due])
  /\ UNCHANGED <<store, old, row, window, work, sweep, account, journal, auth, remover, faults>>

NextTask(r) ==
  /\ run[r].at = "next"
  /\ IF run[r].todo = {} THEN Set(r, IdleRun)
     ELSE \E t \in run[r].todo :
            Set(r, [run[r] EXCEPT !.at = "delete", !.now = t, !.todo = run[r].todo \ {t}])
  /\ UNCHANGED <<store, old, row, window, work, task, sweep, account, journal, auth, remover, faults>>

(* deleteObject is a DELETE and then a HEAD, and either may fail; a DELETE   *)
(* that seems to have failed may have been done.                             *)
DeleteObject(r) ==
  /\ run[r].at = "delete"
  /\ \/ /\ store' = store \ {run[r].now[1]}
        /\ Set(r, [run[r] EXCEPT !.at = "head"])
        /\ UNCHANGED faults
     \/ /\ Fault
        /\ store' \in {store, store \ {run[r].now[1]}}
        /\ Set(r, [run[r] EXCEPT !.at = "mark", !.absent = FALSE])
  /\ old' = old \cap store'
  /\ UNCHANGED <<row, window, work, task, sweep, account, journal, auth, remover>>

HeadObject(r) ==
  /\ run[r].at = "head"
  /\ \/ /\ Set(r, [run[r] EXCEPT !.at = "mark", !.absent = run[r].now[1] \notin store])
        /\ UNCHANGED faults
     \/ /\ Set(r, [run[r] EXCEPT !.at = "mark", !.absent = FALSE])
        /\ Fault
  /\ UNCHANGED <<store, old, row, window, work, task, sweep, account, journal, auth, remover>>

(* svc_complete_deletion_task reads the other tasks of the key as they were  *)
(* committed, and its own update shows when it commits.                      *)
LockedByOther(r) == \E q \in Runs \ {r} : run[q].at = "commit" /\ run[q].now = run[r].now
MarkTask(r) ==
  LET t == run[r].now IN
  /\ run[r].at = "mark"
  /\ ~LockedByOther(r)
  /\ IF run[r].absent /\ task[t] \in Pending
     THEN /\ Set(r, [run[r] EXCEPT !.at = "commit", !.last = PendingOf(t[1]) \subseteq {t}])
          /\ UNCHANGED task
     ELSE /\ Set(r, [run[r] EXCEPT !.at = "next"])
          /\ task' = IF task[t] \in Pending THEN [task EXCEPT ![t] = "waiting"] ELSE task
  /\ UNCHANGED <<store, old, row, window, work, sweep, account, journal, auth, remover, faults>>

CommitTask(r) ==
  LET t == run[r].now IN
  /\ run[r].at = "commit"
  /\ task' = [task EXCEPT ![t] = "done"]
  /\ row' = IF run[r].last /\ row[t[1]] = "live" THEN [row EXCEPT ![t[1]] = "deleted"] ELSE row
  /\ Set(r, [run[r] EXCEPT !.at = "next"])
  /\ UNCHANGED <<store, old, window, work, sweep, account, journal, auth, remover, faults>>

RunDies(r) ==
  /\ run[r].at # "idle"
  /\ Fault
  /\ Set(r, IdleRun)
  /\ UNCHANGED <<store, old, row, window, work, task, sweep, account, journal, auth, remover>>

-----------------------------------------------------------------------------
(* reconcileOrphans: the bucket is listed, then compared in a transaction.   *)
(* An object ages past the grace period long after its URL or job ended.     *)
AgesAtOnce(k) == k \in store
Ages(k) ==
  /\ k \in store
  /\ k \in RawKeys => window[k] = "shut"
  /\ k \in OutKeys => work[k] = "ended"
Age(k) ==
  /\ Ages(k) /\ k \notin old
  /\ old' = old \cup {k}
  /\ UNCHANGED <<store, row, window, work, task, run, sweep, account, journal, auth, remover, faults>>

ListBucket ==
  /\ sweep.at = "idle" /\ old # {}
  /\ sweep' = [at |-> "listed", candidates |-> old]
  /\ UNCHANGED <<store, old, row, window, work, task, run, account, journal, auth, remover, faults>>

Orphan(k) == row[k] # "live" /\ PendingOf(k) = {}
ReconcileStorage ==
  /\ sweep.at = "listed"
  /\ task' = Enqueued({k \in sweep.candidates : Orphan(k)}, "orphan")
  /\ sweep' = [at |-> "idle", candidates |-> {}]
  /\ UNCHANGED <<store, old, row, window, work, run, account, journal, auth, remover, faults>>

-----------------------------------------------------------------------------
(* begin_account_deletion: jobs end, every live object is queued once, and   *)
(* the journal row is written with it.                                       *)
BeginAccountDeletion ==
  /\ account = "active"
  /\ account' = "objects_pending"
  /\ task' = Enqueued({k \in Keys : row[k] = "live"}, "account")
  /\ journal' = "recorded"
  /\ UNCHANGED <<store, old, row, window, work, run, sweep, auth, remover, faults>>

(* processAccountDeletions: the journal, the tasks (as any run does), the    *)
(* accounts that are ready, their Auth identities.                           *)
ExportJournal ==
  /\ \/ /\ remover = "idle" /\ account # "complete"
        /\ remover' = IF journal = "recorded" THEN "exporting" ELSE "exported"
        /\ UNCHANGED journal
     \/ /\ remover = "exporting"
        /\ journal' = "exported" /\ remover' = "exported"
  /\ UNCHANGED <<store, old, row, window, work, task, run, sweep, account, auth, faults>>

(* Only tasks with the member's user_id count: the sweep's tasks have none.  *)
OwnPending == {t \in Tasks : t[2] # "orphan" /\ task[t] \in Pending}
Ready ==
  \/ account = "auth_pending"
  \/ account = "objects_pending" /\ OwnPending = {}
AccountReady ==
  /\ remover = "exported"
  /\ IF Ready THEN account' = "auth_pending" /\ remover' = "removing"
              ELSE remover' = "idle" /\ UNCHANGED account
  /\ UNCHANGED <<store, old, row, window, work, task, run, sweep, journal, auth, faults>>

(* Deleting the identity deletes its job rows; registry rows and tasks stay, *)
(* and lose their owner (on delete set null).                                *)
DeleteUser ==
  /\ remover = "removing" /\ account = "auth_pending" /\ auth
  /\ \/ auth' = FALSE /\ UNCHANGED <<remover, faults>>
     \/ Fault /\ remover' = "idle" /\ UNCHANGED auth
  /\ UNCHANGED <<store, old, row, window, work, task, run, sweep, account, journal>>

CompleteAccountDeletion ==
  /\ remover = "removing" /\ ~auth
  /\ account' = "complete" /\ remover' = "idle"
  /\ UNCHANGED <<store, old, row, window, work, task, run, sweep, journal, auth, faults>>

RemoverDies ==
  /\ remover # "idle"
  /\ Fault
  /\ remover' = "idle"
  /\ UNCHANGED <<store, old, row, window, work, task, run, sweep, account, journal, auth>>

ProcessMediaDeletion(r) ==
  ClaimTasks(r) \/ NextTask(r) \/ DeleteObject(r) \/ HeadObject(r) \/ MarkTask(r) \/ CommitTask(r)
ReconcileOrphans == ListBucket \/ ReconcileStorage
ProcessAccountDeletions == ExportJournal \/ AccountReady \/ DeleteUser \/ CompleteAccountDeletion

Next ==
  \/ \E k \in RawKeys : CreateSlot(k) \/ PutRaw(k) \/ ShutWindow(k) \/ EndUpload(k)
  \/ \E k \in OutKeys : StartWork(k) \/ PutOutput(k) \/ Publish(k) \/ DiscardOutput(k)
                          \/ AbandonOutput(k) \/ DeleteAsset(k)
  \/ \E k \in Keys : Age(k)
  \/ \E t \in Tasks : FallDue(t)
  \/ \E r \in Runs : ProcessMediaDeletion(r) \/ RunDies(r)
  \/ ReconcileOrphans \/ BeginAccountDeletion \/ ProcessAccountDeletions \/ RemoverDies

Spec == Init /\ [][Next]_vars

(* Schedules run again and again; URLs, leases and delays run out.           *)
TimePasses == (\E k \in Keys : Age(k)) \/ (\E t \in Tasks : FallDue(t))
WorkEnds == \E k \in OutKeys : Publish(k) \/ DiscardOutput(k) \/ AbandonOutput(k)
FairSpec ==
  /\ Spec
  /\ WF_vars(TimePasses) /\ WF_vars(\E k \in RawKeys : ShutWindow(k)) /\ WF_vars(WorkEnds)
  /\ \A r \in Runs : WF_vars(ProcessMediaDeletion(r))
  /\ WF_vars(ReconcileOrphans) /\ WF_vars(ProcessAccountDeletions)

-----------------------------------------------------------------------------
(* An object the registry shows and nobody asked to delete stays in the      *)
(* bucket: the sweep never takes a worker's output for an orphan.            *)
(*                                  [reconcileOrphans, svc_reconcile_storage] *)
PublishedKept ==
  \A k \in OutKeys :
    row[k] = "live" /\ (\A t \in Tasks : t[1] = k /\ t[2] # "orphan" => task[t] = "none")
      => k \in store

(* Once the recheck of an upload's key is done, its bytes never come back.   *)
(*                             [svc_cancel_upload_entry, quarantine_recheck] *)
RecheckedStaysGone ==
  \A k \in RawKeys : task[<<k, "recheck">>] = "done" => k \notin store

(* The identity is removed only after every object registered when the       *)
(* deletion began was confirmed absent.        [svc_account_deletions_ready] *)
ObjectsBeforeIdentity ==
  ~auth => \A k \in Keys : task[<<k, "account">>] \notin Pending

(* A deletion task is worked off although runs die and storage fails.        *)
(*                                   [svc_claim_deletion_tasks' visibility]  *)
TasksFinish == \A t \in Tasks : task[t] \in Pending ~> task[t] = "done"

(* Bytes that nothing shows leave the bucket, whoever lost track of them.    *)
(*                                                        [reconcileOrphans] *)
OrphansSwept == \A k \in Keys : k \in store /\ row[k] # "live" ~> k \notin store \/ row[k] = "live"

(* A deletion that began completes.                [processAccountDeletions] *)
AccountDeletionCompletes == account = "objects_pending" ~> account = "complete"

(* A member whose identity may be removed has nothing left in the bucket.    *)
(*                                          [begin_account_deletion; README] *)
ReadyMeansAbsent == account \in {"auth_pending", "complete"} => store = {}

(* The journal entry leaves the database before anything is removed.         *)
(*                                         [processAccountDeletions; README] *)
JournaledBeforeRemoved ==
  [][journal = "recorded" => store \subseteq store' /\ auth' = auth]_vars

(* When the last task of a key is done, its row says deleted.                *)
(*                                      [svc_complete_deletion_task; README] *)
DoneMeansMarked ==
  \A k \in Keys :
    PendingOf(k) = {} /\ (\E t \in Tasks : t[1] = k /\ task[t] = "done") => row[k] # "live"
=============================================================================

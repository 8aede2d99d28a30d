---------------------------- MODULE UploadClient ----------------------------
(***************************************************************************)
(* Sending photos from the browser: the upload manager of each tab (tasks, *)
(* at most a few transfers at a time, retry, choosing a file again), the   *)
(* receipt that shows a batch and polls while work is moving, and the      *)
(* session that may end or change under both.                              *)
(*                                                                         *)
(* An invocation of run() is a process: between its requests other code of *)
(* the tab runs.  A request in flight is handled by the server in a step   *)
(* of its own, and its answer arrives, or is lost, in another.  A run      *)
(* keeps the task it was started with (own) although the map may hold      *)
(* another task, or none, for the same entry by then.                      *)
(***************************************************************************)
EXTENDS Integers, FiniteSets

CONSTANTS
  Tabs,
  Entries,        \* the slots of one batch
  Runs,           \* bound of the model: invocations of run() under way at once
  MaxConcurrent,  \* MAX_CONCURRENT
  MaxFiles,       \* bound of the model: files chosen for one entry
  MaxFaults,      \* bound of the model: failed requests and closed tabs
  MaxSignOuts     \* bound of the model: sessions ended by the member

VARIABLES
  entry,      \* upload_entries.state
  object,     \* the file stored under the entry's quarantine key, 0 if none
  accepted,   \* the file stored when the server accepted the upload
  user,       \* who is signed in, per tab
  leaving,    \* discardSession disposed, and the session is not yet gone
  task,       \* the upload manager's map
  run,        \* invocations of run()
  begun,      \* the batch was created and handed to the upload manager
  seen,       \* the receipt's cached entries
  picking,    \* the entry the file picker is open for
  cancel,     \* the receipt's cancel mutations
  faults, signouts

vars == <<entry, object, accepted, user, leaving, task, run, begun, seen, picking, cancel,
          faults, signouts>>

States == {"awaiting_upload", "uploaded", "ready", "failed", "canceled"}
NoTask == [status |-> "none", file |-> 0, url |-> FALSE]
Active == {"uploading", "completing"}
FreeRun == [at |-> "free"]
Sending == {"put", "stored"}
Busy(r) == run[r].at # "free"

TypeOK ==
  /\ entry \in [Entries -> States]
  /\ object \in [Entries -> 0..MaxFiles] /\ accepted \in [Entries -> 0..MaxFiles]
  /\ user \in [Tabs -> {"member", "other", "none"}]
  /\ leaving \in [Tabs -> BOOLEAN]
  /\ task \in [Tabs -> [Entries ->
       [status : Active \cup {"none", "queued", "done", "failed"}, file : 0..MaxFiles, url : BOOLEAN]]]
  /\ \A t \in Tabs, e \in Entries : task[t][e].file = 0 <=> task[t][e].status = "none"
  /\ \A r \in Runs : Busy(r) =>
       /\ run[r].at \in Sending \cup {"renew", "renewed", "complete", "completed", "fail"}
       /\ run[r].tab \in Tabs /\ run[r].entry \in Entries /\ run[r].file \in 1..MaxFiles
       /\ run[r].own \in BOOLEAN /\ run[r].ok \in BOOLEAN
  /\ begun \in BOOLEAN
  /\ seen \in [Tabs -> [Entries -> States \cup {"none"}]]
  /\ picking \in [Tabs -> SUBSET Entries]
  /\ cancel \in [Tabs -> [Entries -> {"no", "sent", "done", "refused"}]]
  /\ faults \in 0..MaxFaults /\ signouts \in 0..MaxSignOuts

Init ==
  /\ entry = [e \in Entries |-> "awaiting_upload"]
  /\ object = [e \in Entries |-> 0] /\ accepted = [e \in Entries |-> 0]
  /\ user = [t \in Tabs |-> "member"] /\ leaving = [t \in Tabs |-> FALSE]
  /\ task = [t \in Tabs |-> [e \in Entries |-> NoTask]]
  /\ run = [r \in Runs |-> FreeRun]
  /\ begun = FALSE
  /\ seen = [t \in Tabs |-> [e \in Entries |-> "none"]]
  /\ picking = [t \in Tabs |-> {}]
  /\ cancel = [t \in Tabs |-> [e \in Entries |-> "no"]]
  /\ faults = 0 /\ signouts = 0

Fault == faults < MaxFaults /\ faults' = faults + 1

-----------------------------------------------------------------------------
(* pump(): T is the tab's map and R the runs after what the caller changed.  *)
(* run() starts each chosen task, and renews its URL first unless it has one.*)
ActiveTasks(T) == {e \in Entries : T[e].status \in Active}
Room(T) ==
  LET left == MaxConcurrent - Cardinality(ActiveTasks(T)) IN IF left > 0 THEN left ELSE 0
Chosen(S, queued, room) ==
  IF Cardinality(queued) <= room THEN S = queued ELSE Cardinality(S) = room
Started(T, S) == [e \in Entries |-> IF e \in S THEN [T[e] EXCEPT !.status = "uploading"] ELSE T[e]]
NewRun(t, e, T) ==
  [at |-> IF T[e].url THEN "put" ELSE "renew",
   tab |-> t, entry |-> e, file |-> T[e].file, own |-> TRUE, ok |-> FALSE]
Pump(t, T, R) ==
  LET queued == {e \in Entries : T[e].status = "queued"}
      free   == {r \in Runs : R[r].at = "free"}
  IN \E S \in SUBSET queued :
       /\ Chosen(S, queued, Room(T)) /\ Cardinality(S) <= Cardinality(free)
       /\ LET id == CHOOSE f \in [S -> free] : \A d, e \in S : f[d] = f[e] => d = e IN
          /\ task' = [task EXCEPT ![t] = Started(T, S)]
          /\ run' = [r \in Runs |->
                       IF \E e \in S : id[e] = r
                       THEN NewRun(t, CHOOSE e \in S : id[e] = r, T)
                       ELSE R[r]]

NoPump(t, T, R) == task' = [task EXCEPT ![t] = T] /\ run' = R

(* update(): the patch goes to the task the map holds now, whoever sends it. *)
Updated(T, e, status) ==
  IF T[e].status = "none" THEN T ELSE [T EXCEPT ![e].status = status]

(* A task leaves the map: its request is aborted and its run is on its own.  *)
Dropped(t, E) ==
  [r \in Runs |->
     IF Busy(r) /\ run[r].tab = t /\ run[r].entry \in E
     THEN [run[r] EXCEPT !.own = FALSE,
             !.at = IF run[r].own /\ run[r].at \in Sending THEN "fail" ELSE run[r].at]
     ELSE run[r]]

-----------------------------------------------------------------------------
(* Gather hands the batch to the manager of the tab it was gathered in.      *)
Start(t) ==
  /\ ~begun /\ user[t] = "member" /\ ~leaving[t]
  /\ begun' = TRUE
  /\ seen' = [seen EXCEPT ![t] = entry]
  /\ Pump(t, [e \in Entries |-> [status |-> "queued", file |-> 1, url |-> TRUE]], run)
  /\ UNCHANGED <<entry, object, accepted, user, leaving, picking, cancel, faults, signouts>>

UrlExpires(t, e) ==
  /\ task[t][e].url
  /\ task' = [task EXCEPT ![t][e].url = FALSE]
  /\ UNCHANGED <<entry, object, accepted, user, leaving, run, begun, seen, picking, cancel, faults, signouts>>

(* svc_renew_upload_entry answers only while the entry awaits its upload.    *)
Renewable(e) == entry[e] = "awaiting_upload"
HandleRenew(r) ==
  /\ run[r].at = "renew"
  /\ \/ /\ run' = [run EXCEPT ![r].at = "renewed",
                     ![r].ok = user[run[r].tab] = "member" /\ Renewable(run[r].entry)]
        /\ UNCHANGED faults
     \/ Fault /\ run' = [run EXCEPT ![r].at = "renewed", ![r].ok = FALSE]
  /\ UNCHANGED <<entry, object, accepted, user, leaving, task, begun, seen, picking, cancel, signouts>>

(* apiRequest discards the answer if another account is current by now.      *)
RenewAnswered(r) ==
  LET t == run[r].tab  e == run[r].entry
      ok == run[r].ok /\ user[t] = "member" IN
  /\ run[r].at = "renewed"
  /\ run' = [run EXCEPT ![r].at = IF ok THEN "put" ELSE "fail"]
  /\ task' = IF ok /\ run[r].own THEN [task EXCEPT ![t][e].url = TRUE] ELSE task
  /\ UNCHANGED <<entry, object, accepted, user, leaving, begun, seen, picking, cancel, faults, signouts>>

PutStored(r) ==
  /\ run[r].at = "put"
  /\ object' = [object EXCEPT ![run[r].entry] = run[r].file]
  /\ run' = [run EXCEPT ![r].at = "stored"]
  /\ UNCHANGED <<entry, accepted, user, leaving, task, begun, seen, picking, cancel, faults, signouts>>

PutAnswered(r) ==
  LET t == run[r].tab  e == run[r].entry IN
  /\ run[r].at = "stored"
  /\ NoPump(t, Updated(task[t], e, "completing"),
            [run EXCEPT ![r].at = "complete", ![r].ok = user[t] = "member"])
  /\ UNCHANGED <<entry, object, accepted, user, leaving, begun, seen, picking, cancel, faults, signouts>>

PutFails(r) ==
  /\ run[r].at \in Sending
  /\ Fault
  /\ run' = [run EXCEPT ![r].at = "fail"]
  /\ UNCHANGED <<entry, object, accepted, user, leaving, task, begun, seen, picking, cancel, signouts>>

(* svc_complete_upload_entry; ok holds the caller's right on the way there.  *)
(* For a canceled entry the answer depends on whether this request identity  *)
(* was answered before.                                                      *)
HandleComplete(r) ==
  LET e == run[r].entry
      Ends(ok) == run' = [run EXCEPT ![r].at = "completed", ![r].ok = ok] IN
  /\ run[r].at = "complete"
  /\ \/ /\ run[r].ok /\ entry[e] = "awaiting_upload" /\ object[e] # 0
        /\ entry' = [entry EXCEPT ![e] = "uploaded"]
        /\ accepted' = [accepted EXCEPT ![e] = object[e]]
        /\ \/ Ends(TRUE) /\ UNCHANGED faults
           \/ Ends(FALSE) /\ Fault
     \/ /\ \/ run[r].ok /\ entry[e] \in {"uploaded", "ready", "failed"} /\ Ends(TRUE)
           \/ run[r].ok /\ entry[e] = "canceled" /\ \E ok \in BOOLEAN : Ends(ok)
           \/ ~run[r].ok /\ Ends(FALSE)
        /\ UNCHANGED <<entry, accepted, faults>>
     \/ Fault /\ Ends(FALSE) /\ UNCHANGED <<entry, accepted>>
  /\ UNCHANGED <<object, user, leaving, task, begun, seen, picking, cancel, signouts>>

(* The end of run(): done, or failed in its catch, and finally pump().       *)
AnswerOk(r) == run[r].ok /\ user[run[r].tab] = "member"
EndStatusUnchecked(r) == IF run[r].at = "completed" THEN "done" ELSE "failed"
EndStatus(r) == IF run[r].at = "completed" /\ AnswerOk(r) THEN "done" ELSE "failed"
PumpLater(t, T, R) == NoPump(t, T, R)
PumpAfterRun(t, T, R) == Pump(t, T, R)
EndRun(r) ==
  LET t == run[r].tab IN
  /\ run[r].at \in {"completed", "fail"}
  /\ PumpAfterRun(t, Updated(task[t], run[r].entry, EndStatus(r)), [run EXCEPT ![r] = FreeRun])
  /\ UNCHANGED <<entry, object, accepted, user, leaving, begun, seen, picking, cancel, faults, signouts>>

RunStep(r) ==
  \/ HandleRenew(r) \/ RenewAnswered(r) \/ PutStored(r) \/ PutAnswered(r) \/ PutFails(r)
  \/ HandleComplete(r) \/ EndRun(r)

-----------------------------------------------------------------------------
(* The receipt.  It polls while work it knows of is moving, and refetches    *)
(* when the tab gets focus.                                                  *)
Showing(t) == user[t] = "member" /\ ~leaving[t] /\ seen[t] # [e \in Entries |-> "none"]
MovingHere(t, e) == seen[t][e] = "awaiting_upload" /\ task[t][e].status \notin {"none", "failed"}
Moving(t) == \E e \in Entries : seen[t][e] = "uploaded" \/ MovingHere(t, e)

Summary(t) ==
  IF \E e \in Entries : MovingHere(t, e) THEN "keep_open"
  ELSE IF \E e \in Entries : seen[t][e] = "uploaded" THEN "checking" ELSE "settled"

Fetch(t) ==
  /\ seen' = [seen EXCEPT ![t] = entry]
  /\ UNCHANGED <<begun, entry, object, accepted, user, leaving, task, run, picking, cancel, faults, signouts>>
Poll(t) == Showing(t) /\ Moving(t) /\ Fetch(t)
Focus(t) == user[t] = "member" /\ ~leaving[t] /\ begun /\ Fetch(t)

RetryPhoto(t, e) ==
  /\ Showing(t) /\ task[t][e].status = "failed"
  /\ Pump(t, [task[t] EXCEPT ![e].status = "queued"], run)
  /\ UNCHANGED <<entry, object, accepted, user, leaving, begun, seen, picking, cancel, faults, signouts>>

ChooseAgain(t, e) ==
  /\ Showing(t) /\ seen[t][e] = "awaiting_upload" /\ task[t][e].status = "none"
  /\ picking' = [picking EXCEPT ![t] = {e}]
  /\ UNCHANGED <<entry, object, accepted, user, leaving, task, run, begun, seen, cancel, faults, signouts>>

(* The picker returns a file of the declared type, not always the same file. *)
Reselect(t, e, file) ==
  /\ e \in picking[t]
  /\ picking' = [picking EXCEPT ![t] = {}]
  /\ Pump(t, [task[t] EXCEPT ![e] = [status |-> "queued", file |-> file, url |-> FALSE]],
          Dropped(t, {e}))
  /\ UNCHANGED <<entry, object, accepted, user, leaving, begun, seen, cancel, faults, signouts>>

(* Cancel: offered by the state shown, decided by the state stored.          *)
CancelPhoto(t, e) ==
  /\ Showing(t) /\ seen[t][e] \in {"awaiting_upload", "uploaded", "failed"}
  /\ cancel[t][e] = "no"
  /\ cancel' = [cancel EXCEPT ![t][e] = "sent"]
  /\ UNCHANGED <<entry, object, accepted, user, leaving, task, run, begun, seen, picking, faults, signouts>>

HandleCancel(t, e) ==
  /\ cancel[t][e] = "sent"
  /\ \/ /\ entry[e] \in {"awaiting_upload", "uploaded", "failed", "canceled"}
        /\ entry' = [entry EXCEPT ![e] = "canceled"]
        /\ cancel' = [cancel EXCEPT ![t][e] = "done"]
     \/ /\ entry[e] = "ready"
        /\ cancel' = [cancel EXCEPT ![t][e] = "refused"]
        /\ UNCHANGED entry
  /\ UNCHANGED <<object, accepted, user, leaving, task, run, begun, seen, picking, faults, signouts>>

CancelAnswered(t, e) ==
  /\ cancel[t][e] \in {"done", "refused"}
  /\ cancel' = [cancel EXCEPT ![t][e] = "no"]
  /\ IF cancel[t][e] = "done" /\ user[t] = "member"
     THEN /\ NoPump(t, [task[t] EXCEPT ![e] = NoTask], Dropped(t, {e}))
          /\ seen' = [seen EXCEPT ![t] = entry]
     ELSE UNCHANGED <<task, run, seen>>
  /\ UNCHANGED <<begun, entry, object, accepted, user, leaving, picking, faults, signouts>>

TryAgain(t, e) ==
  /\ Showing(t) /\ seen[t][e] = "failed" /\ entry[e] = "failed"
  /\ entry' = [entry EXCEPT ![e] = "uploaded"]
  /\ seen' = [seen EXCEPT ![t] = entry']
  /\ UNCHANGED <<begun, object, accepted, user, leaving, task, run, picking, cancel, faults, signouts>>

(* The validation job, as the receipt sees it; a job that failed can only be *)
(* tried again as often as the bound allows.                                 *)
Validated(e) ==
  /\ entry[e] = "uploaded"
  /\ \/ entry' = [entry EXCEPT ![e] = "ready"] /\ UNCHANGED faults
     \/ entry' = [entry EXCEPT ![e] = "failed"] /\ Fault
  /\ UNCHANGED <<object, accepted, user, leaving, task, run, begun, seen, picking, cancel, signouts>>

-----------------------------------------------------------------------------
(* The session.  discardSession disposes, then signs out; the change of the  *)
(* account disposes again.  Closing the tab ends its session and its memory. *)
Disposed(t) == NoPump(t, [e \in Entries |-> NoTask], Dropped(t, Entries))

SignOut(t) ==
  /\ user[t] = "member" /\ ~leaving[t] /\ signouts < MaxSignOuts
  /\ signouts' = signouts + 1
  /\ leaving' = [leaving EXCEPT ![t] = TRUE]
  /\ Disposed(t)
  /\ seen' = [seen EXCEPT ![t] = [e \in Entries |-> "none"]]
  /\ UNCHANGED <<begun, entry, object, accepted, user, picking, cancel, faults>>

SessionEnds(t) ==
  /\ leaving[t]
  /\ leaving' = [leaving EXCEPT ![t] = FALSE]
  /\ user' = [user EXCEPT ![t] = "none"]
  /\ Disposed(t)
  /\ seen' = [seen EXCEPT ![t] = [e \in Entries |-> "none"]]
  /\ picking' = [picking EXCEPT ![t] = {}]
  /\ UNCHANGED <<begun, entry, object, accepted, cancel, faults, signouts>>

SignIn(t) ==
  /\ user[t] = "none"
  /\ \E who \in {"member", "other"} : user' = [user EXCEPT ![t] = who]
  /\ UNCHANGED <<entry, object, accepted, leaving, task, run, begun, seen, picking, cancel, faults, signouts>>

CloseTab(t) ==
  /\ Showing(t) /\ ~leaving[t]
  /\ Fault
  /\ task' = [task EXCEPT ![t] = [e \in Entries |-> NoTask]]
  /\ run' = [r \in Runs |-> IF Busy(r) /\ run[r].tab = t THEN FreeRun ELSE run[r]]
  /\ user' = [user EXCEPT ![t] = "none"]
  /\ seen' = [seen EXCEPT ![t] = [e \in Entries |-> "none"]]
  /\ picking' = [picking EXCEPT ![t] = {}]
  /\ cancel' = [cancel EXCEPT ![t] = [e \in Entries |-> "no"]]
  /\ UNCHANGED <<entry, object, accepted, leaving, begun, signouts>>

Receipt(t, e) ==
  \/ RetryPhoto(t, e) \/ ChooseAgain(t, e) \/ CancelPhoto(t, e) \/ TryAgain(t, e)
  \/ \E file \in 1..MaxFiles : Reselect(t, e, file)
CancelStep(t, e) == HandleCancel(t, e) \/ CancelAnswered(t, e)

Next ==
  \/ \E r \in Runs : RunStep(r)
  \/ \E e \in Entries : Validated(e)
  \/ \E t \in Tabs :
       \/ Start(t) \/ Poll(t) \/ Focus(t)
       \/ SignOut(t) \/ SessionEnds(t) \/ SignIn(t) \/ CloseTab(t)
       \/ \E e \in Entries : UrlExpires(t, e) \/ Receipt(t, e) \/ CancelStep(t, e)

Spec == Init /\ [][Next]_vars

(* Requests are answered or fail, jobs end and the receipt polls; the member *)
(* and the focus of the window are under no obligation.                      *)
FairSpec ==
  /\ Spec
  /\ \A r \in Runs : WF_vars(RunStep(r))
  /\ WF_vars(\E e \in Entries : Validated(e))
  /\ \A t \in Tabs : WF_vars(Poll(t)) /\ WF_vars(\E e \in Entries : CancelStep(t, e))

-----------------------------------------------------------------------------
(* A tab never has more than MAX_CONCURRENT of its listed photos under way,  *)
(* whatever was retried, chosen again or canceled meanwhile.          [pump] *)
TransfersBounded == \A t \in Tabs : Cardinality(ActiveTasks(task[t])) <= MaxConcurrent

(* A photo is called sent only when the server has it.  [run, HandleComplete]*)
DoneMeansAccepted ==
  \A t \in Tabs, e \in Entries : task[t][e].status = "done" => entry[e] # "awaiting_upload"

(* Whenever closing the tab would lose a photo that is on its way, the       *)
(* receipt says to keep it open.                           [UploadReceipt]   *)
KeepOpenShown ==
  \A t \in Tabs, e \in Entries :
    Showing(t) /\ entry[e] = "awaiting_upload" /\ task[t][e].status \in Active \cup {"queued"}
      => Summary(t) = "keep_open"

(* A queued photo is not forgotten when others end, fail or are canceled.    *)
(*                                                             [pump, run]   *)
QueuedPhotosStart ==
  \A t \in Tabs, e \in Entries : task[t][e].status = "queued" ~> task[t][e].status # "queued"

(* A receipt that shows a photo being checked shows what became of it.       *)
(*                                                        [refetchInterval]  *)
ReceiptFollowsChecks ==
  \A t \in Tabs, e \in Entries : seen[t][e] = "uploaded" ~> seen[t][e] # "uploaded"

(* Polling stops at a terminal state, not before.  [P0.04-T4; refetchInterval]*)
ReceiptReachesTheEnd ==
  \A t \in Tabs, e \in Entries :
    Showing(t) /\ entry[e] = "uploaded" ~> ~Showing(t) \/ seen[t][e] \in {"ready", "failed", "canceled"}

(* Uploads never outlive the account: no photo is on its way from a tab its  *)
(* member has left.                              [account-lifecycle, reset]  *)
UploadsEndWithAccount == \A r \in Runs : run[r].at \in Sending => user[run[r].tab] = "member"

(* Stored objects are immutable: what was accepted is what stays.            *)
(*                                       [svc_complete_upload_entry; README] *)
AcceptedFileStands == \A e \in Entries : accepted[e] # 0 => object[e] = accepted[e]
=============================================================================

---------------------------- MODULE MCRequestsEnd ---------------------------
(* What a member asked for and must get: deletions (MediaDeletion: of what a *)
(* worker makes, or of an upload with its recheck), photos on their way      *)
(* (UploadClient) and accounts given up (Membership).  A behaviour is one of *)
(* the part chosen at its start, with that part's fairness; the others stay  *)
(* as they began, and owe nothing.                                           *)
EXTENDS MediaDeletion

CONSTANTS key, r1, solo, one, two, NoUser

VARIABLES part,
  entry, object, accepted, user, leaving, upload, sending, begun, seen, picking, cancel,
  failures, signouts,
  member, rows, invite, challenge, pending, tab, removing, acted, signIns, losses

Both == {one, two}
Deleting == part \in {"outputs", "uploads"}

(* Here the one key is an output's, in Uploads it is an upload's.            *)
Uploads == INSTANCE MediaDeletion WITH RawKeys <- {key}, OutKeys <- {}

Client == INSTANCE UploadClient WITH
  Tabs <- {solo}, Entries <- Both, Runs <- Both, MaxConcurrent <- 1, MaxFiles <- 1,
  MaxFaults <- 0, MaxSignOuts <- 0, task <- upload, run <- sending, faults <- failures
Accounts == INSTANCE Membership WITH
  Users <- Both, Tabs <- {solo}, Codes <- {1}, Founder <- one, Admitted <- {},
  MaxSignIns <- 3, MaxChallenges <- 1, MaxFaults <- 1, faults <- losses

clientVars == <<entry, object, accepted, user, leaving, upload, sending, begun, seen, picking,
                cancel, failures, signouts>>
accountVars == <<member, rows, invite, challenge, pending, tab, removing, acted, signIns, losses>>

EndInit ==
  /\ part \in {"outputs", "uploads", "client", "accounts"}
  /\ IF part = "uploads" THEN Uploads!Init ELSE Init
  /\ Client!Init /\ Accounts!Init

EndNext ==
  /\ UNCHANGED part
  /\ \/ part = "outputs" /\ Next /\ UNCHANGED <<clientVars, accountVars>>
     \/ part = "uploads" /\ Uploads!Next /\ UNCHANGED <<clientVars, accountVars>>
     \/ part = "client" /\ Client!Next /\ UNCHANGED <<vars, accountVars>>
     \/ part = "accounts" /\ Accounts!Next /\ UNCHANGED <<vars, clientVars>>

(* Each part's own fairness, owed only by a behaviour of that part.          *)
DeletionFairness ==
  /\ WF_vars(IF part = "uploads" THEN Uploads!TimePasses ELSE part = "outputs" /\ TimePasses)
  /\ WF_vars(part = "outputs" /\ WorkEnds)
  /\ WF_vars(part = "uploads" /\ Uploads!ShutWindow(key))
  /\ WF_vars(Deleting /\ ProcessMediaDeletion(r1))
  /\ WF_vars(Deleting /\ ReconcileOrphans)
  /\ WF_vars(Deleting /\ ProcessAccountDeletions)
ClientFairness ==
  /\ \A r \in Both : WF_clientVars(part = "client" /\ Client!RunStep(r))
  /\ WF_clientVars(part = "client" /\ \E e \in Both : Client!Validated(e))
  /\ WF_clientVars(part = "client" /\ Client!Poll(solo))
  /\ WF_clientVars(part = "client" /\ \E e \in Both : Client!CancelStep(solo, e))
AccountFairness ==
  \A u \in Both :
    /\ WF_accountVars(part = "accounts" /\ Accounts!Reclaim(u))
    /\ WF_accountVars(part = "accounts" /\ Accounts!RemoveUser(u))

EndSpec ==
  /\ EndInit /\ [][EndNext]_<<part, vars, clientVars, accountVars>>
  /\ DeletionFairness /\ ClientFairness /\ AccountFairness

(* Deletions end although runs die and storage fails: tasks, accounts, and   *)
(* the objects that nothing shows.                                           *)
(*   [svc_claim_deletion_tasks, processAccountDeletions, reconcileOrphans,   *)
(*    pendingAccountCleanup]                                                 *)
DeletionsEnd ==
  /\ Deleting => TasksFinish /\ AccountDeletionCompletes /\ OrphansSwept
  /\ part = "accounts" => Accounts!DeletingEnds

(* No photo of a tab waits for ever behind others, and a receipt that shows  *)
(* a photo being checked shows what became of it.                            *)
(*                                              [pump, run, refetchInterval] *)
UploadsMoveOn ==
  part = "client" => Client!QueuedPhotosStart /\ Client!ReceiptFollowsChecks
=============================================================================

----------------------------- MODULE MCBrowser ------------------------------
(* What goes on in a member's browser around the server: confirmations and   *)
(* admissions over several tabs (Membership), gathering photos into a batch  *)
(* (GatherPhotos, to gather and to add a label) and sending them             *)
(* (UploadClient: two photos, or one and a sign-out).  A behaviour is one of *)
(* the part chosen at its start; the others stay as they began.  The types   *)
(* of the last two are checked with their safety properties.                 *)
EXTENDS Membership, TLC

CONSTANTS u1, u2, u3, c1, c2, solo, one, two

(* A photo's id is not the mark of having no garment.                        *)
ASSUME BrowserAssumption == "none" \notin {one, two}

VARIABLES part,
  entry, object, accepted, user, leaving, task, run, begun, seen, picking, cancel, failures,
  signOuts,
  selected, unusable, kind, labelFor, request, create, keys, batch, refused, started, losses

Both == {one, two}
Alike == Permutations(Both)

Admissions == INSTANCE Membership WITH
  Users <- {u1, u2, u3}, Tabs <- Both, Codes <- {c1, c2}, Founder <- u1, Admitted <- {},
  MaxSignIns <- 4, MaxChallenges <- 0, MaxFaults <- 1
(* The constants of a part with photos are given together, by part.          *)
Sends(c) == INSTANCE UploadClient WITH
  Tabs <- c.tabs, Entries <- c.entries, Runs <- Both, MaxConcurrent <- c.concurrent,
  MaxFiles <- c.files, MaxFaults <- c.faults, MaxSignOuts <- c.signouts,
  faults <- failures, signouts <- signOuts
Client == [tabs |-> {solo}, entries |-> Both, concurrent |-> 1, files |-> 1, faults |-> 1,
           signouts |-> 0]
Session == [tabs |-> {solo}, entries |-> {solo}, concurrent |-> 1, files |-> 1, faults |-> 1,
            signouts |-> 1]
Gathering(g) == INSTANCE GatherPhotos WITH
  Photos <- Both, Mode <- g.mode, MaxFiles <- g.files, MaxKeys <- g.keys, MaxFaults <- g.faults,
  faults <- losses
Gather == [mode |-> "gather", files |-> 2, keys |-> 4, faults |-> 2]
Label == [mode |-> "label", files |-> 1, keys |-> 3, faults |-> 1]

clientVars == <<entry, object, accepted, user, leaving, task, run, begun, seen, picking, cancel,
                failures, signOuts>>
gatherVars == <<selected, unusable, kind, labelFor, request, create, keys, batch, refused, started,
                losses>>

BrowserInit ==
  /\ part \in {"confirmations", "admissions", "client", "session", "gather", "label"}
  /\ IF part = "admissions" THEN Admissions!Init ELSE Init
  /\ IF part = "session" THEN Sends(Session)!Init ELSE Sends(Client)!Init
  /\ IF part = "label" THEN Gathering(Label)!Init ELSE Gathering(Gather)!Init

BrowserNext ==
  /\ UNCHANGED part
  /\ \/ /\ \/ part = "confirmations" /\ Next
           \/ part = "admissions" /\ Admissions!Next
        /\ UNCHANGED <<clientVars, gatherVars>>
     \/ /\ \/ part = "client" /\ Sends(Client)!Next
           \/ part = "session" /\ Sends(Session)!Next
        /\ UNCHANGED <<vars, gatherVars>>
     \/ /\ \/ part = "gather" /\ Gathering(Gather)!Next
           \/ part = "label" /\ Gathering(Label)!Next
        /\ UNCHANGED <<vars, clientVars>>

BrowserSpec == BrowserInit /\ [][BrowserNext]_<<part, vars, clientVars, gatherVars>>

(* A tab sends no more photos at once than it may, calls a photo sent only   *)
(* when the server has it, and asks to be kept open while one is on its way. *)
(*                                             [pump, run, UploadReceipt]    *)
Truthful(c) == Sends(c)!TypeOK /\ Sends(c)!DoneMeansAccepted /\ Sends(c)!KeepOpenShown
PhotosOnTheirWay ==
  /\ part = "client" => Truthful(Client) /\ Sends(Client)!TransfersBounded
  /\ part = "session" => Truthful(Session)

(* What is gathered is accepted, once: no request is refused for how photos  *)
(* were marked, and neither a resend nor a second press makes a photo two.   *)
(*                       [start, request.current, svc_create_upload_batch]   *)
Gathered(g) ==
  /\ Gathering(g)!TypeOK
  /\ Gathering(g)!NeverRefused /\ Gathering(g)!NoSecondBatch /\ Gathering(g)!PhotoSentOnce
GatheredOnce ==
  /\ part = "gather" => Gathered(Gather)
  /\ part = "label" => Gathered(Label)
=============================================================================

--------------------------- MODULE GroupedPhotos ---------------------------
(***************************************************************************)
(* One grouped photo: the split page on which the member keeps it as one   *)
(* set or marks its pieces, the request that creates those pieces once,    *)
(* the crop job that gives each piece its own original, and the shared     *)
(* source that stays temporary and is given up when nobody needs it.       *)
(***************************************************************************)
EXTENDS Integers, FiniteSets

CONSTANTS
  Tabs,         \* open split pages of the photo (a reload is one more)
  Regions,      \* the places of the photo a rectangle may mark
  Proposed,     \* those the worker proposed
  Window,       \* upload_limits.temporary_asset_hours, in ticks
  MaxAttempts,  \* job_limits.max_attempts
  MaxRetries,   \* manual retries of a stage
  MaxSubmits,   \* bound: presses of the button, over all pages
  MaxFaults     \* bound: answers lost and requests given up

ASSUME GroupedPhotosAssumption ==
  /\ Proposed \subseteq Regions
  /\ Window \in Nat \ {0} /\ MaxAttempts \in Nat \ {0}
  /\ MaxRetries \in Nat /\ MaxSubmits \in Nat /\ MaxFaults \in Nat

VARIABLES
  now,     \* the clock
  entry,   \* upload_entries: state, split.mode, split.parts
  source,  \* the shared asset: state, expires_at, and whether its bytes exist
  piece,   \* items, per part: lifecycle and whether an original is attached
  crop,    \* the crop job of each piece
  workers, \* crops being made: part, lease generation, source read or not
  receipt, \* private.requests: what a key confirmed
  net,     \* confirm requests that have not reached the database
  page,    \* per tab: the form, its request, what was last answered
  faults, submits

vars == <<now, entry, source, piece, crop, workers, receipt, net, page, faults, submits>>

(* A draft's id is made by the page that shows it; the kept set has no id. *)
Set == <<"set", "set">>
Slots == {Set} \cup (Tabs \X Regions)
Horizon == 2 * Window
Keys == 1..MaxSubmits
None == [mode |-> "none", parts |-> {}]
Bodies == [mode : {"none", "keep_one", "split"}, parts : SUBSET Slots]
Refusals == {"PARTS_NOT_AVAILABLE", "ALREADY_CONFIRMED", "SOURCE_EXPIRED"}

Init ==
  /\ now = 0
  /\ entry = [state |-> "ready", mode |-> "none", parts |-> {}]
  /\ source = [state |-> "ready", expires |-> Window, stored |-> TRUE]
  /\ piece = [s \in Slots |-> [life |-> "none", original |-> FALSE]]
  /\ crop = [s \in Slots |-> [state |-> "none", gen |-> 0, attempts |-> 0, manual |-> 0]]
  /\ workers = {} /\ net = {} /\ faults = 0 /\ submits = 0
  /\ receipt = [k \in Keys |-> None]
  /\ page = [t \in Tabs |-> [open |-> TRUE, waiting |-> TRUE, mode |-> "none", drafts |-> Proposed,
                             key |-> 0, body |-> None, keys |-> {}, changed |-> FALSE,
                             pending |-> 0, told |-> "none"]]

-----------------------------------------------------------------------------
(* The split page. "waiting" is what its last read of the entry said,     *)
(* "keys" the keys it has sent, "changed" whether it sent two choices.     *)

SetPage(t, p) == page' = [page EXCEPT ![t] = p]
FormShown(t) == page[t].open /\ page[t].waiting
Server == <<now, entry, source, piece, crop, workers, receipt>>

Choose(t, m) ==
  /\ FormShown(t) /\ page[t].mode # m
  /\ SetPage(t, [page[t] EXCEPT !.mode = m])
  /\ UNCHANGED <<Server, net, faults, submits>>

(* Removing a rectangle, or adding one: the draft is kept from then on. *)
EditDrafts(t, r) ==
  /\ FormShown(t) /\ page[t].mode = "split"
  /\ SetPage(t, [page[t] EXCEPT !.drafts =
       IF r \in page[t].drafts THEN @ \ {r} ELSE @ \cup {r}])
  /\ UNCHANGED <<Server, net, faults, submits>>

BodyOf(t) ==
  [mode |-> page[t].mode,
   parts |-> IF page[t].mode = "keep_one" THEN {Set} ELSE {t} \X page[t].drafts]

(* A resend of the same body keeps its key. *)
KeyFor(t, body) == IF page[t].key # 0 /\ page[t].body = body THEN page[t].key ELSE submits + 1

Submit(t) ==
  LET body == BodyOf(t)
      key == KeyFor(t, body)
  IN /\ FormShown(t) /\ page[t].pending = 0 /\ page[t].mode # "none"
     /\ body.parts # {}
     /\ submits < MaxSubmits
     /\ submits' = submits + 1
     /\ net' = net \cup {[tab |-> t, key |-> key, body |-> body, serial |-> submits + 1]}
     /\ SetPage(t, [page[t] EXCEPT !.key = key, !.body = body, !.pending = submits + 1, !.told = "none",
                                   !.keys = @ \cup {key}, !.changed = @ \/ (page[t].key # 0 /\ page[t].body # body)])
     /\ UNCHANGED <<Server, faults>>

(* The connection fails before an answer; the request may arrive later. *)
GiveUp(t) ==
  /\ page[t].pending # 0 /\ faults < MaxFaults
  /\ faults' = faults + 1
  /\ SetPage(t, [page[t] EXCEPT !.pending = 0, !.told = "unreachable"])
  /\ \/ UNCHANGED net
     \/ net' = {r \in net : r.serial # page[t].pending}
  /\ UNCHANGED <<Server, submits>>

Leave(t) ==
  /\ page[t].open
  /\ SetPage(t, [page[t] EXCEPT !.open = FALSE])
  /\ UNCHANGED <<Server, net, faults, submits>>

Refetch(t) ==
  /\ page[t].open
  /\ page[t].waiting # (entry.state = "ready" /\ entry.mode = "none")
  /\ SetPage(t, [page[t] EXCEPT !.waiting = ~@])
  /\ UNCHANGED <<Server, net, faults, submits>>

Answered(r, told) ==
  IF page[r.tab].pending # r.serial THEN page
  ELSE [page EXCEPT ![r.tab].pending = 0, ![r.tab].told = told,
                    ![r.tab].open = IF told = "added" THEN FALSE ELSE @]

-----------------------------------------------------------------------------
(* svc_confirm_parts *)

Confirmed == entry.mode # "none"

RefusalOf(body) ==
  IF entry.state # "ready" THEN "PARTS_NOT_AVAILABLE"
  ELSE IF Confirmed THEN "ALREADY_CONFIRMED"
  ELSE IF source.state # "ready" \/ source.expires <= now THEN "SOURCE_EXPIRED"
  ELSE "none"

LaterOf(a, b) == IF a >= b THEN a ELSE b

Extended == LaterOf(source.expires, now + Window)

(* Every part gets its piece and its crop job, in one step. *)
Create(body) ==
  /\ piece' = [s \in Slots |-> IF s \in body.parts THEN [life |-> "active", original |-> FALSE] ELSE piece[s]]
  /\ crop' = [s \in Slots |-> IF s \in body.parts THEN [crop[s] EXCEPT !.state = "queued"] ELSE crop[s]]
  /\ entry' = [entry EXCEPT !.mode = body.mode, !.parts = body.parts]
  /\ source' = [source EXCEPT !.expires = Extended]

ConfirmParts(r) ==
  LET known == receipt[r.key] = r.body
      refusal == RefusalOf(r.body)
      told == IF known \/ refusal = "none" THEN "added" ELSE refusal
  IN /\ r \in net
     /\ net' = net \ {r}
     /\ IF known \/ refusal # "none"
        THEN UNCHANGED <<entry, source, piece, crop, receipt>>
        ELSE Create(r.body) /\ receipt' = [receipt EXCEPT ![r.key] = r.body]
     /\ \/ /\ page' = Answered(r, told)
           /\ UNCHANGED faults
        \/ /\ page[r.tab].pending = r.serial /\ faults < MaxFaults
           /\ page' = Answered(r, "unreachable")
           /\ faults' = faults + 1
     /\ UNCHANGED <<now, workers, submits>>

-----------------------------------------------------------------------------
(* Giving the shared source up *)

Surviving(pieces) == {s \in DOMAIN pieces : pieces[s].life = "active"}

(* release_group_source, after the pieces became "pieces". *)
ReleasableEarly(pieces) == Confirmed /\ \E s \in Surviving(pieces) : pieces[s].original
Releasable(pieces) == Confirmed /\ \A s \in Surviving(pieces) : pieces[s].original

DeleteAsset == [source EXCEPT !.state = "deletion_pending"]

Release(pieces) == source' = IF Releasable(pieces) THEN DeleteAsset ELSE source

(* svc_expire_group_sources *)
ExpireUnconfirmed ==
  /\ entry.state = "ready" /\ ~Confirmed /\ source.state = "ready" /\ source.expires <= now
  /\ entry' = [entry EXCEPT !.state = "canceled"]
  /\ source' = DeleteAsset
  /\ UNCHANGED <<now, piece, crop, workers, receipt, net, page, faults, submits>>

ExpireSource ==
  /\ entry.state = "ready" /\ source.state = "ready" /\ source.expires <= now
  /\ entry' = IF Confirmed THEN entry ELSE [entry EXCEPT !.state = "canceled"]
  /\ source' = DeleteAsset
  /\ UNCHANGED <<now, piece, crop, workers, receipt, net, page, faults, submits>>

(* svc_cancel_upload_entry, of a group awaiting its choice *)
CancelEntry ==
  /\ entry.state = "ready" /\ ~Confirmed
  /\ entry' = [entry EXCEPT !.state = "canceled"]
  /\ source' = DeleteAsset
  /\ UNCHANGED <<now, piece, crop, workers, receipt, net, page, faults, submits>>

(* The deletion worker removes the object it was given. *)
RemoveObject ==
  /\ source.state = "deletion_pending" /\ source.stored
  /\ source' = [source EXCEPT !.stored = FALSE]
  /\ UNCHANGED <<now, entry, piece, crop, workers, receipt, net, page, faults, submits>>

-----------------------------------------------------------------------------
(* Crop jobs *)

SetCrop(s, j) == crop' = [crop EXCEPT ![s] = j]
Idle == <<now, entry, receipt, net, page, faults, submits>>

(* claim_item_stage: only a ready source can be cropped. *)
ClaimCrop(s) ==
  /\ crop[s].state = "queued" /\ crop[s].attempts < MaxAttempts
  /\ IF source.state = "ready"
     THEN /\ SetCrop(s, [crop[s] EXCEPT !.state = "running", !.gen = @ + 1, !.attempts = @ + 1])
          /\ workers' = workers \cup {[slot |-> s, gen |-> crop[s].gen + 1, read |-> FALSE]}
     ELSE /\ SetCrop(s, [crop[s] EXCEPT !.state = "failed"])
          /\ UNCHANGED workers
  /\ UNCHANGED <<Idle, source, piece>>

Fetch(w) ==
  /\ w \in workers /\ ~w.read /\ source.stored
  /\ workers' = (workers \ {w}) \cup {[w EXCEPT !.read = TRUE]}
  /\ UNCHANGED <<Idle, source, piece, crop>>

Leased(w) == crop[w.slot].state = "running" /\ crop[w.slot].gen = w.gen

(* svc_complete_item_stage of a crop; a stale completion changes nothing. *)
CompleteCrop(w) ==
  /\ w \in workers /\ w.read
  /\ workers' = workers \ {w}
  /\ IF Leased(w)
     THEN LET pieces == [piece EXCEPT ![w.slot].original = TRUE]
          IN /\ piece' = pieces
             /\ SetCrop(w.slot, [crop[w.slot] EXCEPT !.state = "succeeded"])
             /\ Release(pieces)
     ELSE UNCHANGED <<piece, crop, source>>
  /\ UNCHANGED Idle

(* The crop cannot be made, or the source was gone before it was read. *)
RejectCrop(w) ==
  /\ w \in workers /\ (w.read \/ ~source.stored)
  /\ workers' = workers \ {w}
  /\ IF Leased(w) THEN SetCrop(w.slot, [crop[w.slot] EXCEPT !.state = "failed"]) ELSE UNCHANGED crop
  /\ UNCHANGED <<Idle, source, piece>>

(* The lease lapses: another attempt, or the attempts are spent. The worker *)
(* may still be at work and answer late.                                    *)
AfterLapse(s) == IF crop[s].attempts < MaxAttempts THEN "queued" ELSE "failed"

LapseCrop(s) ==
  /\ crop[s].state = "running"
  /\ SetCrop(s, [crop[s] EXCEPT !.state = AfterLapse(s)])
  /\ UNCHANGED <<Idle, source, piece, workers>>

(* svc_retry_item_stage *)
RetryCrop(s) ==
  /\ crop[s].state = "failed" /\ piece[s].life = "active" /\ crop[s].manual < MaxRetries
  /\ SetCrop(s, [crop[s] EXCEPT !.state = "queued", !.attempts = 0, !.manual = @ + 1])
  /\ UNCHANGED <<Idle, source, piece, workers>>

(* discard_item: the piece's jobs are fenced, its images given up. *)
Unfenced(s) == crop[s]
Fenced(s) ==
  IF crop[s].state \in {"queued", "running"} THEN [crop[s] EXCEPT !.state = "canceled"] ELSE crop[s]

DeletePiece(s) ==
  /\ piece[s].life = "active"
  /\ LET pieces == [piece EXCEPT ![s] = [life |-> "deleted", original |-> FALSE]]
     IN piece' = pieces /\ Release(pieces)
  /\ SetCrop(s, Fenced(s))
  /\ UNCHANGED <<Idle, workers>>

Tick ==
  /\ now < Horizon
  /\ now' = now + 1
  /\ UNCHANGED <<entry, source, piece, crop, workers, receipt, net, page, faults, submits>>

-----------------------------------------------------------------------------
PageStep(t) ==
  \/ \E m \in {"keep_one", "split"} : Choose(t, m)
  \/ \E r \in Regions : EditDrafts(t, r)
  \/ Submit(t)
  \/ GiveUp(t)
  \/ Leave(t)
  \/ Refetch(t)

Work ==
  \/ \E s \in Slots : ClaimCrop(s)
  \/ \E w \in workers : Fetch(w) \/ CompleteCrop(w) \/ RejectCrop(w)

Next ==
  \/ \E t \in Tabs : PageStep(t)
  \/ \E r \in net : ConfirmParts(r)
  \/ Work
  \/ \E s \in Slots : LapseCrop(s) \/ RetryCrop(s) \/ DeletePiece(s)
  \/ ExpireSource \/ CancelEntry \/ RemoveObject \/ Tick

Spec == Init /\ [][Next]_vars

(* Time passes, the dispatcher has every queued crop claimed, every lease  *)
(* ends, and the scheduled cleanup keeps running.                          *)
Fairness ==
  /\ WF_vars(Tick)
  /\ WF_vars(Work)
  /\ WF_vars(\E s \in Slots : LapseCrop(s))
  /\ WF_vars(ExpireSource)
  /\ WF_vars(RemoveObject)

FairSpec == Spec /\ Fairness

-----------------------------------------------------------------------------
TypeOK ==
  /\ now \in 0..Horizon
  /\ entry \in [state : {"ready", "canceled"}, mode : {"none", "keep_one", "split"}, parts : SUBSET Slots]
  /\ source \in [state : {"ready", "deletion_pending"}, expires : 0..Horizon, stored : BOOLEAN]
  /\ piece \in [Slots -> [life : {"none", "active", "deleted"}, original : BOOLEAN]]
  /\ crop \in [Slots -> [state : {"none", "queued", "running", "succeeded", "failed", "canceled"},
                         gen : Nat, attempts : 0..MaxAttempts, manual : 0..MaxRetries]]
  /\ workers \subseteq [slot : Slots, gen : Nat, read : BOOLEAN]
  /\ receipt \in [Keys -> Bodies]
  /\ net \subseteq [tab : Tabs, key : Keys, body : Bodies, serial : Keys]
  /\ page \in [Tabs -> [open : BOOLEAN, waiting : BOOLEAN, mode : {"none", "keep_one", "split"},
                        drafts : SUBSET Regions, key : 0..MaxSubmits, body : Bodies,
                        keys : SUBSET Keys, changed : BOOLEAN, pending : 0..MaxSubmits,
                        told : {"none", "added", "unreachable"} \cup Refusals]]
  /\ faults \in 0..MaxFaults /\ submits \in 0..MaxSubmits

(* The pieces made from a group photo are those of one confirmation: two   *)
(* pages, each with rectangles and ids of its own, resends and late        *)
(* arrivals never add a second lot.                                        *)
OneConfirmation == {s \in DOMAIN piece : piece[s].life # "none"} = entry.parts

(* A page that keeps sending one choice is told that the pieces were       *)
(* already added only when another page added them: the resend of a        *)
(* request whose answer was lost is answered as the first would have been. *)
AddedIsNotRefused ==
  \A t \in DOMAIN page : page[t].told = "ALREADY_CONFIRMED" /\ ~page[t].changed =>
    \A k \in page[t].keys : receipt[k] = None

(* A source nobody needs is not kept for the rest of its window, whichever *)
(* of the last crop and the last deletion comes last.                      *)
NotKeptWithoutNeed ==
  Confirmed /\ (\A s \in Surviving(piece) : piece[s].original) => source.state # "ready"

(* No crop, however late its worker answers, gives a deleted piece a photo *)
(* again, and no job of it is left to run.                                 *)
DeletedStayEmpty ==
  \A s \in DOMAIN piece :
    piece[s].life = "deleted" => ~piece[s].original /\ crop[s].state \notin {"queued", "running"}

(* A group photo's pieces are those of one confirmation, whose resend is   *)
(* answered as the first; no late crop gives a deleted piece a photo, and  *)
(* the shared photo is not kept once no piece needs it.                    *)
(*                            [svc_confirm_parts, svc_complete_item_stage] *)
ConfirmedOnce == OneConfirmation /\ AddedIsNotRefused /\ DeletedStayEmpty /\ NotKeptWithoutNeed

(* The shared source is given up only once its window has ended, its       *)
(* unconfirmed entry is canceled, or every surviving piece has an original *)
(* of its own.            [svc_complete_item_stage, svc_expire_group_sources] *)
SourceAsNeeded ==
  [][source.state = "ready" /\ source'.state # "ready" =>
       \/ source.expires <= now
       \/ entry'.state = "canceled"
       \/ \A s \in Surviving(piece') : piece'[s].original]_vars

(* Every confirmed piece settles: it has its original, its crop has        *)
(* failed, or it was deleted.                                              *)
PiecesSettle ==
  \A s \in Slots : piece[s].life = "active" ~>
    (piece[s].original \/ crop[s].state = "failed" \/ piece[s].life = "deleted")

(* The shared photo is temporary: its bytes are gone in the end, whatever  *)
(* the member does with it.                                                *)
SourceIsTemporary == <>(~source.stored)

(* What the comment of svc_confirm_parts says: the source outlives its     *)
(* crop jobs.                                                              *)
SourceOutlivesCrops ==
  \A s \in Slots : crop[s].state \in {"queued", "running"} => source.state = "ready"
=============================================================================

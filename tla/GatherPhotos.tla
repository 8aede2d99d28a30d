---------------------------- MODULE GatherPhotos ----------------------------
(***************************************************************************)
(* The Gather screen: photos are chosen, marked as a piece, a group or a   *)
(* care label of another chosen photo, and uploaded as one batch.  The     *)
(* request for the batch carries an idempotency key that is kept for as    *)
(* long as the same photos are described in the same way.  Everything but  *)
(* the Upload button stays usable while the request is under way.          *)
(***************************************************************************)
EXTENDS Integers, FiniteSets

CONSTANTS
  Photos,    \* client_file_id
  Mode,      \* opened to gather, to add a label to a piece, or to replace its photo
  MaxFiles,  \* upload_limits.max_files_per_batch
  MaxKeys,   \* bound of the model: idempotency keys made
  MaxFaults  \* bound of the model: requests lost on the way

VARIABLES
  selected,  \* photos listed
  unusable,  \* those with a problem (format or size)
  kind, labelFor,
  request,   \* request.current: key and description, key 0 if none
  create,    \* the mutation: idle, sent, or answered
  keys,      \* keys made so far
  batch,     \* server: upload_batches by the key that made them
  refused,   \* server: a request failed validation
  started,   \* per photo, the batches it was handed to the upload manager for
  faults

vars == <<selected, unusable, kind, labelFor, request, create, keys, batch, refused, started, faults>>

None == "none"
Kinds == {"garment", "group", "label"}
Purposes == {"garment", "grouped", "care_label", "replacement"}
Files == [photo : Photos, purpose : Purposes, label_for : Photos \cup {None}, target : BOOLEAN]
Limit == IF Mode = "replace" THEN 1 ELSE MaxFiles
Targeted == Mode # "gather"
Usable == selected \ unusable
Garments == {p \in Usable : kind[p] = "garment"}

TypeOK ==
  /\ unusable \subseteq selected /\ selected \subseteq Photos
  /\ kind \in [Photos -> Kinds] /\ labelFor \in [Photos -> Photos \cup {None}]
  /\ \A p \in Photos : labelFor[p] # None => p \in Usable /\ labelFor[p] \in Garments
  /\ request.key \in 0..MaxKeys /\ request.files \in SUBSET Files
  /\ create.at \in {"idle", "sent", "created", "error"} /\ create.key \in 0..MaxKeys
  /\ create.files \subseteq Files
  /\ keys \in 0..MaxKeys
  /\ \A k \in 1..MaxKeys : batch[k] \subseteq Files
  /\ refused \in BOOLEAN
  /\ started \in [Photos -> SUBSET (1..MaxKeys)]
  /\ faults \in 0..MaxFaults

Init ==
  /\ selected = {} /\ unusable = {}
  /\ kind = [p \in Photos |-> "garment"] /\ labelFor = [p \in Photos |-> None]
  /\ request = [key |-> 0, files |-> {}]
  /\ create = [at |-> "idle", key |-> 0, files |-> {}]
  /\ keys = 0 /\ batch = [k \in 1..MaxKeys |-> {}]
  /\ refused = FALSE /\ started = [p \in Photos |-> {}]
  /\ faults = 0

-----------------------------------------------------------------------------
(* The list: add, mark, assign, remove.  A chosen photo has an id of its own.*)
Fresh(p) ==
  \A f \in request.files \cup create.files \cup UNION {batch[k] : k \in 1..MaxKeys} : f.photo # p
Add(p) ==
  /\ p \notin selected /\ Fresh(p) /\ Cardinality(selected) < Limit
  /\ selected' = selected \cup {p}
  /\ \E problem \in BOOLEAN : unusable' = IF problem THEN unusable \cup {p} ELSE unusable
  /\ kind' = [kind EXCEPT ![p] = IF Mode = "label" THEN "label" ELSE "garment"]
  /\ UNCHANGED <<labelFor, request, create, keys, batch, refused, started, faults>>

Unlabeled(K) == [p \in Photos |-> IF labelFor[p] \in K THEN None ELSE labelFor[p]]

(* Only a single-piece photo can hold care labels.                           *)
SetKind(p, k) ==
  /\ p \in Usable /\ ~Targeted
  /\ kind' = [kind EXCEPT ![p] = k]
  /\ labelFor' = [(IF k = "garment" THEN labelFor ELSE Unlabeled({p})) EXCEPT ![p] = None]
  /\ UNCHANGED <<selected, unusable, request, create, keys, batch, refused, started, faults>>

SetLabelFor(p, g) ==
  /\ p \in Usable /\ ~Targeted /\ kind[p] = "label" /\ g \in Garments \ {p}
  /\ labelFor' = [labelFor EXCEPT ![p] = g]
  /\ UNCHANGED <<selected, unusable, kind, request, create, keys, batch, refused, started, faults>>

(* A label whose garment is removed needs its garment chosen again.          *)
Remove(p) ==
  /\ p \in selected
  /\ selected' = selected \ {p} /\ unusable' = unusable \ {p}
  /\ labelFor' = [Unlabeled({p}) EXCEPT ![p] = None]
  /\ UNCHANGED <<kind, request, create, keys, batch, refused, started, faults>>

-----------------------------------------------------------------------------
(* Upload: every care label must have its garment; the key is kept when the  *)
(* same files are sent again.                                                *)
Unassigned == IF Targeted THEN {} ELSE {p \in Usable : kind[p] = "label" /\ labelFor[p] \notin Garments}
Purpose(p) ==
  IF Mode = "replace" THEN "replacement"
  ELSE CASE kind[p] = "label" -> "care_label" [] kind[p] = "group" -> "grouped" [] OTHER -> "garment"
Described(p) ==
  [photo |-> p, purpose |-> Purpose(p), target |-> Targeted,
   label_for |-> IF kind[p] = "label" /\ ~Targeted THEN labelFor[p] ELSE None]
KeepsNoKey(files) == FALSE
KeepsKey(files) == request.key # 0 /\ request.files = files
Start ==
  LET files == {Described(p) : p \in Usable}
      key   == IF KeepsKey(files) THEN request.key ELSE keys + 1 IN
  /\ create.at = "idle" /\ Usable # {} /\ Unassigned = {}
  /\ key <= MaxKeys
  /\ keys' = IF key > keys THEN key ELSE keys
  /\ request' = [key |-> key, files |-> files]
  /\ create' = [at |-> "sent", key |-> key, files |-> files]
  /\ UNCHANGED <<selected, unusable, kind, labelFor, batch, refused, started, faults>>

(* svc_create_upload_batch: what it accepts, and what a repeated key gets.   *)
Acceptable(files) ==
  /\ files # {} /\ Cardinality(files) <= MaxFiles
  /\ \A f \in files :
       CASE f.purpose = "care_label" ->
              /\ (f.label_for # None) # f.target
              /\ f.label_for # None =>
                   \E g \in files : g.photo = f.label_for /\ g.purpose = "garment"
         [] f.purpose = "replacement" -> f.target /\ f.label_for = None
         [] OTHER -> f.label_for = None /\ ~f.target

HandleCreate ==
  LET k == create.key  files == create.files IN
  /\ create.at = "sent"
  /\ \/ /\ batch[k] = {} /\ Acceptable(files)
        /\ batch' = [batch EXCEPT ![k] = files]
        /\ \/ create' = [create EXCEPT !.at = "created"] /\ UNCHANGED faults
           \/ create' = [create EXCEPT !.at = "error"] /\ faults < MaxFaults /\ faults' = faults + 1
        /\ UNCHANGED refused
     \/ /\ batch[k] = files
        /\ create' = [create EXCEPT !.at = "created"]
        /\ UNCHANGED <<batch, refused, faults>>
     \/ /\ batch[k] # files /\ ~(batch[k] = {} /\ Acceptable(files))
        /\ create' = [create EXCEPT !.at = "error"] /\ refused' = TRUE
        /\ UNCHANGED <<batch, faults>>
     \/ /\ faults < MaxFaults /\ faults' = faults + 1
        /\ create' = [create EXCEPT !.at = "error"]
        /\ UNCHANGED <<batch, refused>>
  /\ UNCHANGED <<selected, unusable, kind, labelFor, request, keys, started>>

(* onSuccess sees the photos as they are listed now; the screen is left for  *)
(* the receipt, and the next visit starts with an empty list.                *)
ListAfter == {}
CreateAnswered ==
  /\ create.at \in {"created", "error"}
  /\ create' = [at |-> "idle", key |-> 0, files |-> {}]
  /\ IF create.at = "created"
     THEN /\ request' = [key |-> 0, files |-> {}]
          /\ started' = [p \in Photos |->
               IF p \in Usable /\ \E f \in create.files : f.photo = p
               THEN started[p] \cup {create.key} ELSE started[p]]
          /\ selected' = ListAfter /\ unusable' = unusable \cap ListAfter
          /\ labelFor' = [p \in Photos |-> IF p \in ListAfter THEN labelFor[p] ELSE None]
     ELSE UNCHANGED <<request, started, selected, unusable, labelFor>>
  /\ UNCHANGED <<kind, keys, batch, refused, faults>>

Next ==
  \/ \E p \in Photos :
       \/ Add(p) \/ Remove(p)
       \/ \E k \in Kinds : SetKind(p, k)
       \/ \E g \in Photos : SetLabelFor(p, g)
  \/ Start \/ HandleCreate \/ CreateAnswered

Spec == Init /\ [][Next]_vars

-----------------------------------------------------------------------------
(* Whatever was marked, assigned and removed, the server never refuses what  *)
(* the screen lets the member send.        [start, svc_create_upload_batch]  *)
NeverRefused == ~refused

(* A request that is sent again after its answer was lost makes no second    *)
(* batch: only files described otherwise in between may be sent anew.        *)
(*                                          [request.current, claim_request] *)
NoSecondBatch ==
  \A k \in 1..MaxKeys - 1 : batch[k] # {} => batch[k + 1] # batch[k]

(* No photo is handed to the upload manager for two batches, so none can     *)
(* become two pieces.                                        [create.isPending]*)
PhotoSentOnce == \A p \in Photos : Cardinality(started[p]) <= 1
=============================================================================

----------------------------- MODULE Duplicates -----------------------------
(***************************************************************************)
(* Photos whose sanitized bytes are those of a piece the member has: each  *)
(* is held for a decision before it becomes a second piece, its care label *)
(* follows it or the piece chosen instead, and the question may be         *)
(* answered from several pages. The photos of this module all have the     *)
(* same bytes. Transactions read before they commit; what the code locks   *)
(* in between cannot change, and what it only reads can.                   *)
(***************************************************************************)
EXTENDS Integers, FiniteSets

CONSTANTS
  Photos,      \* garment uploads with the same bytes
  Labelled,    \* those of Photos with a care label in their batch
  Owned,       \* pieces with these bytes from before, none of Photos
  Tabs,        \* pages that show the question
  Nobody,      \* no piece: neither of Photos nor of Owned
  MaxSubmits,  \* bound: decisions sent, over all pages
  MaxFaults    \* bound: answers lost

VARIABLES
  photo,    \* upload_entries and asset: validating, ready, discarded
  piece,    \* items: lifecycle of the owned pieces and of each photo's
  review,   \* duplicate_reviews of each photo: state and existing piece
  label,    \* each photo's label: its entry, and the piece it is attached to
  reading,  \* validations that have read and not committed
  deciding, \* resolutions that have read and not committed
  receipt,  \* private.requests: the decision a key carried out
  net,      \* decisions sent that have not reached the database
  page,     \* per tab and photo
  submits, faults

vars == <<photo, piece, review, label, reading, deciding, receipt, net, page, submits, faults>>

Pieces == Owned \cup Photos
Keys == 1..MaxSubmits
Decisions == {"use_existing", "add_another"}
NoReview == [state |-> "none", existing |-> Nobody]

Init ==
  /\ photo = [p \in Photos |-> "validating"]
  /\ piece = [x \in Pieces |-> IF x \in Owned THEN "active" ELSE "none"]
  /\ review = [p \in Photos |-> NoReview]
  /\ label = [p \in Photos |-> [state |-> IF p \in Labelled THEN "validating" ELSE "none", on |-> Nobody]]
  /\ reading = {} /\ deciding = {} /\ net = {} /\ submits = 0 /\ faults = 0
  /\ receipt = [k \in Keys |-> "none"]
  /\ page = [t \in Tabs |-> [p \in Photos |->
               [later |-> FALSE, key |-> 0, decision |-> "none", keys |-> {}, wavered |-> FALSE,
                pending |-> 0, told |-> "none"]]]

Alive(x) == x # Nobody /\ piece[x] = "active"

(* hash_duplicate_of: a piece of the same bytes, the oldest there is. *)
Twins(p) == {x \in Pieces \ {p} : Alive(x)}
Oldest(S) ==
  IF S = {} THEN {Nobody} ELSE IF S \cap Owned # {} THEN S \cap Owned ELSE S

(* label_item: the piece of its garment, or the one chosen instead. *)
Home(p) ==
  IF Alive(p) THEN p
  ELSE IF review[p].state = "use_existing" /\ Alive(review[p].existing) THEN review[p].existing
  ELSE Nobody

Attachable(p) == label[p].state = "ready" /\ label[p].on = Nobody

(* A resolution holds the question, and with it the entry; a validation of *)
(* the garment and one of its label hold the garment's entry.              *)
Locked(p) == \E d \in deciding : d.request.photo = p
EntryLocked(p) == Locked(p) \/ \E r \in reading : r.photo = p

-----------------------------------------------------------------------------
(* svc_complete_validation: of a garment, and of its label *)

Rest == <<receipt, net, page, submits, faults>>

ReadGarment(p) ==
  /\ photo[p] = "validating" /\ ~EntryLocked(p)
  /\ \E twin \in Oldest(Twins(p)) :
       reading' = reading \cup {[kind |-> "garment", photo |-> p, found |-> twin, label |-> Attachable(p)]}
  /\ UNCHANGED <<photo, piece, review, label, deciding, Rest>>

(* create_gather_item: held when a twin was found, else a piece. *)
CommitGarment(r) ==
  LET p == r.photo
  IN /\ r \in reading /\ r.kind = "garment"
     /\ reading' = reading \ {r}
     /\ photo' = [photo EXCEPT ![p] = "ready"]
     /\ IF r.found # Nobody
        THEN /\ review' = [review EXCEPT ![p] = [state |-> "pending", existing |-> r.found]]
             /\ UNCHANGED <<piece, label>>
        ELSE /\ piece' = [piece EXCEPT ![p] = "active"]
             /\ label' = IF r.label /\ label[p].on = Nobody THEN [label EXCEPT ![p].on = p] ELSE label
             /\ UNCHANGED review
     /\ UNCHANGED <<deciding, Rest>>

ReadLabelUnlocked(p) ==
  /\ label[p].state = "validating" /\ ~\E r \in reading : r.photo = p /\ r.kind = "label"
  /\ reading' = reading \cup {[kind |-> "label", photo |-> p, found |-> Home(p), label |-> TRUE]}
  /\ UNCHANGED <<photo, piece, review, label, deciding, Rest>>
ReadLabel(p) ==
  /\ label[p].state = "validating" /\ ~EntryLocked(p)
  /\ reading' = reading \cup {[kind |-> "label", photo |-> p, found |-> Home(p), label |-> TRUE]}
  /\ UNCHANGED <<photo, piece, review, label, deciding, Rest>>

CommitLabel(r) ==
  /\ r \in reading /\ r.kind = "label"
  /\ reading' = reading \ {r}
  /\ label' = [label EXCEPT ![r.photo] = [state |-> "ready", on |-> r.found]]
  /\ UNCHANGED <<photo, piece, review, deciding, Rest>>

(* svc_expire_unattached_labels, its window over *)
ExpirableAnyReview(p) == Attachable(p)
Expirable(p) == Attachable(p) /\ review[p].state # "pending"

ExpireLabel(p) ==
  /\ Expirable(p)
  /\ label' = [label EXCEPT ![p].state = "canceled"]
  /\ UNCHANGED <<photo, piece, review, reading, deciding, Rest>>

(* svc_delete_item: the piece's labels are given up with it. *)
DeletePiece(x) ==
  /\ piece[x] = "active"
  /\ piece' = [piece EXCEPT ![x] = "deleted"]
  /\ label' = [p \in Photos |-> IF label[p].on = x THEN [state |-> "canceled", on |-> Nobody] ELSE label[p]]
  /\ UNCHANGED <<photo, review, reading, deciding, Rest>>

-----------------------------------------------------------------------------
(* DuplicateChoice *)

SetPage(t, p, new) == page' = [page EXCEPT ![t][p] = new]
Server == <<photo, piece, review, label, reading, deciding, receipt>>

DecideLater(t, p) ==
  /\ review[p].state # "none"
  /\ SetPage(t, p, [page[t][p] EXCEPT !.later = ~@])
  /\ UNCHANGED <<Server, net, submits, faults>>

KeyFor(c, d) == IF c.key # 0 /\ c.decision = d THEN c.key ELSE submits + 1

(* The page may still show a question that was answered elsewhere, and an  *)
(* existing piece that was removed.                                        *)
Resolve(t, p, d) ==
  LET c == page[t][p]
      key == KeyFor(c, d)
  IN /\ review[p].state # "none" /\ ~c.later /\ c.pending = 0
     /\ submits < MaxSubmits
     /\ submits' = submits + 1
     /\ net' = net \cup {[tab |-> t, photo |-> p, key |-> key, decision |-> d, serial |-> submits + 1]}
     /\ SetPage(t, p, [c EXCEPT !.key = key, !.decision = d, !.pending = submits + 1, !.told = "none",
                                !.keys = @ \cup {key}, !.wavered = @ \/ (c.key # 0 /\ c.decision # d)])
     /\ UNCHANGED <<Server, faults>>

Told(r, what) ==
  IF page[r.tab][r.photo].pending # r.serial THEN page
  ELSE [page EXCEPT ![r.tab][r.photo] = [@ EXCEPT !.pending = 0, !.told = what]]

Answer(r, what) ==
  \/ page' = Told(r, what) /\ UNCHANGED faults
  \/ /\ page[r.tab][r.photo].pending = r.serial /\ faults < MaxFaults
     /\ page' = Told(r, "unreachable") /\ faults' = faults + 1

-----------------------------------------------------------------------------
(* svc_resolve_duplicate *)

RefusalOf(p, d) ==
  IF review[p].state # "pending" THEN "ALREADY_DECIDED"
  ELSE IF d = "use_existing" /\ ~Alive(review[p].existing) THEN "EXISTING_REMOVED"
  ELSE "none"

Decide(r) ==
  LET known == receipt[r.key] = r.decision
      refusal == RefusalOf(r.photo, r.decision)
  IN /\ r \in net /\ ~Locked(r.photo)
     /\ net' = net \ {r}
     /\ IF known \/ refusal # "none"
        THEN Answer(r, IF known THEN "resolved" ELSE refusal) /\ UNCHANGED deciding
        ELSE /\ ~EntryLocked(r.photo)
             /\ deciding' = deciding \cup {[request |-> r, label |-> Attachable(r.photo)]}
             /\ UNCHANGED <<page, faults>>
     /\ UNCHANGED <<photo, piece, review, label, reading, receipt, submits>>

Creates(p) == piece[p] = "none"

CommitDecision(d) ==
  LET r == d.request
      p == r.photo
      kept == IF r.decision = "use_existing" THEN review[p].existing ELSE p
  IN /\ d \in deciding
     /\ deciding' = deciding \ {d}
     /\ review' = [review EXCEPT ![p].state = r.decision]
     /\ receipt' = [receipt EXCEPT ![r.key] = r.decision]
     /\ IF r.decision = "use_existing"
        THEN photo' = [photo EXCEPT ![p] = "discarded"] /\ UNCHANGED piece
        ELSE piece' = (IF Creates(p) THEN [piece EXCEPT ![p] = "active"] ELSE piece) /\ UNCHANGED photo
     /\ label' = IF d.label /\ label[p].on = Nobody THEN [label EXCEPT ![p].on = kept] ELSE label
     /\ Answer(r, "resolved")
     /\ UNCHANGED <<reading, net, submits>>

-----------------------------------------------------------------------------
Next ==
  \/ \E p \in Photos : ReadGarment(p) \/ ReadLabel(p) \/ ExpireLabel(p)
  \/ \E r \in reading : CommitGarment(r) \/ CommitLabel(r)
  \/ \E x \in Pieces : DeletePiece(x)
  \/ \E t \in Tabs, p \in Photos : DecideLater(t, p) \/ \E d \in Decisions : Resolve(t, p, d)
  \/ \E r \in net : Decide(r)
  \/ \E d \in deciding : CommitDecision(d)

Spec == Init /\ [][Next]_vars

-----------------------------------------------------------------------------
TypeOK ==
  /\ photo \in [Photos -> {"validating", "ready", "discarded"}]
  /\ piece \in [Pieces -> {"none", "active", "deleted"}]
  /\ review \in [Photos -> [state : {"none", "pending"} \cup Decisions, existing : Pieces \cup {Nobody}]]
  /\ label \in [Photos -> [state : {"none", "validating", "ready", "canceled"}, on : Pieces \cup {Nobody}]]
  /\ \A r \in reading : r.photo \in Photos /\ r.found \in Pieces \cup {Nobody}
  /\ \A d \in deciding : d.request.decision \in Decisions /\ review[d.request.photo].state = "pending"
  /\ \A d, e \in deciding : d.request.photo = e.request.photo => d = e
  /\ receipt \in [Keys -> {"none"} \cup Decisions]
  /\ submits \in 0..MaxSubmits /\ faults \in 0..MaxFaults

(* No photo is lost between the question and its answer: a validated photo *)
(* has become a piece, waits with its bytes for a decision, or was given   *)
(* up because the member chose the piece they had.                         *)
PhotosAccountedFor ==
  \A p \in Photos :
    photo[p] # "validating" =>
      \/ piece[p] # "none" /\ photo[p] = "ready" /\ review[p].state \in {"none", "add_another"}
      \/ piece[p] = "none" /\ photo[p] = "ready" /\ review[p].state = "pending"
      \/ piece[p] = "none" /\ photo[p] = "discarded" /\ review[p].state = "use_existing"

(* A decision stands: no answer from another page, late or repeated,       *)
(* reverses it.                                                            *)
Stands == \A p \in Photos : review[p].state \in Decisions => review'[p].state = review[p].state
DecisionStands == [][Stands]_vars

(* A label is attached to the piece of its own garment, or to the existing *)
(* one only once the member chose it: never while the question is open.    *)
LabelsOnTheirOwn ==
  \A p \in Photos :
    label[p].on # Nobody =>
      label[p].on = p \/ (review[p].state = "use_existing" /\ label[p].on = review[p].existing)

(* A label whose garment waits for a decision waits with it.               *)
LabelWaits ==
  \A p \in Photos : review[p].state = "pending" /\ Attachable(p) => label'[p].state = "ready"
LabelsWaitForDecision == [][LabelWaits]_vars

(* A page that keeps to one decision is told that the question was already *)
(* answered only when it was not its own resend that answered it.          *)
DecidedIsNotRefused ==
  \A t \in Tabs, p \in Photos :
    page[t][p].told = "ALREADY_DECIDED" /\ ~page[t][p].wavered =>
      \A k \in page[t][p].keys : receipt[k] = "none"

(* What the migration's header says: an exact reupload is held before a    *)
(* second piece exists.                                                    *)
HeldBeforeSecondPiece ==
  \A p, q \in Photos :
    p # q /\ Alive(p) /\ Alive(q) => "add_another" \in {review[p].state, review[q].state}

(* Whichever of a garment and its label is validated last sees the other:  *)
(* no validated label is left over once its garment has become a piece, or *)
(* once the member chose the existing one and that is still there.         *)
LabelsNeverStranded ==
  \A p \in Photos : Attachable(p) => Home(p) = Nobody

(* What discard_item says: every attachment's bytes are queued for         *)
(* deletion, so that a deleted piece keeps no label.                       *)
DeletedKeepNoLabel ==
  \A p \in Photos : label[p].on # Nobody => piece[label[p].on] # "deleted"
=============================================================================

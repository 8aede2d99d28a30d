----------------------------- MODULE PieceEdits ------------------------------
(***************************************************************************)
(* The details of one piece: members edit them in one or more open pages,  *)
(* while tag suggestions and care labels fill in what the member did not,  *)
(* each under optimistic revisions and per-field versions.                 *)
(*                                                                         *)
(* Three fields stand for the fifteen: a category, the attributes, each    *)
(* key of which applies to one category, and the material, which a label   *)
(* may print.  A page shows the piece it last fetched (view); its draft    *)
(* starts from a snapshot (base).  A request carries a patch, the revision *)
(* shown and an idempotency key.                                           *)
(***************************************************************************)
EXTENDS Integers, FiniteSets

CONSTANTS
  Pages, Categories,
  MaxRevision,  \* bound of the model: accepted changes of the piece
  MaxJobs,      \* bound of the model: runs of each suggestion job
  MaxKeys,      \* bound of the model: idempotency keys
  MaxFaults     \* bound of the model: answers lost on the way

ASSUME PieceAssumption ==
  {MaxRevision, MaxJobs} \subseteq Nat \ {0} /\ {MaxKeys, MaxFaults} \subseteq Nat

VARIABLES
  item,     \* values, field_meta, revision, review and lifecycle of the piece
  offered,  \* the latest applied tag suggestion and the fields it filled
  job,      \* the tags and the label job
  label,    \* a care label is attached
  read,     \* a label's material was accepted by the piece
  done,     \* idempotency keys of accepted edits
  page,     \* the members' pages
  unseen,   \* an accepted edit replaced a value its page was not based on
  keys, faults

vars == <<item, offered, job, label, read, done, page, unseen, keys, faults>>

Fields == {"category", "attributes", "material"}
Jobs == {"vision", "label"}
Materials == {"none", "own", "guess", "printed"}
Blank == [category |-> "none", attributes |-> {}, material |-> "none"]
Filled(cat, attrs, mat) == [category |-> cat, attributes |-> attrs, material |-> mat]
NoPatch == [f \in {} |-> "none"]
NoRequest == [key |-> 0, patch |-> NoPatch, rev |-> 0]
Snapshot == [val |-> item.val, rev |-> item.rev, offered |-> offered, life |-> item.life]

TypeOK ==
  /\ item.val.category \in Categories \cup {"none"} /\ item.val.attributes \subseteq Categories
  /\ item.val.material \in Materials
  /\ \A f \in Fields : /\ item.meta[f].v \in 0..MaxRevision
                       /\ item.meta[f].source \in {"none", "user"} \cup Jobs
                       /\ item.meta[f].locked => item.meta[f].source = "user"
  /\ item.rev \in 1..MaxRevision /\ item.life \in {"active", "archived", "deleted"}
  /\ \A j \in Jobs : job[j].at \in {"idle", "queued", "running"} /\ job[j].runs \in 0..MaxJobs
  /\ done \subseteq 1..MaxKeys /\ keys \in 0..MaxKeys /\ faults \in 0..MaxFaults
  /\ \A p \in Pages :
       /\ page[p].save \in {"idle", "sent", "saved", "conflict", "refused", "lost"}
       /\ page[p].save # "idle" => page[p].request # NoRequest
       /\ page[p].base.rev <= page[p].view.rev /\ page[p].view.rev <= item.rev

Init ==
  /\ item = [val |-> Blank, meta |-> [f \in Fields |-> [v |-> 0, source |-> "none", locked |-> FALSE]],
             rev |-> 1, review |-> TRUE, life |-> "active"]
  /\ offered = [val |-> NoPatch, applied |-> {}]
  /\ job = [j \in Jobs |-> [at |-> IF j = "vision" THEN "queued" ELSE "idle", base |-> NoPatch,
                            runs |-> IF j = "vision" THEN 1 ELSE 0]]
  /\ label = FALSE /\ read = FALSE /\ done = {} /\ unseen = FALSE /\ keys = 0 /\ faults = 0
  /\ page = [p \in Pages |-> [view |-> Snapshot, base |-> Snapshot, draft |-> Blank,
                              request |-> NoRequest, save |-> "idle"]]

-----------------------------------------------------------------------------
(* The server's rules for a patch, a function on the fields it changes.      *)
Merged(val, patch) == [f \in Fields |-> IF f \in DOMAIN patch THEN patch[f] ELSE val[f]]
Fits(cat, attrs) == attrs \cap {cat}
Valid(patch, val) ==
  LET new == Merged(val, patch) IN
  "attributes" \in DOMAIN patch => patch.attributes \subseteq Fits(new.category, patch.attributes)

Touched(meta, fs, source, locked) ==
  [f \in Fields |-> IF f \in fs THEN [v |-> meta[f].v + 1, source |-> source, locked |-> locked] ELSE meta[f]]

(* update_item: the member's values, locked; a category of their own ends    *)
(* the review and clears attributes of another one.                          *)
Edited(patch) ==
  LET new == Merged(item.val, patch) IN
  [item EXCEPT !.val = [new EXCEPT !.attributes = Fits(new.category, new.attributes)],
               !.meta = Touched(item.meta, DOMAIN patch, "user", TRUE),
               !.review = IF "category" \in DOMAIN patch THEN new.category = "none" ELSE item.review,
               !.rev = item.rev + 1]

AtRevision(rev) == rev = item.rev
Outcome(patch, rev) ==
  CASE item.life = "deleted" -> "refused"
    [] item.life # "deleted" /\ ~AtRevision(rev) -> "conflict"
    [] item.life # "deleted" /\ AtRevision(rev) /\ ~Valid(patch, item.val) -> "refused"
    [] OTHER -> "saved"

Fault == faults < MaxFaults /\ faults' = faults + 1
Room == item.rev < MaxRevision

-----------------------------------------------------------------------------
(* The page.  A newer revision rebases the draft when no save is under way:  *)
(* the member's own changes stay, everything else shows the latest values.   *)
Dirty(x) == {f \in Fields : x.draft[f] # x.base.val[f]}
PatchOf(x) == [f \in Dirty(x) |-> x.draft[f]]
Rendered(x) ==
  IF x.save # "idle" \/ x.view.rev = x.base.rev THEN x
  ELSE [x EXCEPT !.draft = [f \in Fields |-> IF f \in Dirty(x) THEN x.draft[f] ELSE x.view.val[f]],
                 !.base = x.view]

Page(p, x) == page' = [page EXCEPT ![p] = Rendered(x)]
OnlyPages == UNCHANGED <<item, offered, job, label, read, done, unseen, keys, faults>>

Fetch(p) ==
  /\ page[p].view # Snapshot /\ item.life # "deleted"
  /\ Page(p, [page[p] EXCEPT !.view = Snapshot])
  /\ OnlyPages

SetField(p) ==
  LET x == page[p]
      Set(f, v) == Page(p, [x EXCEPT !.draft[f] = v]) IN
  /\ \/ \E c \in Categories : Set("category", c)
     \/ Set("material", "own")
     \/ x.draft.category # "none" /\ Set("attributes", x.draft.attributes \cup {x.draft.category})
  /\ page' # page /\ OnlyPages

(* The key of a request is kept while the same edit is retried.              *)
Save(p) ==
  LET x == page[p]
      same == x.request.patch = PatchOf(x) /\ x.request.rev = x.view.rev IN
  /\ x.save = "idle" /\ Dirty(x) # {}
  /\ IF same THEN UNCHANGED keys ELSE keys < MaxKeys /\ keys' = keys + 1
  /\ Page(p, [x EXCEPT !.save = "sent",
       !.request = [key |-> IF same THEN x.request.key ELSE keys + 1, patch |-> PatchOf(x), rev |-> x.view.rev]])
  /\ UNCHANGED <<item, offered, job, label, read, done, unseen, faults>>

UpdateItem(p) ==
  LET x == page[p]
      r == x.request
      result == IF r.key \in done THEN "saved" ELSE Outcome(r.patch, r.rev)
      Answers(at) == page' = [page EXCEPT ![p].save = at] IN
  /\ x.save = "sent"
  /\ \/ Fault /\ Answers("lost") /\ UNCHANGED <<item, done, unseen>>      \* the request
     \/ /\ IF result = "saved" /\ r.key \notin done
           THEN /\ Room /\ item' = Edited(r.patch) /\ done' = done \cup {r.key}
                /\ unseen' = (unseen \/ \E f \in DOMAIN r.patch : item.val[f] # x.base.val[f])
           ELSE UNCHANGED <<item, done, unseen>>
        /\ \/ Answers(result) /\ UNCHANGED faults
           \/ Answers("lost") /\ Fault                                     \* or its answer
  /\ UNCHANGED <<offered, job, label, read, keys>>

SaveAnswered(p) ==
  LET x == page[p] IN
  /\ x.save \in {"saved", "conflict", "refused", "lost"}
  /\ Page(p, [x EXCEPT !.save = "idle", !.request = IF x.save = "lost" THEN x.request ELSE NoRequest])
  /\ OnlyPages

(* What the latest tag suggestion proposed and did not fill is offered on    *)
(* the page, and accepted as an edit of its own.                             *)
Offers(view) ==
  {f \in DOMAIN view.offered.val \ view.offered.applied : view.val[f] # view.offered.val[f]}

UseOffer(p) ==
  \E f \in Offers(page[p].view) :
    LET patch == [g \in {f} |-> page[p].view.offered.val[f]] IN
    /\ Outcome(patch, page[p].view.rev) = "saved" /\ Room
    /\ item' = Edited(patch)
    /\ UNCHANGED <<offered, job, label, read, done, page, unseen, keys, faults>>

(* The other buttons change the piece at the revision shown: the picture it  *)
(* shows, its place in the wardrobe, a category set for many pieces at once. *)
SetDisplay(p) == item' = [item EXCEPT !.rev = item.rev + 1]
SetLifecycle(p) ==
  item' = [item EXCEPT !.life = IF item.life = "active" THEN "archived" ELSE "active", !.rev = item.rev + 1]
SetCategory(p) == \E c \in Categories : item' = Edited([f \in {"category"} |-> c])
PressButton(p) ==
  /\ AtRevision(page[p].view.rev) /\ item.life # "deleted" /\ Room
  /\ SetDisplay(p) \/ SetLifecycle(p) \/ SetCategory(p)
  /\ UNCHANGED <<offered, job, label, read, done, page, unseen, keys, faults>>

(* Deleting a piece cancels its jobs and erases its details.                 *)
DeleteItem(p) ==
  /\ AtRevision(page[p].view.rev) /\ item.life # "deleted" /\ Room
  /\ item' = [item EXCEPT !.val = Blank, !.life = "deleted", !.rev = item.rev + 1,
                          !.meta = [f \in Fields |-> [v |-> 0, source |-> "none", locked |-> FALSE]]]
  /\ offered' = [val |-> NoPatch, applied |-> {}]
  /\ job' = [j \in Jobs |-> [job[j] EXCEPT !.at = "idle"]]
  /\ label' = FALSE /\ read' = FALSE
  /\ UNCHANGED <<done, page, unseen, keys, faults>>

-----------------------------------------------------------------------------
(* Care labels: one may be attached, and its reading is a job.               *)
AttachLabel ==
  /\ item.life # "deleted" /\ ~label /\ job["label"].runs < MaxJobs
  /\ label' = TRUE
  /\ job' = [job EXCEPT !["label"] = [job["label"] EXCEPT !.at = "queued", !.runs = job["label"].runs + 1]]
  /\ UNCHANGED <<item, offered, read, done, page, unseen, keys, faults>>

RemoveLabel ==
  /\ label /\ label' = FALSE
  /\ job' = [job EXCEPT !["label"].at = "idle"]
  /\ UNCHANGED <<item, offered, read, done, page, unseen, keys, faults>>

(* A retry, or a replaced photo, tags the piece again.                       *)
RetryTags ==
  /\ item.life # "deleted" /\ job["vision"].at = "idle" /\ job["vision"].runs < MaxJobs
  /\ job' = [job EXCEPT !["vision"] = [job["vision"] EXCEPT !.at = "queued", !.runs = job["vision"].runs + 1]]
  /\ UNCHANGED <<item, offered, label, read, done, page, unseen, keys, faults>>

Claim(j) ==
  /\ job[j].at = "queued"
  /\ job' = [job EXCEPT ![j] = [job[j] EXCEPT !.at = "running",
                                              !.base = [f \in Fields |-> item.meta[f].v]]]
  /\ UNCHANGED <<item, offered, label, read, done, page, unseen, keys, faults>>

(* What a model may answer, by the schema it is given, and what is accepted. *)
TagOutputs == [category : Categories, attributes : SUBSET Categories, material : {"guess"}]
ValidTags(s) == s.attributes \subseteq {s.category}
LabelOutputs == [material : {"printed"}] \cup {NoPatch}
ValidOutputs(j) == IF j = "vision" THEN {s \in TagOutputs : ValidTags(s)} ELSE LabelOutputs

(* apply_suggestion: a field is filled unless the member locked it, or it    *)
(* changed since the job was claimed; a label replaces a guess even then,    *)
(* and a guess never replaces a label.                                       *)
UnlockedAll(f) == TRUE
Unlocked(f) == ~item.meta[f].locked
Fresh(source, base, f) ==
  item.meta[f].v = base[f] \/ (source = "label" /\ item.meta[f].source = "vision")
Applied(source, base, s) ==
  {f \in DOMAIN s : /\ Unlocked(f) /\ Fresh(source, base, f)
                    /\ ~(source = "vision" /\ item.meta[f].source = "label")}
ReviewAfter(fs, low) == IF "category" \in fs THEN low ELSE item.review

Suggested(source, fs, s, low) ==
  IF fs = {} THEN item
  ELSE [item EXCEPT !.val = [f \in Fields |-> IF f \in fs THEN s[f] ELSE item.val[f]],
                    !.meta = Touched(item.meta, fs, source, FALSE),
                    !.review = ReviewAfter(fs, low), !.rev = item.rev + 1]

StillRunningAny(j) == job[j].base # NoPatch
StillRunning(j) == job[j].at = "running"
Complete(j) ==
  /\ StillRunning(j) /\ Room
  /\ job' = [job EXCEPT ![j].at = "idle"]
  /\ \E s \in ValidOutputs(j), low \in BOOLEAN :
       LET fs == Applied(j, job[j].base, s) IN
       /\ (j = "label" => low)
       /\ item' = Suggested(j, fs, s, low)
       /\ offered' = IF j = "vision" THEN [val |-> s, applied |-> fs] ELSE offered
       /\ read' = (read \/ (j = "label" /\ "material" \in DOMAIN s /\ ~item.meta["material"].locked))
  /\ UNCHANGED <<label, done, page, unseen, keys, faults>>

(* An answer outside the taxonomy, or none, fails the run.                   *)
Reject(j) ==
  /\ job[j].at = "running" /\ job' = [job EXCEPT ![j].at = "idle"]
  /\ UNCHANGED <<item, offered, label, read, done, page, unseen, keys, faults>>

Member(p) ==
  \/ Fetch(p) \/ SetField(p) \/ Save(p) \/ UpdateItem(p) \/ SaveAnswered(p)
  \/ UseOffer(p) \/ PressButton(p) \/ DeleteItem(p)
Next ==
  \/ \E p \in Pages : Member(p)
  \/ AttachLabel \/ RemoveLabel \/ RetryTags
  \/ \E j \in Jobs : Claim(j) \/ Complete(j) \/ Reject(j)

Spec == Init /\ [][Next]_vars

-----------------------------------------------------------------------------
(* A value the member set changes again only by a member's edit, which is a  *)
(* new version of it; but any edit clears attributes of another category.    *)
(*                                          [apply_suggestion, update_item]  *)
Reversioned(g) == item'.meta[g].locked /\ item'.meta[g].v > item.meta[g].v
MemberValuesStay ==
  [][item'.life # "deleted" =>
       \A f \in Fields :
         item.meta[f].locked /\ item'.val[f] # item.val[f] =>
           \/ Reversioned(f)
           \/ /\ f = "attributes" /\ \E g \in Fields : Reversioned(g)
              /\ item'.val.attributes = Fits(item'.val.category, item.val.attributes)]_vars

(* Whatever the order in which the tags and the label of a piece finish, a   *)
(* material read from a label is not replaced by, and replaces, a guess.     *)
(*                                                     [apply_suggestion]    *)
LabelOutranks == read => item.meta["material"].source \in {"label", "user"}

(* An accepted edit replaces only values its page was based on: nobody's     *)
(* newer value is overwritten unseen.            [PieceEditor, update_item]  *)
NothingUnseenReplaced == ~unseen

(* What a member typed and has not saved survives every newer revision, and  *)
(* a conflict.                                               [PieceEditor]   *)
DraftKept ==
  [][\A p \in DOMAIN page :
       page'[p].base.rev # page[p].base.rev =>
         \A f \in Dirty(page[p]) : page'[p].draft[f] = page[p].draft[f]]_vars

(* The review of a piece ends with a category chosen by the member, whatever *)
(* a late suggestion thinks of it.          [update_item, apply_suggestion]  *)
ChosenCategoryIsReviewed ==
  item.meta["category"].locked /\ item.val.category # "none" => ~item.review

(* A deleted piece stays erased.  [discard_item, svc_complete_item_stage]    *)
DeletedStaysErased == item.life = "deleted" => item.val = Blank

(* A guess of the worker yields to what a label says and to what the member  *)
(* chose, whichever comes last, and to a deletion.                           *)
(*                            [apply_suggestion, update_item, discard_item]  *)
SuggestionsYield == LabelOutranks /\ ChosenCategoryIsReviewed /\ DeletedStaysErased

(* What a member set is changed by members alone, and seen by who changes    *)
(* it; what one typed and has not saved survives every refetch.              *)
(*                       [apply_suggestion, update_item, PieceEditor]        *)
ValuesStay == MemberValuesStay /\ DraftKept /\ []NothingUnseenReplaced

(* A category change prunes attributes that no longer apply, whoever made it.*)
(*                                                  [apply_suggestion; docs] *)
PrunedWithCategory ==
  [][item'.val.category # item.val.category => item'.val.attributes \subseteq {item'.val.category}]_vars

(* Every suggestion that is offered can be used.    [ProcessingPanel; docs]  *)
OffersCanBeUsed ==
  \A p \in Pages :
    page[p].view = Snapshot =>
      \A f \in Offers(page[p].view) : Valid([g \in {f} |-> offered.val[f]], item.val)

(* A change of category is not refused for the attributes of the old one.    *)
(*                                            [PieceEditor, update_item]     *)
CategoryChangeSaves ==
  \A p \in Pages :
    page[p].save = "refused" /\ "category" \in DOMAIN page[p].request.patch => item.life = "deleted"
=============================================================================

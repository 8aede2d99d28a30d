---------------------------- MODULE MCEdits_proofs -----------------------------
(* Theorems about the pages a member edits.  About PieceEdits, for any pages, *)
(* categories and numbers of edits: suggestions yield to labels and members,  *)
(* what a member set or typed stays, and no accepted edit replaces what its   *)
(* page had not seen.  About MaskEdits and ProfileEdits, for any constants    *)
(* within their bounds, and so about every part of EditsSpec: the editor      *)
(* shows the mask it sends, and a save is what its page was based on.         *)
EXTENDS MCEdits, Sequences, TLAPS

AnyValue == Categories \cup {"none"} \cup Materials \cup SUBSET Categories
Values ==
  {v \in [Fields -> AnyValue] : /\ v["category"] \in Categories \cup {"none"}
                                /\ v["attributes"] \subseteq Categories
                                /\ v["material"] \in Materials}
Patches == {[f \in D |-> v[f]] : D \in SUBSET Fields, v \in Values}
Sources == {"none", "user"} \cup Jobs
Metas == [Fields -> [v : Nat, source : Sources, locked : BOOLEAN]]
Lives == {"active", "archived", "deleted"}
Items == [val : Values, meta : Metas, rev : 1..MaxRevision, review : BOOLEAN, life : Lives]
Offered == [val : Patches, applied : SUBSET Fields]
Bases == {NoPatch} \cup [Fields -> Nat]
JobRecords == [at : {"idle", "queued", "running"}, base : Bases, runs : 0..MaxJobs]
Snapshots == [val : Values, rev : Nat, offered : Offered, life : Lives]
Requests == [key : 0..MaxKeys, patch : Patches, rev : Nat]
Saves == {"idle", "sent", "saved", "conflict", "refused", "lost"}
PageRecords ==
  [view : Snapshots, base : Snapshots, draft : Values, request : Requests, save : Saves]

Typed ==
  /\ item \in Items /\ offered \in Offered /\ job \in [Jobs -> JobRecords]
  /\ read \in BOOLEAN /\ done \subseteq 1..MaxKeys /\ page \in [Pages -> PageRecords]
  /\ keys \in 0..MaxKeys /\ faults \in 0..MaxFaults

(* Every change of a field counts, and a member's is locked.                 *)
MetaCounts ==
  \A f \in Fields :
    /\ item.meta[f].v < item.rev
    /\ item.meta[f].locked <=> item.meta[f].source = "user"
    /\ item.meta[f].source = "none" => item.meta[f].v = 0

(* A job works with versions the fields had; a deleted piece has no job.     *)
RunsBasedOnPast ==
  \A j \in Jobs :
    /\ item.life = "deleted" => job[j].at = "idle"
    /\ job[j].at = "running" =>
         job[j].base \in [Fields -> Nat] /\ \A f \in Fields : job[j].base[f] <= item.meta[f].v

(* What a page shows was the piece at that revision.                         *)
Shown(view) == view.rev <= item.rev /\ (view.rev = item.rev => view.val = item.val)
RequestOK(r) == r = NoRequest \/ r.key \in 1..keys
PageOK(x) ==
  /\ Shown(x.view) /\ Shown(x.base) /\ x.base.rev <= x.view.rev /\ RequestOK(x.request)
  /\ x.save = "idle" => x.base.rev = x.view.rev
  /\ x.save # "idle" =>
       x.request.rev = x.base.rev /\ DOMAIN x.request.patch # {} /\ x.request # NoRequest
PagesOK == \A p \in Pages : PageOK(page[p])

PieceInv ==
  Typed /\ MetaCounts /\ RunsBasedOnPast /\ PagesOK /\ SuggestionsYield /\ NothingUnseenReplaced

-----------------------------------------------------------------------------
(* Values and patches.                                                       *)
LEMMA FieldList == \A f : f \in Fields <=> f = "category" \/ f = "attributes" \/ f = "material"
BY DEF Fields

LEMMA BlankTyped == Blank \in Values
<1>1. DOMAIN Blank = Fields
  BY DEF Blank, Fields
<1>2. /\ Blank["category"] = "none" /\ Blank["attributes"] = {} /\ Blank["material"] = "none"
      /\ Blank = [f \in Fields |-> Blank[f]]
  BY <1>1 DEF Blank, Fields
<1>3. \A f \in Fields : Blank[f] \in AnyValue
  BY <1>2, FieldList DEF AnyValue
<1> QED BY <1>2, <1>3 DEF Values, Materials

LEMMA PatchParts ==
  ASSUME NEW q \in Patches
  PROVE  /\ DOMAIN q \subseteq Fields
         /\ \A f \in DOMAIN q : q[f] \in AnyValue
         /\ "category" \in DOMAIN q => q["category"] \in Categories \cup {"none"}
         /\ "attributes" \in DOMAIN q => q["attributes"] \subseteq Categories
         /\ "material" \in DOMAIN q => q["material"] \in Materials
<1>1. PICK D \in SUBSET Fields, v \in Values : q = [f \in D |-> v[f]]
  BY DEF Patches
<1> QED BY <1>1 DEF Values

LEMMA PatchTyped ==
  ASSUME NEW D \in SUBSET Fields, NEW v \in Values
  PROVE  [f \in D |-> v[f]] \in Patches
BY DEF Patches

(* A patch whose values are another patch's.                                 *)
LEMMA SubPatch ==
  ASSUME NEW q \in Patches, NEW D \in SUBSET DOMAIN q
  PROVE  [f \in D |-> q[f]] \in Patches
<1>1. PICK E \in SUBSET Fields, v \in Values : q = [f \in E |-> v[f]]
  BY DEF Patches
<1>2. [f \in D |-> q[f]] = [f \in D |-> v[f]] /\ D \subseteq Fields
  BY <1>1
<1> QED BY <1>2, PatchTyped

LEMMA NoPatchTyped == NoPatch \in Patches /\ DOMAIN NoPatch = {}
<1>1. [f \in {} |-> Blank[f]] \in Patches
  BY BlankTyped, PatchTyped
<1> QED BY <1>1 DEF NoPatch

LEMMA MergedTyped ==
  ASSUME NEW v \in Values, NEW q \in Patches
  PROVE  /\ Merged(v, q) \in Values
         /\ \A f \in Fields : Merged(v, q)[f] = IF f \in DOMAIN q THEN q[f] ELSE v[f]
<1>1. \A f \in Fields : Merged(v, q)[f] = IF f \in DOMAIN q THEN q[f] ELSE v[f]
  BY DEF Merged
<1>2. Merged(v, q) \in [Fields -> AnyValue]
  BY PatchParts DEF Merged, Values
<1> QED BY <1>1, <1>2, PatchParts, FieldList DEF Values

LEMMA PrunedTyped ==
  ASSUME NEW v \in Values
  PROVE  LET new == [v EXCEPT !.attributes = Fits(v.category, v.attributes)] IN
         /\ new \in Values
         /\ \A f \in Fields \ {"attributes"} : new[f] = v[f]
         /\ new["attributes"] = Fits(v.category, v.attributes)
<1>1. PICK a : a = Fits(v.category, v.attributes)
  OBVIOUS
<1>2. a \subseteq Categories /\ a \in AnyValue
  BY <1>1 DEF Fits, Values, AnyValue
<1>3. PICK new : new = [v EXCEPT !["attributes"] = a]
  OBVIOUS
<1>4. new \in [Fields -> AnyValue] /\ new["attributes"] = a /\ \A f \in Fields \ {"attributes"} : new[f] = v[f]
  BY <1>2, <1>3, FieldList DEF Values
<1>5. new \in Values
  BY <1>2, <1>4, FieldList DEF Values
<1> QED BY <1>1, <1>3, <1>4, <1>5

LEMMA CategoryPatch ==
  ASSUME NEW c \in Categories
  PROVE  [f \in {"category"} |-> c] \in Patches
<1>1. PICK v : v = [Blank EXCEPT !["category"] = c]
  OBVIOUS
<1>2. v \in Values /\ v["category"] = c
  BY <1>1, BlankTyped, FieldList DEF Values, AnyValue
<1>3. [f \in {"category"} |-> c] = [f \in {"category"} |-> v[f]]
  BY <1>2
<1> QED BY <1>2, <1>3, PatchTyped DEF Fields

LEMMA ModelAnswers ==
  /\ \A s \in TagOutputs : s \in Values /\ s \in Patches /\ DOMAIN s = Fields
  /\ \A s \in LabelOutputs : s \in Patches
<1>1. ASSUME NEW s \in TagOutputs PROVE s \in Values /\ s \in Patches /\ DOMAIN s = Fields
  <2>1. DOMAIN s = Fields /\ s = [f \in Fields |-> s[f]]
    BY <1>1 DEF TagOutputs, Fields
  <2>2. s["category"] \in Categories /\ s["attributes"] \in SUBSET Categories /\ s["material"] = "guess"
    BY <1>1 DEF TagOutputs
  <2>3. \A f \in Fields : s[f] \in AnyValue
    BY <2>2, FieldList DEF AnyValue, Materials
  <2>4. s \in Values
    BY <2>1, <2>2, <2>3 DEF Values, Materials
  <2> QED BY <2>1, <2>4, PatchTyped
<1>2. ASSUME NEW s \in LabelOutputs PROVE s \in Patches
  <2>1. CASE s \in [material : {"printed"}]
    <3>1. PICK v : v = [Blank EXCEPT !["material"] = "printed"]
      OBVIOUS
    <3>2. v \in Values /\ v["material"] = "printed"
      BY <3>1, BlankTyped, FieldList DEF Values, AnyValue, Materials
    <3>3. s = [f \in {"material"} |-> v[f]]
      BY <2>1, <3>2
    <3> QED BY <3>2, <3>3, PatchTyped DEF Fields
  <2> QED BY <1>2, <2>1, NoPatchTyped DEF LabelOutputs
<1> QED BY <1>1, <1>2

-----------------------------------------------------------------------------
(* What an accepted change does to the piece.                                *)
Changes(fs, source, locked) ==
  /\ item' \in Items /\ item'.rev = item.rev + 1 /\ item'.life = item.life
  /\ \A f \in fs \cap Fields :
       /\ item'.meta[f].v = item.meta[f].v + 1 /\ item'.meta[f].source = source
       /\ item'.meta[f].locked <=> locked
  /\ \A f \in Fields \ fs : item'.meta[f] = item.meta[f]

EditedAs(q) ==
  /\ Changes(DOMAIN q, "user", TRUE)
  /\ \A f \in Fields \ {"attributes"} :
       item'.val[f] = IF f \in DOMAIN q THEN q[f] ELSE item.val[f]
  /\ item'.val["attributes"] =
       Fits(item'.val["category"],
            IF "attributes" \in DOMAIN q THEN q["attributes"] ELSE item.val["attributes"])
  /\ item'.review = IF "category" \in DOMAIN q THEN item'.val["category"] = "none" ELSE item.review

SuggestedAs(source, fs, q, low) ==
  /\ Changes(fs, source, FALSE)
  /\ \A f \in Fields : item'.val[f] = IF f \in fs THEN q[f] ELSE item.val[f]
  /\ item'.review = IF "category" \in fs THEN low ELSE item.review

LEMMA TouchedTyped ==
  ASSUME NEW m \in Metas, NEW fs, NEW source \in Sources, NEW locked \in BOOLEAN
  PROVE  Touched(m, fs, source, locked) \in Metas
<1>1. ASSUME NEW f \in Fields
      PROVE  [v |-> m[f].v + 1, source |-> source, locked |-> locked]
               \in [v : Nat, source : Sources, locked : BOOLEAN]
  <2>1. m[f].v + 1 \in Nat
    BY DEF Metas
  <2> QED BY <2>1
<1> QED BY <1>1 DEF Touched, Metas

LEMMA NextRevision == ASSUME item \in Items, Room PROVE item.rev + 1 \in 1..MaxRevision
BY PieceAssumption DEF Items, Room

LEMMA EditEdits ==
  ASSUME item \in Items, Room, NEW q \in Patches, item' = Edited(q)
  PROVE  EditedAs(q)
<1>1. PICK new : new = Merged(item.val, q)
  OBVIOUS
<1>2. new \in Values /\ \A f \in Fields : new[f] = IF f \in DOMAIN q THEN q[f] ELSE item.val[f]
  BY <1>1, MergedTyped DEF Items
<1>3. PICK v : v = [new EXCEPT !.attributes = Fits(new.category, new.attributes)]
  OBVIOUS
<1>4. /\ v \in Values
      /\ \A f \in Fields \ {"attributes"} : v[f] = new[f]
      /\ v["attributes"] = Fits(new["category"], new["attributes"])
  BY <1>2, <1>3, PrunedTyped
<1>5. PICK m : m = Touched(item.meta, DOMAIN q, "user", TRUE)
  OBVIOUS
<1>6. m \in Metas
  BY <1>5, TouchedTyped DEF Items, Sources
<1>7. PICK b \in BOOLEAN : b = IF "category" \in DOMAIN q THEN new.category = "none" ELSE item.review
  <2>1. (IF "category" \in DOMAIN q THEN new.category = "none" ELSE item.review) \in BOOLEAN
    BY DEF Items
  <2> QED BY <2>1
<1>8. item' = [item EXCEPT !.val = v, !.meta = m, !.review = b, !.rev = item.rev + 1]
  BY <1>1, <1>3, <1>5, <1>7 DEF Edited
<1>9. item' = [item EXCEPT !.val = v, !.meta = m, !.review = b, !.life = item.life,
                           !.rev = item.rev + 1]
  BY <1>8 DEF Items
<1>10. /\ item' \in Items /\ item'.val = v /\ item'.meta = m /\ item'.review = b
       /\ item'.life = item.life /\ item'.rev = item.rev + 1
  <2>1. PICK n \in 1..MaxRevision : n = item.rev + 1
    BY NextRevision
  <2> QED BY <1>4, <1>6, <1>7, <1>9, <2>1 DEF Items
<1>11. Changes(DOMAIN q, "user", TRUE)
  BY <1>5, <1>10 DEF Changes, Touched
<1>12. item'.review = IF "category" \in DOMAIN q THEN item'.val["category"] = "none" ELSE item.review
  BY <1>4, <1>7, <1>10, FieldList
<1> QED BY <1>2, <1>4, <1>10, <1>11, <1>12, FieldList DEF EditedAs

LEMMA SuggestionFills ==
  ASSUME item \in Items, Room, NEW q \in Patches, NEW fs \in SUBSET DOMAIN q, fs # {},
         NEW source \in Jobs, NEW low \in BOOLEAN, item' = Suggested(source, fs, q, low)
  PROVE  SuggestedAs(source, fs, q, low)
<1>1. PICK v : v = [f \in Fields |-> IF f \in fs THEN q[f] ELSE item.val[f]]
  OBVIOUS
<1>2. v \in Values
  <2>1. v \in [Fields -> AnyValue]
    BY <1>1, PatchParts DEF Items, Values
  <2> QED BY <1>1, <2>1, PatchParts, FieldList DEF Items, Values
<1>3. PICK m : m = Touched(item.meta, fs, source, FALSE)
  OBVIOUS
<1>4. m \in Metas
  BY <1>3, TouchedTyped DEF Items, Sources
<1>5. PICK b \in BOOLEAN : b = ReviewAfter(fs, low)
  <2>1. ReviewAfter(fs, low) \in BOOLEAN
    BY DEF ReviewAfter, Items
  <2> QED BY <2>1
<1>6. item' = [item EXCEPT !.val = v, !.meta = m, !.review = b, !.rev = item.rev + 1]
  BY <1>1, <1>3, <1>5 DEF Suggested
<1>7. item' = [item EXCEPT !.val = v, !.meta = m, !.review = b, !.life = item.life,
                           !.rev = item.rev + 1]
  BY <1>6 DEF Items
<1>8. /\ item' \in Items /\ item'.val = v /\ item'.meta = m /\ item'.review = b
      /\ item'.life = item.life /\ item'.rev = item.rev + 1
  <2>1. PICK n \in 1..MaxRevision : n = item.rev + 1
    BY NextRevision
  <2> QED BY <1>2, <1>4, <1>5, <1>7, <2>1 DEF Items
<1>9. Changes(fs, source, FALSE)
  BY <1>3, <1>8 DEF Changes, Touched
<1> QED BY <1>1, <1>5, <1>8, <1>9 DEF SuggestedAs, ReviewAfter

-----------------------------------------------------------------------------
(* What the piece and its jobs keep.                                         *)
PieceKept == MetaCounts /\ RunsBasedOnPast /\ SuggestionsYield

LEMMA ChangeCounts ==
  ASSUME item \in Items, MetaCounts, NEW fs, NEW source \in Sources \ {"none"}, NEW locked \in BOOLEAN,
         locked <=> source = "user", Changes(fs, source, locked)
  PROVE  MetaCounts' /\ \A f \in Fields : item.meta[f].v <= item'.meta[f].v
<1> SUFFICES ASSUME NEW f \in Fields
             PROVE  /\ item'.meta[f].v < item'.rev
                    /\ item'.meta[f].locked <=> item'.meta[f].source = "user"
                    /\ item'.meta[f].source = "none" => item'.meta[f].v = 0
                    /\ item.meta[f].v <= item'.meta[f].v
  BY DEF MetaCounts
<1>1. item.meta[f].v \in Nat /\ item.rev \in Nat /\ item'.rev = item.rev + 1 /\ item.meta[f].v < item.rev
  BY PieceAssumption DEF Items, Metas, Changes, MetaCounts
<1>2. CASE f \in fs
  <2>1. /\ item'.meta[f].v = item.meta[f].v + 1 /\ item'.meta[f].source = source
        /\ item'.meta[f].locked <=> locked
    BY <1>2 DEF Changes
  <2> QED BY <1>1, <2>1
<1>3. CASE f \notin fs
  <2>1. item'.meta[f] = item.meta[f]
    BY <1>3 DEF Changes
  <2> QED BY <1>1, <2>1 DEF MetaCounts
<1> QED BY <1>2, <1>3

(* Jobs that stop or stay stay based on the past.                            *)
LEMMA RunsStayBased ==
  ASSUME Typed, RunsBasedOnPast, item' \in Items, item'.life = "deleted" => item.life = "deleted",
         \A f \in Fields : item.meta[f].v <= item'.meta[f].v,
         \A j \in Jobs : job'[j] = job[j] \/ job'[j].at = "idle"
  PROVE  RunsBasedOnPast'
<1> SUFFICES ASSUME NEW j \in Jobs
             PROVE  /\ item'.life = "deleted" => job'[j].at = "idle"
                    /\ job'[j].at = "running" =>
                         /\ job'[j].base \in [Fields -> Nat]
                         /\ \A f \in Fields : job'[j].base[f] <= item'.meta[f].v
  BY DEF RunsBasedOnPast
<1>1. item'.life = "deleted" => job'[j].at = "idle"
  BY DEF RunsBasedOnPast
<1>2. ASSUME job'[j].at = "running"
      PROVE  /\ job'[j].base \in [Fields -> Nat]
             /\ \A f \in Fields : job'[j].base[f] <= item'.meta[f].v
  <2>1. job'[j] = job[j]
    BY <1>2
  <2>2. job[j].base \in [Fields -> Nat] /\ \A f \in Fields : job[j].base[f] <= item.meta[f].v
    BY <1>2, <2>1 DEF RunsBasedOnPast
  <2>3. ASSUME NEW f \in Fields PROVE job[j].base[f] <= item'.meta[f].v
    <3>1. job[j].base[f] \in Nat /\ item.meta[f].v \in Nat /\ item'.meta[f].v \in Nat
      BY <2>2 DEF Typed, Items, Metas
    <3> QED BY <2>2, <3>1
  <2> QED BY <2>1, <2>2, <2>3
<1> QED BY <1>1, <1>2

LEMMA AfterEdit ==
  ASSUME PieceInv, NEW q \in Patches, Room, item.life # "deleted", item' = Edited(q),
         UNCHANGED <<job, read>>
  PROVE  item' \in Items /\ item'.rev = item.rev + 1 /\ item'.life # "deleted" /\ PieceKept'
<1>1. EditedAs(q) /\ item \in Items
  BY EditEdits DEF PieceInv, Typed
<1>2. item' \in Items /\ item'.rev = item.rev + 1 /\ item'.life = item.life
  BY <1>1 DEF EditedAs, Changes
<1>3. MetaCounts' /\ \A f \in Fields : item.meta[f].v <= item'.meta[f].v
  BY <1>1, ChangeCounts DEF EditedAs, PieceInv, Sources
<1>4. RunsBasedOnPast'
  BY <1>2, <1>3, RunsStayBased DEF PieceInv
<1>5. \A f \in Fields : /\ f \in DOMAIN q => item'.meta[f].source = "user"
                        /\ f \notin DOMAIN q => item'.meta[f] = item.meta[f]
  BY <1>1 DEF EditedAs, Changes
<1>6. LabelOutranks'
  BY <1>5, FieldList DEF LabelOutranks, PieceInv, SuggestionsYield
<1>7. ChosenCategoryIsReviewed'
  <2>1. CASE "category" \in DOMAIN q
    BY <1>1, <2>1 DEF EditedAs, ChosenCategoryIsReviewed
  <2>2. CASE "category" \notin DOMAIN q
    <3>1. /\ item'.meta["category"] = item.meta["category"] /\ item'.review = item.review
          /\ item'.val["category"] = item.val["category"]
      BY <1>1, <1>5, <2>2, FieldList DEF EditedAs
    <3> QED BY <3>1 DEF ChosenCategoryIsReviewed, PieceInv, SuggestionsYield
  <2> QED BY <2>1, <2>2
<1>8. DeletedStaysErased'
  BY <1>2 DEF DeletedStaysErased
<1> QED BY <1>2, <1>3, <1>4, <1>6, <1>7, <1>8 DEF PieceKept, SuggestionsYield

LEMMA JobIdle ==
  ASSUME Typed, NEW j \in Jobs, job' = [job EXCEPT ![j].at = "idle"]
  PROVE  /\ job' \in [Jobs -> JobRecords] /\ job'[j].at = "idle"
         /\ \A k \in Jobs : k # j => job'[k] = job[k]
<1>1. PICK x : x = [job[j] EXCEPT !.at = "idle"]
  OBVIOUS
<1>2. job' = [job EXCEPT ![j] = x]
  BY <1>1
<1>3. x \in JobRecords /\ x.at = "idle"
  BY <1>1 DEF Typed, JobRecords
<1> QED BY <1>2, <1>3 DEF Typed

LEMMA AfterSuggestion ==
  ASSUME PieceInv, NEW j \in Jobs, Complete(j)
  PROVE  /\ item' \in Items /\ (item' = item \/ item'.rev = item.rev + 1) /\ PieceKept'
         /\ offered' \in Offered /\ job' \in [Jobs -> JobRecords] /\ read' \in BOOLEAN
<1>1. PICK s \in ValidOutputs(j), low \in BOOLEAN :
        LET fs == Applied(j, job[j].base, s) IN
        /\ item' = Suggested(j, fs, s, low)
        /\ offered' = IF j = "vision" THEN [val |-> s, applied |-> fs] ELSE offered
        /\ read' = (read \/ (j = "label" /\ "material" \in DOMAIN s /\ ~item.meta["material"].locked))
  BY DEF Complete
<1>2. PICK fs : fs = Applied(j, job[j].base, s)
  OBVIOUS
<1>3. s \in Patches
  BY <1>1, ModelAnswers DEF ValidOutputs, Jobs
<1>4. fs \subseteq DOMAIN s /\ fs \subseteq Fields
  BY <1>2, <1>3, PatchParts DEF Applied
<1>5. /\ item \in Items /\ item.life # "deleted" /\ Room
      /\ job[j].base \in [Fields -> Nat] /\ \A f \in Fields : job[j].base[f] <= item.meta[f].v
  BY DEF PieceInv, Typed, RunsBasedOnPast, Complete, StillRunning
<1>6. fs # {} => SuggestedAs(j, fs, s, low)
  BY <1>1, <1>2, <1>3, <1>4, <1>5, SuggestionFills
<1>7. item' = item \/ SuggestedAs(j, fs, s, low)
  BY <1>1, <1>2, <1>6 DEF Suggested
<1>8. item' \in Items /\ item'.life = item.life /\ (item' = item \/ item'.rev = item.rev + 1)
  BY <1>5, <1>7 DEF SuggestedAs, Changes
<1>9. MetaCounts' /\ \A f \in Fields : item.meta[f].v <= item'.meta[f].v
  <2>1. CASE item' = item
    <3>1. \A f \in Fields : item.meta[f].v \in Nat
      BY <1>5 DEF Items, Metas
    <3> QED BY <2>1, <3>1 DEF PieceInv, MetaCounts
  <2>2. CASE SuggestedAs(j, fs, s, low)
    <3>1. j # "user" /\ j \in Sources \ {"none"}
      BY DEF Jobs, Sources
    <3> QED BY <1>5, <2>2, <3>1, ChangeCounts DEF SuggestedAs, PieceInv
  <2> QED BY <1>7, <2>1, <2>2
<1>10. /\ job' \in [Jobs -> JobRecords]
       /\ \A k \in Jobs : job'[k] = job[k] \/ job'[k].at = "idle"
  BY JobIdle DEF Complete, PieceInv
<1>11. RunsBasedOnPast'
  BY <1>5, <1>8, <1>9, <1>10, RunsStayBased DEF PieceInv
<1>12. \A f \in Fields : /\ f \notin fs => item'.meta[f] = item.meta[f]
                         /\ f \in fs => SuggestedAs(j, fs, s, low) /\ item'.meta[f].source = j
                                        /\ ~item'.meta[f].locked /\ ~item.meta[f].locked
  <2>1. \A f \in fs : ~item.meta[f].locked
    BY <1>2 DEF Applied, Unlocked
  <2> QED BY <1>6, <1>7, <2>1 DEF SuggestedAs, Changes
<1>13. LabelOutranks'
  <2> SUFFICES ASSUME read' PROVE item'.meta["material"].source \in {"label", "user"}
    BY DEF LabelOutranks
  <2>1. "material" \in Fields
    BY FieldList
  <2>2. item.meta["material"].source \in Sources
    BY <1>5, <2>1 DEF Items, Metas
  <2>3. item.meta["material"].source = "user" => item.meta["material"].locked
    BY <2>1 DEF PieceInv, MetaCounts
  <2>4. read => item.meta["material"].source \in {"label", "user"}
    BY DEF PieceInv, SuggestionsYield, LabelOutranks
  <2>5. read \/ (j = "label" /\ "material" \in DOMAIN s /\ ~item.meta["material"].locked)
    BY <1>1
  <2>6. CASE "material" \in fs
    <3>1. j = "label"
      <4>1. "material" \in fs => ~(j = "vision" /\ item.meta["material"].source = "label")
        BY <1>2 DEF Applied
      <4> QED BY <1>12, <2>1, <2>3, <2>4, <2>5, <2>6, <4>1 DEF Jobs
    <3> QED BY <1>12, <2>1, <2>6, <3>1
  <2>7. CASE "material" \notin fs
    <3>1. CASE read
      BY <1>12, <2>1, <2>4, <2>7, <3>1
    <3>2. CASE ~read
      <4>1. j = "label" /\ "material" \in DOMAIN s /\ ~item.meta["material"].locked
        BY <2>5, <3>2
      <4>2. /\ item.meta["material"].v # job[j].base["material"]
            /\ item.meta["material"].source # "vision"
        BY <1>2, <2>7, <4>1 DEF Applied, Unlocked, Fresh
      <4>3. item.meta["material"].source # "none"
        <5> SUFFICES ASSUME item.meta["material"].source = "none" PROVE FALSE
          OBVIOUS
        <5>1. item.meta["material"].v = 0
          BY <2>1 DEF PieceInv, MetaCounts
        <5>2. job[j].base["material"] \in Nat /\ job[j].base["material"] <= item.meta["material"].v
          BY <1>5, <2>1
        <5> QED BY <4>2, <5>1, <5>2
      <4> QED BY <1>12, <2>1, <2>2, <2>3, <2>7, <4>1, <4>2, <4>3 DEF Sources, Jobs
    <3> QED BY <3>1, <3>2
  <2> QED BY <2>6, <2>7
<1>14. ChosenCategoryIsReviewed'
  <2>1. CASE "category" \in fs
    BY <1>12, <2>1, FieldList DEF ChosenCategoryIsReviewed
  <2>2. CASE "category" \notin fs
    <3>1. /\ item'.meta["category"] = item.meta["category"] /\ item'.review = item.review
          /\ item'.val["category"] = item.val["category"]
      BY <1>7, <1>12, <2>2, FieldList DEF SuggestedAs
    <3> QED BY <3>1 DEF ChosenCategoryIsReviewed, PieceInv, SuggestionsYield
  <2> QED BY <2>1, <2>2
<1>15. DeletedStaysErased'
  BY <1>5, <1>8 DEF DeletedStaysErased
<1>16. PieceKept'
  BY <1>9, <1>11, <1>13, <1>14, <1>15 DEF PieceKept, SuggestionsYield
<1>17. offered' \in Offered
  BY <1>1, <1>2, <1>3, <1>4 DEF Offered, PieceInv, Typed
<1>18. read' \in BOOLEAN
  BY <1>1 DEF PieceInv, Typed
<1> QED BY <1>8, <1>10, <1>16, <1>17, <1>18

LEMMA AfterDeletion ==
  ASSUME PieceInv, NEW p \in Pages, DeleteItem(p)
  PROVE  /\ item' \in Items /\ item'.rev = item.rev + 1 /\ PieceKept'
         /\ offered' \in Offered /\ job' \in [Jobs -> JobRecords] /\ read' \in BOOLEAN
<1>1. item \in Items /\ Room /\ job \in [Jobs -> JobRecords]
  BY DEF DeleteItem, PieceInv, Typed
<1>2. PICK m : m = [f \in Fields |-> [v |-> 0, source |-> "none", locked |-> FALSE]]
  OBVIOUS
<1>3. m \in Metas /\ \A f \in Fields : m[f].v = 0 /\ m[f].source = "none" /\ ~m[f].locked
  BY <1>2 DEF Metas, Sources
<1>4. item' = [item EXCEPT !.val = Blank, !.life = "deleted", !.rev = item.rev + 1, !.meta = m]
  BY <1>2 DEF DeleteItem
<1>5. /\ item' \in Items /\ item'.val = Blank /\ item'.life = "deleted" /\ item'.meta = m
      /\ item'.rev = item.rev + 1
  <2>1. PICK n \in 1..MaxRevision : n = item.rev + 1
    BY <1>1, NextRevision
  <2> QED BY <1>1, <1>3, <1>4, <2>1, BlankTyped DEF Items, Lives
<1>6. MetaCounts'
  <2>1. item.rev \in Nat
    BY <1>1, PieceAssumption DEF Items
  <2> QED BY <1>3, <1>5, <2>1 DEF MetaCounts
<1>7. job' \in [Jobs -> JobRecords] /\ \A j \in Jobs : job'[j].at = "idle"
  <2>1. ASSUME NEW j \in Jobs
        PROVE  [job[j] EXCEPT !.at = "idle"] \in JobRecords /\ [job[j] EXCEPT !.at = "idle"].at = "idle"
    BY <1>1 DEF JobRecords
  <2> QED BY <2>1 DEF DeleteItem
<1>8. RunsBasedOnPast'
  BY <1>7 DEF RunsBasedOnPast
<1>9. SuggestionsYield'
  BY <1>3, <1>5, FieldList
     DEF DeleteItem, SuggestionsYield, LabelOutranks, ChosenCategoryIsReviewed, DeletedStaysErased
<1>10. offered' \in Offered /\ read' \in BOOLEAN
  BY NoPatchTyped DEF DeleteItem, Offered
<1> QED BY <1>5, <1>6, <1>7, <1>8, <1>9, <1>10 DEF PieceKept

(* Another picture, or another place in the wardrobe.                        *)
LEMMA AfterButton ==
  ASSUME PieceInv, NEW p \in Pages, PressButton(p)
  PROVE  item' \in Items /\ item'.rev = item.rev + 1 /\ PieceKept'
<1>1. item \in Items /\ Room /\ item.life # "deleted"
  BY DEF PressButton, PieceInv, Typed
<1>2. CASE SetCategory(p)
  <2>1. PICK c \in Categories : item' = Edited([f \in {"category"} |-> c])
    BY <1>2 DEF SetCategory
  <2>2. PICK q : q = [f \in {"category"} |-> c]
    OBVIOUS
  <2>3. q \in Patches
    BY <2>2, CategoryPatch
  <2> QED BY <1>1, <2>1, <2>2, <2>3, AfterEdit DEF PressButton
<1>3. CASE SetDisplay(p) \/ SetLifecycle(p)
  <2>1. PICK life \in Lives \ {"deleted"} :
          item' = [item EXCEPT !.life = life, !.rev = item.rev + 1]
    <3>1. CASE SetDisplay(p)
      <4>1. item' = [item EXCEPT !.life = item.life, !.rev = item.rev + 1]
        BY <1>1, <3>1 DEF SetDisplay, Items
      <4> QED BY <1>1, <4>1 DEF Items
    <3>2. CASE SetLifecycle(p)
      <4>1. PICK life : life = IF item.life = "active" THEN "archived" ELSE "active"
        OBVIOUS
      <4>2. item' = [item EXCEPT !.life = life, !.rev = item.rev + 1]
        BY <3>2, <4>1 DEF SetLifecycle
      <4>3. life \in Lives \ {"deleted"}
        BY <4>1 DEF Lives
      <4> QED BY <4>2, <4>3
    <3> QED BY <1>3, <3>1, <3>2
  <2>2. /\ item' \in Items /\ item'.val = item.val /\ item'.meta = item.meta
        /\ item'.life # "deleted" /\ item'.rev = item.rev + 1
    <3>1. PICK n \in 1..MaxRevision : n = item.rev + 1
      BY <1>1, NextRevision
    <3> QED BY <1>1, <2>1, <3>1 DEF Items
  <2>3. item'.review = item.review
    BY <1>1, <2>1 DEF Items
  <2>4. \A f \in Fields : item.meta[f].v \in Nat /\ item.rev \in Nat
    BY <1>1, PieceAssumption DEF Items, Metas
  <2>5. MetaCounts'
    BY <2>2, <2>4 DEF PieceInv, MetaCounts
  <2>6. RunsBasedOnPast'
    BY <2>2, <2>4, RunsStayBased DEF PieceInv, PressButton
  <2>7. LabelOutranks' /\ DeletedStaysErased'
    BY <2>2 DEF PressButton, PieceInv, SuggestionsYield, LabelOutranks, DeletedStaysErased
  <2>8. ChosenCategoryIsReviewed'
    BY <2>2, <2>3 DEF PieceInv, SuggestionsYield, ChosenCategoryIsReviewed
  <2> QED BY <2>2, <2>5, <2>6, <2>7, <2>8 DEF PieceKept, SuggestionsYield
<1> QED BY <1>2, <1>3 DEF PressButton

-----------------------------------------------------------------------------
(* Pages.                                                                    *)
LEMMA SnapshotShown == ASSUME Typed PROVE Snapshot \in Snapshots /\ Shown(Snapshot)
BY PieceAssumption DEF Typed, Snapshot, Snapshots, Items, Shown

(* A page stays true to a piece that stays or moves on.                      *)
MovesOn == item' \in Items /\ (item' = item \/ item'.rev = item.rev + 1)
MoreKeys == keys' = keys \/ keys' = keys + 1

LEMMA PageStays ==
  ASSUME PieceInv, MovesOn, MoreKeys, NEW x \in PageRecords, PageOK(x)
  PROVE  PageOK(x)'
<1>1. x.view.rev \in Nat /\ x.base.rev \in Nat /\ item.rev \in Nat /\ item'.rev \in Nat
  BY PieceAssumption DEF PageRecords, Snapshots, PieceInv, Typed, Items, MovesOn
<1>2. Shown(x.view)' /\ Shown(x.base)'
  BY <1>1 DEF PageOK, Shown, MovesOn
<1>3. RequestOK(x.request)'
  <2>1. keys \in Nat
    BY DEF PieceInv, Typed
  <2> QED BY <2>1 DEF PageOK, RequestOK, MoreKeys
<1> QED BY <1>2, <1>3 DEF PageOK

LEMMA PagesNext ==
  ASSUME \A q \in Pages : \E x : x = page'[q] /\ PageOK(x)'
  PROVE  PagesOK'
BY DEF PagesOK, PageOK, Shown, RequestOK

LEMMA PagesStay ==
  ASSUME PieceInv, MovesOn, MoreKeys, page' = page
  PROVE  page' \in [Pages -> PageRecords] /\ PagesOK'
<1>1. page \in [Pages -> PageRecords]
  BY DEF PieceInv, Typed
<1>2. ASSUME NEW q \in Pages PROVE \E x : x = page'[q] /\ PageOK(x)'
  <2>1. PICK x \in PageRecords : x = page[q] /\ PageOK(x)
    BY <1>1 DEF PieceInv, PagesOK
  <2> QED BY <2>1, PageStays
<1> QED BY <1>1, <1>2, PagesNext

(* A page that moves.                                                        *)
LEMMA PageMoves ==
  ASSUME PieceInv, MovesOn, MoreKeys, NEW p \in Pages, NEW y \in PageRecords, PageOK(y)',
         page' = [page EXCEPT ![p] = y]
  PROVE  page' \in [Pages -> PageRecords] /\ PagesOK'
<1>1. page \in [Pages -> PageRecords]
  BY DEF PieceInv, Typed
<1>2. page' \in [Pages -> PageRecords] /\ page'[p] = y /\ \A q \in Pages : q # p => page'[q] = page[q]
  BY <1>1
<1>3. ASSUME NEW q \in Pages PROVE \E x : x = page'[q] /\ PageOK(x)'
  <2>1. CASE q = p
    BY <1>2, <2>1
  <2>2. CASE q # p
    <3>1. PICK x \in PageRecords : x = page[q] /\ PageOK(x)
      BY <1>1 DEF PieceInv, PagesOK
    <3> QED BY <1>2, <2>2, <3>1, PageStays
  <2> QED BY <2>1, <2>2
<1> QED BY <1>2, <1>3, PagesNext

Rebased(x) == x.save = "idle" /\ x.view.rev # x.base.rev
LEMMA RenderedParts ==
  ASSUME NEW x \in PageRecords
  PROVE  /\ Rendered(x) \in PageRecords
         /\ Rendered(x).view = x.view /\ Rendered(x).request = x.request /\ Rendered(x).save = x.save
         /\ Rebased(x) => Rendered(x).base = x.view
         /\ ~Rebased(x) => Rendered(x) = x
         /\ \A f \in Dirty(x) : Rendered(x).draft[f] = x.draft[f]
<1>1. CASE ~Rebased(x)
  BY <1>1 DEF Rebased, Rendered
<1>2. CASE Rebased(x)
  <2>1. PICK d : d = [f \in Fields |-> IF f \in Dirty(x) THEN x.draft[f] ELSE x.view.val[f]]
    OBVIOUS
  <2>2. d \in Values
    <3>1. x.draft \in Values /\ x.view.val \in Values
      BY DEF PageRecords, Snapshots
    <3>2. d \in [Fields -> AnyValue]
      BY <2>1, <3>1 DEF Values
    <3> QED BY <2>1, <3>1, <3>2, FieldList DEF Values
  <2>3. Rendered(x) = [x EXCEPT !.draft = d, !.base = x.view]
    BY <1>2, <2>1 DEF Rebased, Rendered
  <2>4. /\ Rendered(x) \in PageRecords
        /\ Rendered(x).view = x.view /\ Rendered(x).request = x.request /\ Rendered(x).save = x.save
        /\ Rendered(x).base = x.view /\ Rendered(x).draft = d
    BY <2>2, <2>3 DEF PageRecords
  <2> QED BY <1>2, <2>1, <2>4 DEF Dirty
<1> QED BY <1>1, <1>2

(* A page is in order once it is rendered.                                   *)
LEMMA RenderedOK ==
  ASSUME NEW x \in PageRecords, Shown(x.view), Shown(x.base), x.base.rev <= x.view.rev,
         RequestOK(x.request),
         x.save # "idle" =>
           x.request.rev = x.base.rev /\ DOMAIN x.request.patch # {} /\ x.request # NoRequest
  PROVE  PageOK(Rendered(x))
<1>1. x.view.rev \in Nat
  BY DEF PageRecords, Snapshots
<1>2. CASE Rebased(x)
  BY <1>1, <1>2, RenderedParts DEF PageOK, Rebased
<1>3. CASE ~Rebased(x)
  BY <1>3, RenderedParts DEF PageOK, Rebased
<1> QED BY <1>2, <1>3

-----------------------------------------------------------------------------
(* What a step does to values and drafts, and every action.                  *)
ValuesMove ==
  item'.life # "deleted" =>
    \A f \in Fields :
      item.meta[f].locked /\ item'.val[f] # item.val[f] =>
        \/ Reversioned(f)
        \/ /\ f = "attributes" /\ \E g \in Fields : Reversioned(g)
           /\ item'.val.attributes = Fits(item'.val.category, item.val.attributes)
DraftMove(x, y) == y.base.rev = x.base.rev \/ \A f \in Dirty(x) : y.draft[f] = x.draft[f]
DraftsMove == \A p \in Pages : DraftMove(page[p], page'[p])

Outcomes == PieceInv' /\ ValuesMove /\ DraftsMove

LEMMA SameValues == ASSUME item'.val = item.val PROVE ValuesMove
BY DEF ValuesMove

LEMMA EditValues ==
  ASSUME item \in Items, NEW q \in Patches, DOMAIN q # {}, EditedAs(q)
  PROVE  ValuesMove
<1>1. ASSUME NEW f \in DOMAIN q PROVE f \in Fields /\ Reversioned(f)
  <2>1. f \in Fields
    BY PatchParts
  <2>2. item.meta[f].v \in Nat
    BY <2>1 DEF Items, Metas
  <2> QED BY <2>1, <2>2 DEF EditedAs, Changes, Reversioned
<1>2. \E g \in Fields : Reversioned(g)
  BY <1>1
<1>3. ASSUME NEW f \in Fields \ DOMAIN q, item'.val[f] # item.val[f]
      PROVE  f = "attributes" /\ item'.val.attributes = Fits(item'.val.category, item.val.attributes)
  BY <1>3 DEF EditedAs
<1> QED BY <1>1, <1>2, <1>3 DEF ValuesMove

LEMMA SuggestionValues ==
  ASSUME PieceInv, NEW j \in Jobs, Complete(j)
  PROVE  ValuesMove
<1>1. PICK s \in ValidOutputs(j), low \in BOOLEAN :
        item' = Suggested(j, Applied(j, job[j].base, s), s, low)
  BY DEF Complete
<1>2. PICK fs : fs = Applied(j, job[j].base, s)
  OBVIOUS
<1>3. \A f \in fs : ~item.meta[f].locked
  BY <1>2 DEF Applied, Unlocked
<1>4. item \in Items
  BY DEF PieceInv, Typed
<1>5. \A f \in Fields \ fs : item'.val[f] = item.val[f]
  <2>1. CASE fs = {}
    BY <1>1, <1>2, <2>1 DEF Suggested
  <2>2. CASE fs # {}
    <3>1. PICK v : v = [f \in Fields |-> IF f \in fs THEN s[f] ELSE item.val[f]]
      OBVIOUS
    <3>2. item'.val = v
      BY <1>1, <1>2, <1>4, <2>2, <3>1 DEF Suggested, Items
    <3> QED BY <3>1, <3>2
  <2> QED BY <2>1, <2>2
<1> QED BY <1>3, <1>5 DEF ValuesMove

LEMMA SameDrafts == ASSUME page' = page PROVE DraftsMove
BY DEF DraftsMove, DraftMove

LEMMA OneDraft ==
  ASSUME PieceInv, NEW p \in Pages, NEW y, page' = [page EXCEPT ![p] = y], DraftMove(page[p], y)
  PROVE  DraftsMove
<1>1. page'[p] = y /\ \A q \in Pages : q # p => page'[q] = page[q]
  BY DEF PieceInv, Typed
<1> QED BY <1>1 DEF DraftsMove, DraftMove

(* A step of a page that leaves the piece alone.                             *)
LEMMA OnlyPage ==
  ASSUME PieceInv, NEW p \in Pages, NEW x \in PageRecords, PageOK(Rendered(x)), Page(p, x), OnlyPages,
         DraftMove(page[p], Rendered(x))
  PROVE  Outcomes
<1>1. PICK y : y = Rendered(x)
  OBVIOUS
<1>2. y \in PageRecords /\ PageOK(y) /\ page' = [page EXCEPT ![p] = y] /\ DraftMove(page[p], y)
  BY <1>1, RenderedParts DEF Page
<1>3. MovesOn /\ MoreKeys
  BY DEF MovesOn, MoreKeys, OnlyPages, PieceInv, Typed
<1>4. PageOK(y)'
  BY <1>2, <1>3, PageStays
<1>5. page' \in [Pages -> PageRecords] /\ PagesOK'
  BY <1>2, <1>3, <1>4, PageMoves
<1>6. Typed'
  BY <1>5 DEF OnlyPages, PieceInv, Typed
<1>7. MetaCounts' /\ RunsBasedOnPast' /\ SuggestionsYield' /\ NothingUnseenReplaced'
  BY DEF OnlyPages, PieceInv, MetaCounts, RunsBasedOnPast, SuggestionsYield, LabelOutranks,
         ChosenCategoryIsReviewed, DeletedStaysErased, NothingUnseenReplaced
<1>8. ValuesMove
  BY SameValues DEF OnlyPages
<1> QED BY <1>2, <1>5, <1>6, <1>7, <1>8, OneDraft DEF Outcomes, PieceInv

LEMMA FetchStep == ASSUME PieceInv, NEW p \in Pages, Fetch(p) PROVE Outcomes
<1>1. page[p] \in PageRecords /\ PageOK(page[p])
  BY DEF PieceInv, Typed, PagesOK
<1>2. PICK z : z = Snapshot
  OBVIOUS
<1>3. z \in Snapshots /\ Shown(z) /\ z.rev = item.rev
  BY <1>2, SnapshotShown DEF PieceInv, Snapshot
<1>4. PICK x : x = [page[p] EXCEPT !.view = z]
  OBVIOUS
<1>5. /\ x \in PageRecords /\ x.view = z /\ x.base = page[p].base /\ x.draft = page[p].draft
      /\ x.request = page[p].request /\ x.save = page[p].save
  BY <1>1, <1>3, <1>4 DEF PageRecords
<1>6. PageOK(Rendered(x))
  <2>1. x.base.rev <= x.view.rev
    BY <1>1, <1>3, <1>5 DEF PageOK, Shown
  <2> QED BY <1>1, <1>3, <1>5, <2>1, RenderedOK DEF PageOK
<1>7. DraftMove(page[p], Rendered(x))
  <2>1. Dirty(x) = Dirty(page[p])
    BY <1>5 DEF Dirty
  <2> QED BY <1>5, <2>1, RenderedParts DEF DraftMove
<1> QED BY <1>2, <1>4, <1>5, <1>6, <1>7, OnlyPage DEF Fetch

LEMMA SetFieldStep == ASSUME PieceInv, NEW p \in Pages, SetField(p) PROVE Outcomes
<1>1. page[p] \in PageRecords /\ PageOK(page[p]) /\ page[p].draft \in Values
  BY DEF PieceInv, Typed, PagesOK, PageRecords
<1>2. PICK f \in Fields, v \in AnyValue :
        /\ Page(p, [page[p] EXCEPT !.draft[f] = v])
        /\ f = "category" => v \in Categories \cup {"none"}
        /\ f = "attributes" => v \subseteq Categories
        /\ f = "material" => v \in Materials
  <2>1. CASE \E c \in Categories : Page(p, [page[p] EXCEPT !.draft["category"] = c])
    BY <2>1, FieldList DEF AnyValue
  <2>2. CASE Page(p, [page[p] EXCEPT !.draft["material"] = "own"])
    BY <2>2, FieldList DEF AnyValue, Materials
  <2>3. CASE page[p].draft.category # "none"
             /\ Page(p, [page[p] EXCEPT !.draft["attributes"] =
                           page[p].draft.attributes \cup {page[p].draft.category}])
    <3>1. PICK v : v = page[p].draft.attributes \cup {page[p].draft.category}
      OBVIOUS
    <3>2. v \subseteq Categories
      BY <1>1, <2>3, <3>1 DEF Values
    <3>3. Page(p, [page[p] EXCEPT !.draft["attributes"] = v])
      BY <2>3, <3>1
    <3>4. v \in AnyValue /\ "attributes" \in Fields
      BY <3>2, FieldList DEF AnyValue
    <3> QED BY <3>2, <3>3, <3>4
  <2> QED BY <2>1, <2>2, <2>3 DEF SetField
<1>3. PICK d : d = [page[p].draft EXCEPT ![f] = v]
  OBVIOUS
<1>4. d \in Values
  <2>1. d \in [Fields -> AnyValue] /\ d[f] = v /\ \A g \in Fields \ {f} : d[g] = page[p].draft[g]
    BY <1>1, <1>3 DEF Values
  <2> QED BY <1>1, <1>2, <2>1, FieldList DEF Values
<1>5. PICK x : x = [page[p] EXCEPT !.draft = d]
  OBVIOUS
<1>6. /\ x \in PageRecords /\ x.view = page[p].view /\ x.base = page[p].base
      /\ x.request = page[p].request /\ x.save = page[p].save
  BY <1>1, <1>4, <1>5 DEF PageRecords
<1>7. Page(p, x)
  <2>1. x = [page[p] EXCEPT !.draft[f] = v]
    BY <1>1, <1>3, <1>5 DEF PageRecords
  <2> QED BY <1>2, <2>1
<1>8. Rendered(x) = x /\ PageOK(x)
  BY <1>1, <1>6, RenderedParts DEF PageOK, Rebased
<1>9. DraftMove(page[p], x)
  BY <1>6 DEF DraftMove
<1> QED BY <1>6, <1>7, <1>8, <1>9, OnlyPage DEF SetField

LEMMA AnsweredStep == ASSUME PieceInv, NEW p \in Pages, SaveAnswered(p) PROVE Outcomes
<1>1. page[p] \in PageRecords /\ PageOK(page[p])
  BY DEF PieceInv, Typed, PagesOK
<1>2. PICK r : r = IF page[p].save = "lost" THEN page[p].request ELSE NoRequest
  OBVIOUS
<1>3. r \in Requests /\ RequestOK(r)
  <2>1. NoRequest \in Requests
    BY NoPatchTyped, PieceAssumption DEF NoRequest, Requests
  <2> QED BY <1>1, <1>2, <2>1 DEF PageRecords, PageOK, RequestOK
<1>4. PICK x : x = [page[p] EXCEPT !.save = "idle", !.request = r]
  OBVIOUS
<1>5. /\ x \in PageRecords /\ x.view = page[p].view /\ x.base = page[p].base
      /\ x.draft = page[p].draft /\ x.request = r /\ x.save = "idle"
  BY <1>1, <1>3, <1>4 DEF PageRecords, Saves
<1>6. PageOK(Rendered(x))
  BY <1>1, <1>3, <1>5, RenderedOK DEF PageOK
<1>7. DraftMove(page[p], Rendered(x))
  <2>1. Dirty(x) = Dirty(page[p])
    BY <1>5 DEF Dirty
  <2> QED BY <1>5, <2>1, RenderedParts DEF DraftMove
<1> QED BY <1>2, <1>4, <1>5, <1>6, <1>7, OnlyPage DEF SaveAnswered

LEMMA PieceStays ==
  ASSUME PieceInv, UNCHANGED <<item, job, read>>
  PROVE  PieceKept' /\ ValuesMove /\ MovesOn
<1>1. PieceKept'
  BY DEF PieceInv, PieceKept, MetaCounts, RunsBasedOnPast, SuggestionsYield, LabelOutranks,
         ChosenCategoryIsReviewed, DeletedStaysErased
<1> QED BY <1>1, SameValues DEF PieceInv, Typed, MovesOn

LEMMA SaveStep == ASSUME PieceInv, NEW p \in Pages, Save(p) PROVE Outcomes
<1>1. PICK x \in PageRecords : x = page[p] /\ PageOK(x)
  BY DEF PieceInv, Typed, PagesOK
<1>2. PICK same \in BOOLEAN : same <=> x.request.patch = PatchOf(x) /\ x.request.rev = x.view.rev
  OBVIOUS
<1>3. PICK k : k = IF same THEN x.request.key ELSE keys + 1
  OBVIOUS
<1>4. PICK q : q = PatchOf(x)
  OBVIOUS
<1>5. PICK r : r = [key |-> k, patch |-> q, rev |-> x.view.rev]
  OBVIOUS
<1>6. PICK y : y = [x EXCEPT !.save = "sent", !.request = r]
  OBVIOUS
<1>7. /\ x.save = "idle" /\ Dirty(x) # {} /\ Page(p, y)
      /\ IF same THEN UNCHANGED keys ELSE keys < MaxKeys /\ keys' = keys + 1
      /\ UNCHANGED <<item, offered, job, label, read, done, unseen, faults>>
  BY <1>1, <1>2, <1>3, <1>4, <1>5, <1>6 DEF Save
<1>8. q \in Patches /\ DOMAIN q # {}
  BY <1>4, <1>7, PatchTyped DEF PatchOf, Dirty, PageRecords
<1>9. k \in 1..keys' /\ keys' \in 0..MaxKeys /\ MoreKeys
  <2>1. keys \in 0..MaxKeys /\ MaxKeys \in Nat
    BY PieceAssumption DEF PieceInv, Typed
  <2>2. CASE same
    <3>1. x.request # NoRequest
      BY <1>2, <1>4, <1>8, <2>2, NoPatchTyped DEF NoRequest
    <3> QED BY <1>1, <1>3, <1>7, <2>1, <2>2, <3>1 DEF PageOK, RequestOK, MoreKeys
  <2>3. CASE ~same
    BY <1>3, <1>7, <2>1, <2>3 DEF MoreKeys
  <2> QED BY <2>2, <2>3
<1>10. r \in Requests /\ RequestOK(r)' /\ r # NoRequest /\ r.patch = q /\ r.rev = x.view.rev
  <2>1. k \in 0..MaxKeys /\ k # 0 /\ x.view.rev \in Nat
    BY <1>9, PieceAssumption DEF PageRecords, Snapshots
  <2> QED BY <1>5, <1>8, <1>9, <2>1 DEF Requests, RequestOK, NoRequest
<1>11. /\ y \in PageRecords /\ y.view = x.view /\ y.base = x.base /\ y.request = r /\ y.save = "sent"
  BY <1>6, <1>10 DEF PageRecords, Saves
<1>12. Rendered(y) = y /\ page' = [page EXCEPT ![p] = y]
  BY <1>7, <1>11 DEF Rendered, Page
<1>13. PageOK(y)'
  BY <1>1, <1>7, <1>8, <1>10, <1>11 DEF PageOK, Shown
<1>14. PieceKept' /\ ValuesMove /\ MovesOn
  BY <1>7, PieceStays
<1>15. page' \in [Pages -> PageRecords] /\ PagesOK'
  BY <1>9, <1>11, <1>12, <1>13, <1>14, PageMoves
<1>16. DraftsMove
  BY <1>1, <1>11, <1>12, OneDraft DEF DraftMove
<1>17. Typed' /\ NothingUnseenReplaced'
  BY <1>7, <1>9, <1>15 DEF PieceInv, Typed, NothingUnseenReplaced
<1> QED BY <1>14, <1>15, <1>16, <1>17 DEF Outcomes, PieceInv, PieceKept

LEMMA OutcomeSaved ==
  ASSUME NEW q, NEW rev
  PROVE  /\ Outcome(q, rev) \in {"refused", "conflict", "saved"}
         /\ Outcome(q, rev) = "saved" => item.life # "deleted" /\ rev = item.rev
BY DEF Outcome, AtRevision

LEMMA FaultTyped == ASSUME PieceInv, Fault PROVE faults' \in 0..MaxFaults
BY PieceAssumption DEF PieceInv, Typed, Fault

LEMMA UpdateStep == ASSUME PieceInv, NEW p \in Pages, UpdateItem(p) PROVE Outcomes
<1>1. PICK x \in PageRecords : x = page[p] /\ PageOK(x) /\ x.save = "sent"
  BY DEF PieceInv, Typed, PagesOK, UpdateItem
<1>2. PICK q \in Patches : q = x.request.patch /\ DOMAIN q # {} /\ x.request.rev = x.base.rev
  BY <1>1 DEF PageOK, PageRecords, Requests
<1>3. PICK result : result = IF x.request.key \in done THEN "saved" ELSE Outcome(q, x.request.rev)
  OBVIOUS
<1>4. result \in {"refused", "conflict", "saved"}
  BY <1>3, OutcomeSaved
<1>5. PICK at \in {"lost", result} :
        /\ page' = [page EXCEPT ![p].save = at]
        /\ UNCHANGED faults \/ Fault
        /\ \/ UNCHANGED <<item, done, unseen>>
           \/ /\ result = "saved" /\ x.request.key \notin done
              /\ Room /\ item' = Edited(q) /\ done' = done \cup {x.request.key}
              /\ unseen' = (unseen \/ \E f \in DOMAIN q : item.val[f] # x.base.val[f])
  BY <1>1, <1>2, <1>3 DEF UpdateItem
<1>6. UNCHANGED <<offered, job, label, read, keys>>
  BY DEF UpdateItem
<1>7. /\ PieceKept' /\ ValuesMove /\ MovesOn
      /\ done' \subseteq 1..MaxKeys /\ ~unseen'
  <2>1. CASE UNCHANGED <<item, done, unseen>>
    BY <1>6, <2>1, PieceStays DEF PieceInv, Typed, NothingUnseenReplaced
  <2>2. CASE /\ result = "saved" /\ x.request.key \notin done
             /\ Room /\ item' = Edited(q) /\ done' = done \cup {x.request.key}
             /\ unseen' = (unseen \/ \E f \in DOMAIN q : item.val[f] # x.base.val[f])
    <3>1. item.life # "deleted" /\ x.request.rev = item.rev
      BY <1>3, <2>2, OutcomeSaved
    <3>2. PieceKept' /\ MovesOn
      BY <1>6, <2>2, <3>1, AfterEdit DEF MovesOn
    <3>3. item \in Items
      BY DEF PieceInv, Typed
    <3>4. ValuesMove
      BY <1>2, <2>2, <3>3, EditEdits, EditValues
    <3>5. x.base.val = item.val
      BY <1>1, <1>2, <3>1 DEF PageOK, Shown
    <3>6. ~unseen'
      BY <2>2, <3>5 DEF PieceInv, NothingUnseenReplaced
    <3>7. x.request.key \in 1..MaxKeys
      <4>1. x.request.key \in 1..keys /\ keys \in 0..MaxKeys /\ MaxKeys \in Nat
        BY <1>1, PieceAssumption DEF PageOK, RequestOK, PieceInv, Typed
      <4> QED BY <4>1
    <3>8. done' \subseteq 1..MaxKeys
      BY <2>2, <3>7 DEF PieceInv, Typed
    <3> QED BY <3>2, <3>4, <3>6, <3>8
  <2> QED BY <1>5, <2>1, <2>2
<1>8. PICK y : y = [x EXCEPT !.save = at]
  OBVIOUS
<1>9. /\ y \in PageRecords /\ y.view = x.view /\ y.base = x.base /\ y.request = x.request
      /\ y.save = at /\ page' = [page EXCEPT ![p] = y]
  BY <1>1, <1>4, <1>5, <1>8 DEF PageRecords, Saves
<1>10. PageOK(y)
  BY <1>1, <1>4, <1>9 DEF PageOK
<1>11. MoreKeys
  BY <1>6 DEF MoreKeys
<1>12. page' \in [Pages -> PageRecords] /\ PagesOK'
  BY <1>7, <1>9, <1>10, <1>11, PageStays, PageMoves
<1>13. DraftsMove
  BY <1>1, <1>9, OneDraft DEF DraftMove
<1>14. faults' \in 0..MaxFaults /\ item' \in Items
  BY <1>5, <1>7, FaultTyped DEF PieceInv, Typed, MovesOn
<1>15. Typed'
  BY <1>6, <1>7, <1>12, <1>14 DEF PieceInv, Typed
<1> QED BY <1>7, <1>12, <1>13, <1>15 DEF Outcomes, PieceInv, PieceKept, NothingUnseenReplaced

(* A step of the piece that leaves the pages alone.                          *)
LEMMA PagesAside ==
  ASSUME PieceInv, UNCHANGED <<done, page, unseen, keys, faults>>, MovesOn, PieceKept', ValuesMove,
         offered' \in Offered, job' \in [Jobs -> JobRecords], read' \in BOOLEAN
  PROVE  Outcomes
<1>1. PagesOK' /\ DraftsMove
  BY PagesStay, SameDrafts DEF MoreKeys
<1>2. Typed' /\ NothingUnseenReplaced'
  BY DEF PieceInv, Typed, MovesOn, NothingUnseenReplaced
<1> QED BY <1>1, <1>2 DEF Outcomes, PieceInv, PieceKept

LEMMA OfferStep == ASSUME PieceInv, NEW p \in Pages, UseOffer(p) PROVE Outcomes
<1>1. PICK f \in Offers(page[p].view) :
        LET patch == [g \in {f} |-> page[p].view.offered.val[f]] IN
        /\ Outcome(patch, page[p].view.rev) = "saved" /\ Room
        /\ item' = Edited(patch)
        /\ UNCHANGED <<offered, job, label, read, done, page, unseen, keys, faults>>
  BY DEF UseOffer
<1>2. PICK s \in Patches : s = page[p].view.offered.val
  BY DEF PieceInv, Typed, PageRecords, Snapshots, Offered
<1>3. f \in DOMAIN s
  BY <1>2 DEF Offers
<1>4. PICK q : q = [g \in {f} |-> s[f]]
  OBVIOUS
<1>5. q \in Patches /\ DOMAIN q # {}
  <2>1. q = [g \in {f} |-> s[g]]
    BY <1>4
  <2> QED BY <1>3, <1>4, <2>1, SubPatch
<1>6. /\ Outcome(q, page[p].view.rev) = "saved" /\ Room /\ item' = Edited(q)
      /\ UNCHANGED <<offered, job, label, read, done, page, unseen, keys, faults>>
  BY <1>1, <1>2, <1>4
<1>7. item.life # "deleted" /\ item \in Items
  BY <1>6, OutcomeSaved DEF PieceInv, Typed
<1>8. MovesOn /\ PieceKept'
  BY <1>5, <1>6, <1>7, AfterEdit DEF MovesOn
<1>9. ValuesMove
  BY <1>5, <1>6, <1>7, EditEdits, EditValues
<1> QED BY <1>6, <1>8, <1>9, PagesAside DEF PieceInv, Typed

LEMMA ButtonStep == ASSUME PieceInv, NEW p \in Pages, PressButton(p) PROVE Outcomes
<1>1. MovesOn /\ PieceKept'
  BY AfterButton DEF MovesOn
<1>2. item \in Items
  BY DEF PieceInv, Typed
<1>3. ValuesMove
  <2>1. CASE SetDisplay(p) \/ SetLifecycle(p)
    <3>1. item'.val = item.val
      BY <1>2, <2>1 DEF SetDisplay, SetLifecycle, Items
    <3> QED BY <3>1, SameValues
  <2>2. CASE SetCategory(p)
    <3>1. PICK c \in Categories : item' = Edited([f \in {"category"} |-> c])
      BY <2>2 DEF SetCategory
    <3>2. PICK q : q = [f \in {"category"} |-> c]
      OBVIOUS
    <3>3. q \in Patches /\ DOMAIN q # {}
      BY <3>2, CategoryPatch
    <3> QED BY <1>2, <3>1, <3>2, <3>3, EditEdits, EditValues DEF PressButton
  <2> QED BY <2>1, <2>2 DEF PressButton
<1> QED BY <1>1, <1>3, PagesAside DEF PressButton, PieceInv, Typed

LEMMA DeleteStep == ASSUME PieceInv, NEW p \in Pages, DeleteItem(p) PROVE Outcomes
<1>1. item'.life = "deleted"
  BY DEF DeleteItem, PieceInv, Typed, Items
<1>2. ValuesMove
  BY <1>1 DEF ValuesMove
<1> QED BY <1>2, AfterDeletion, PagesAside DEF DeleteItem, MovesOn

-----------------------------------------------------------------------------
(* Jobs.                                                                     *)
LEMMA JobSteps ==
  ASSUME PieceInv, UNCHANGED <<item, offered, read, done, page, unseen, keys, faults>>,
         NEW j \in Jobs, NEW x \in JobRecords, job' = [job EXCEPT ![j] = x],
         item.life = "deleted" => x.at = "idle",
         x.at = "running" =>
           x.base \in [Fields -> Nat] /\ \A f \in Fields : x.base[f] <= item.meta[f].v
  PROVE  Outcomes
<1>1. job \in [Jobs -> JobRecords]
  BY DEF PieceInv, Typed
<1>2. job' \in [Jobs -> JobRecords] /\ job'[j] = x /\ \A k \in Jobs : k # j => job'[k] = job[k]
  BY <1>1
<1>3. RunsBasedOnPast'
  BY <1>2 DEF PieceInv, RunsBasedOnPast
<1>4. MetaCounts' /\ SuggestionsYield'
  BY DEF PieceInv, MetaCounts, SuggestionsYield, LabelOutranks, ChosenCategoryIsReviewed,
         DeletedStaysErased
<1>5. PieceKept' /\ MovesOn
  BY <1>3, <1>4 DEF PieceKept, MovesOn, PieceInv, Typed
<1> QED BY <1>2, <1>5, SameValues, PagesAside DEF PieceInv, Typed

LEMMA AttachStep == ASSUME PieceInv, AttachLabel PROVE Outcomes
<1>1. "label" \in Jobs /\ job["label"] \in JobRecords /\ job["label"].runs < MaxJobs /\ MaxJobs \in Nat
  BY PieceAssumption DEF AttachLabel, PieceInv, Typed, Jobs
<1>2. PICK n \in 0..MaxJobs : n = job["label"].runs + 1
  BY <1>1 DEF JobRecords
<1>3. PICK x : x = [job["label"] EXCEPT !.at = "queued", !.runs = n]
  OBVIOUS
<1>4. x \in JobRecords /\ x.at = "queued"
  BY <1>1, <1>3 DEF JobRecords
<1>5. job' = [job EXCEPT !["label"] = x]
  BY <1>2, <1>3 DEF AttachLabel
<1> QED BY <1>1, <1>4, <1>5, JobSteps DEF AttachLabel

LEMMA RetryStep == ASSUME PieceInv, RetryTags PROVE Outcomes
<1>1. "vision" \in Jobs /\ job["vision"] \in JobRecords /\ job["vision"].runs < MaxJobs /\ MaxJobs \in Nat
  BY PieceAssumption DEF RetryTags, PieceInv, Typed, Jobs
<1>2. PICK n \in 0..MaxJobs : n = job["vision"].runs + 1
  BY <1>1 DEF JobRecords
<1>3. PICK x : x = [job["vision"] EXCEPT !.at = "queued", !.runs = n]
  OBVIOUS
<1>4. x \in JobRecords /\ x.at = "queued"
  BY <1>1, <1>3 DEF JobRecords
<1>5. job' = [job EXCEPT !["vision"] = x]
  BY <1>2, <1>3 DEF RetryTags
<1> QED BY <1>1, <1>4, <1>5, JobSteps DEF RetryTags

LEMMA StopStep ==
  ASSUME PieceInv, NEW j \in Jobs, job' = [job EXCEPT ![j].at = "idle"],
         UNCHANGED <<item, offered, read, done, page, unseen, keys, faults>>
  PROVE  Outcomes
<1>1. PICK x : x = [job[j] EXCEPT !.at = "idle"]
  OBVIOUS
<1>2. x \in JobRecords /\ x.at = "idle"
  BY <1>1 DEF PieceInv, Typed, JobRecords
<1>3. job' = [job EXCEPT ![j] = x]
  BY <1>1
<1> QED BY <1>2, <1>3, JobSteps

LEMMA ClaimStep == ASSUME PieceInv, NEW j \in Jobs, Claim(j) PROVE Outcomes
<1>1. PICK base : base = [f \in Fields |-> item.meta[f].v]
  OBVIOUS
<1>2. base \in [Fields -> Nat] /\ \A f \in Fields : base[f] <= item.meta[f].v
  BY <1>1 DEF PieceInv, Typed, Items, Metas
<1>3. PICK x : x = [job[j] EXCEPT !.at = "running", !.base = base]
  OBVIOUS
<1>4. x \in JobRecords /\ x.at = "running" /\ x.base = base
  BY <1>2, <1>3 DEF PieceInv, Typed, JobRecords, Bases
<1>5. job' = [job EXCEPT ![j] = x]
  BY <1>1, <1>3 DEF Claim
<1>6. item.life # "deleted"
  BY DEF Claim, PieceInv, RunsBasedOnPast
<1> QED BY <1>2, <1>4, <1>5, <1>6, JobSteps DEF Claim

LEMMA CompleteStep == ASSUME PieceInv, NEW j \in Jobs, Complete(j) PROVE Outcomes
BY AfterSuggestion, SuggestionValues, PagesAside DEF Complete, MovesOn

-----------------------------------------------------------------------------
(* The beginning, the steps, and what the invariant says of every behavior.  *)
LEMMA InitPiece == ASSUME Init PROVE PieceInv
<1>1. 1 \in 1..MaxRevision /\ {0, 1} \subseteq 0..MaxJobs /\ 0 \in 0..MaxKeys /\ 0 \in 0..MaxFaults
  BY PieceAssumption
<1>2. PICK m : m = [f \in Fields |-> [v |-> 0, source |-> "none", locked |-> FALSE]]
  OBVIOUS
<1>3. m \in Metas /\ \A f \in Fields : m[f].v = 0 /\ m[f].source = "none" /\ ~m[f].locked
  BY <1>2 DEF Metas, Sources
<1>4. item = [val |-> Blank, meta |-> m, rev |-> 1, review |-> TRUE, life |-> "active"]
  BY <1>2 DEF Init
<1>5. item \in Items
  BY <1>1, <1>3, <1>4, BlankTyped DEF Items, Lives
<1>6. offered \in Offered
  BY NoPatchTyped DEF Init, Offered
<1>7. job \in [Jobs -> JobRecords] /\ \A j \in Jobs : job[j].at # "running"
  <2>1. ASSUME NEW j \in Jobs
        PROVE  [at |-> IF j = "vision" THEN "queued" ELSE "idle", base |-> NoPatch,
                runs |-> IF j = "vision" THEN 1 ELSE 0] \in JobRecords
    BY <1>1 DEF JobRecords, Bases
  <2> QED BY <2>1 DEF Init
<1>8. PICK z : z = Snapshot
  OBVIOUS
<1>9. z \in Snapshots /\ Shown(z)
  <2>1. item.rev \in Nat
    BY <1>4
  <2> QED BY <1>5, <1>6, <1>8, <2>1 DEF Snapshot, Snapshots, Shown, Items
<1>10. PICK x : x = [view |-> z, base |-> z, draft |-> Blank, request |-> NoRequest, save |-> "idle"]
  OBVIOUS
<1>11. x \in PageRecords
  <2>1. NoRequest \in Requests
    BY NoPatchTyped, PieceAssumption DEF NoRequest, Requests
  <2> QED BY <1>9, <1>10, <2>1, BlankTyped DEF PageRecords, Saves
<1>12. PageOK(x)
  BY <1>9, <1>10 DEF PageOK, RequestOK, Snapshots
<1>13. page = [p \in Pages |-> x]
  BY <1>8, <1>10 DEF Init
<1>14. Typed
  BY <1>1, <1>5, <1>6, <1>7, <1>11, <1>13 DEF Init, Typed
<1>15. PagesOK
  BY <1>12, <1>13 DEF PagesOK
<1>16. MetaCounts /\ RunsBasedOnPast
  BY <1>3, <1>4, <1>7 DEF MetaCounts, RunsBasedOnPast
<1>17. SuggestionsYield /\ NothingUnseenReplaced
  BY <1>3, <1>4, FieldList DEF Init, SuggestionsYield, LabelOutranks, ChosenCategoryIsReviewed,
     DeletedStaysErased, NothingUnseenReplaced
<1> QED BY <1>14, <1>15, <1>16, <1>17 DEF PieceInv

LEMMA NextOutcomes == ASSUME PieceInv, Next PROVE Outcomes
<1>1. CASE \E p \in Pages : Member(p)
  BY <1>1, FetchStep, SetFieldStep, SaveStep, UpdateStep, AnsweredStep, OfferStep, ButtonStep,
     DeleteStep DEF Member
<1>2. CASE AttachLabel \/ RetryTags
  BY <1>2, AttachStep, RetryStep
<1>3. CASE RemoveLabel
  BY <1>3, StopStep DEF RemoveLabel, Jobs
<1>4. CASE \E j \in Jobs : Claim(j) \/ Complete(j) \/ Reject(j)
  BY <1>4, ClaimStep, CompleteStep, StopStep DEF Reject
<1> QED BY <1>1, <1>2, <1>3, <1>4 DEF Next

(* The invariant of the edits: versions count, runs work from the past, and  *)
(* a page at the piece's revision shows the piece. [update_item,             *)
(* apply_suggestion, PieceEditor]                                            *)
THEOREM PieceInvariance == Spec => []PieceInv
<1>1. PieceInv /\ [Next]_vars => PieceInv'
  <2>1. ASSUME PieceInv, UNCHANGED vars PROVE PieceInv'
    BY <2>1 DEF vars, PieceInv, Typed, MetaCounts, RunsBasedOnPast, PagesOK, PageOK, Shown, RequestOK,
       SuggestionsYield, LabelOutranks, ChosenCategoryIsReviewed, DeletedStaysErased,
       NothingUnseenReplaced
  <2> QED BY <2>1, NextOutcomes DEF Outcomes
<1> QED BY <1>1, InitPiece, PTL DEF Spec

(* Values, revisions, jobs and saves stay what they are declared to be; a    *)
(* page shows a revision the piece had and does not go back behind the one   *)
(* its draft is based on.                          [update_item, PieceEditor] *)
THEOREM PieceTypes == Spec => []TypeOK
<1>1. ASSUME PieceInv PROVE TypeOK
  <2>1. /\ item \in Items /\ page \in [Pages -> PageRecords] /\ job \in [Jobs -> JobRecords]
        /\ done \subseteq 1..MaxKeys /\ keys \in 0..MaxKeys /\ faults \in 0..MaxFaults
    BY <1>1 DEF PieceInv, Typed
  <2>2. ASSUME NEW f \in Fields
        PROVE  /\ item.meta[f].v \in 0..MaxRevision /\ item.meta[f].source \in {"none", "user"} \cup Jobs
               /\ item.meta[f].locked => item.meta[f].source = "user"
    <3>1. item.meta[f] \in [v : Nat, source : Sources, locked : BOOLEAN] /\ item.rev \in 1..MaxRevision
      BY <2>1 DEF Items, Metas
    <3>2. /\ item.meta[f].v < item.rev /\ (item.meta[f].locked <=> item.meta[f].source = "user")
      BY <1>1 DEF PieceInv, MetaCounts
    <3> QED BY <3>1, <3>2, PieceAssumption DEF Sources
  <2>3. ASSUME NEW p \in Pages
        PROVE  /\ page[p].save \in {"idle", "sent", "saved", "conflict", "refused", "lost"}
               /\ page[p].save # "idle" => page[p].request # NoRequest
               /\ page[p].base.rev <= page[p].view.rev /\ page[p].view.rev <= item.rev
    <3>1. page[p].save \in Saves
      BY <2>1 DEF PageRecords
    <3>2. PageOK(page[p])
      BY <1>1 DEF PieceInv, PagesOK
    <3> QED BY <3>1, <3>2 DEF PageOK, Shown, Saves
  <2>4. \A j \in Jobs : job[j].at \in {"idle", "queued", "running"} /\ job[j].runs \in 0..MaxJobs
    BY <2>1 DEF JobRecords
  <2>5. /\ item.val.category \in Categories \cup {"none"} /\ item.val.attributes \subseteq Categories
        /\ item.val.material \in Materials
        /\ item.rev \in 1..MaxRevision /\ item.life \in {"active", "archived", "deleted"}
    BY <2>1 DEF Items, Values, Lives
  <2> QED BY <2>1, <2>2, <2>3, <2>4, <2>5 DEF TypeOK
<1> QED BY <1>1, PieceInvariance, PTL

(* A guess yields to a label and to the member, and every suggestion to a    *)
(* deletion, in whatever order they come. [apply_suggestion, update_item]    *)
THEOREM SuggestionsAlwaysYield == Spec => []SuggestionsYield
<1>1. PieceInv => SuggestionsYield
  BY DEF PieceInv
<1> QED BY <1>1, PieceInvariance, PTL

(* No accepted edit replaces a value its page was not based on, with any     *)
(* number of pages, lost answers and retries. [update_item, PieceEditor]     *)
THEOREM NothingReplacedUnseen == Spec => []NothingUnseenReplaced
<1>1. PieceInv => NothingUnseenReplaced
  BY DEF PieceInv
<1> QED BY <1>1, PieceInvariance, PTL

(* What a member set, and what a member typed, stays, and nothing is         *)
(* replaced unseen. [apply_suggestion, update_item, PieceEditor]             *)
THEOREM MemberValuesAlwaysStay == Spec => ValuesStay
<1>1. PieceInv /\ [Next]_vars =>
        [item'.life # "deleted" =>
           \A f \in Fields :
             item.meta[f].locked /\ item'.val[f] # item.val[f] =>
               \/ Reversioned(f)
               \/ /\ f = "attributes" /\ \E g \in Fields : Reversioned(g)
                  /\ item'.val.attributes = Fits(item'.val.category, item.val.attributes)]_vars
  BY NextOutcomes DEF Outcomes, ValuesMove
<1>2. PieceInv /\ [Next]_vars =>
        [\A p \in DOMAIN page :
           page'[p].base.rev # page[p].base.rev =>
             \A f \in Dirty(page[p]) : page'[p].draft[f] = page[p].draft[f]]_vars
  <2>1. PieceInv => DOMAIN page = Pages
    BY DEF PieceInv, Typed
  <2> QED BY <2>1, NextOutcomes DEF Outcomes, DraftsMove, DraftMove
<1> QED BY <1>1, <1>2, PieceInvariance, NothingReplacedUnseen, PTL
        DEF Spec, ValuesStay, MemberValuesStay, DraftKept

-----------------------------------------------------------------------------
(* The mask (MaskEdits).                                                     *)
MaskBounds(m) == {m.revisions, m.history} \subseteq Nat \ {0} /\ {m.objects, m.refreshes, m.faults} \subseteq Nat

KeptCells(m) == [cells : SUBSET m.cells, photo : 0..m.revisions]
Garments(m) == [rev : 0..m.revisions, photo : 0..m.revisions, mask : KeptCells(m)]
MaskSaves(m) ==
  [at : {"idle", "saved", "error"}] \cup
  [at : {"put", "rpc"}, rev : 0..m.revisions, mask : KeptCells(m), object : 0..m.objects]
EditorRecords(m) ==
  [open : BOOLEAN, item : Garments(m), ready : BOOLEAN, canvas : KeptCells(m), initial : SUBSET m.cells,
   history : Seq(SUBSET m.cells), whole : BOOLEAN, tint : SUBSET m.cells, stale : BOOLEAN,
   drawing : BOOLEAN, save : MaskSaves(m)]
CutoutJobs(m) ==
  [at : {"none"}] \cup [at : {"queued"}, object : {0}] \cup
  [at : {"queued"}, object : 1..m.objects, mask : SUBSET m.cells]

(* What an editor shows, and can undo while its data stays as it was loaded. *)
EditorOK(m, n, x) ==
  /\ Len(x.history) <= m.history
  /\ x.drawing => x.ready /\ x.history # <<>>
  /\ ~x.ready => x.history = <<>>
  /\ x.save.at = "rpc" => x.save.object > 0
  /\ x.ready /\ ~x.stale => x.tint = m.cells \ x.canvas.cells
  /\ x.ready /\ n = 0 =>
       (x.whole => x.initial = IF x.history = <<>> THEN x.canvas.cells ELSE x.history[1])

MaskTyped(m) ==
  /\ garment \in Garments(m) /\ garment.rev > 0 /\ garment.photo \in 1..garment.rev
  /\ maskJob \in CutoutJobs(m) /\ corrected \in [1..m.revisions -> Nat] /\ misfit \in BOOLEAN
  /\ store \subseteq 1..m.objects /\ objects \in 0..m.objects
  /\ ed \in [m.editors -> EditorRecords(m)]
  /\ refreshes \in 0..m.refreshes /\ maskFaults \in 0..m.faults

(* Revisions to come are not corrected yet.                                  *)
CorrectedOnce(m) ==
  \A r \in 1..m.revisions : corrected[r] <= 1 /\ (r >= garment.rev => corrected[r] = 0)

MaskInv(m) ==
  /\ MaskTyped(m) /\ CorrectedOnce(m)
  /\ \A e \in m.editors : EditorOK(m, refreshes, ed[e])

(* A step of an editor: its record, and what it may undo from there.         *)
LEMMA EditorStep ==
  ASSUME NEW m, MaskBounds(m), MaskInv(m), NEW e \in m.editors, NEW y \in EditorRecords(m),
         ed' = [ed EXCEPT ![e] = y], EditorOK(m, refreshes', y),
         \/ UNCHANGED refreshes
         \/ refreshes < m.refreshes /\ refreshes' = refreshes + 1,
         MaskTyped(m) /\ ed' \in [m.editors -> EditorRecords(m)] => MaskTyped(m)',
         UNCHANGED <<garment, corrected>> \/ CorrectedOnce(m)'
  PROVE  MaskInv(m)'
<1>0. ed' \in [m.editors -> EditorRecords(m)]
  BY DEF MaskInv, MaskTyped
<1>1. MaskTyped(m)'
  BY <1>0 DEF MaskInv
<1>2. CorrectedOnce(m)'
  BY DEF MaskInv, CorrectedOnce
<1>3. ASSUME NEW u \in m.editors PROVE EditorOK(m, refreshes', ed'[u])
  <2>1. ed'[u] = IF u = e THEN y ELSE ed[u]
    BY DEF MaskInv, MaskTyped
  <2>2. refreshes' = 0 => refreshes = 0
    BY DEF MaskInv, MaskTyped
  <2>3. EditorOK(m, refreshes, ed[u])
    BY DEF MaskInv
  <2> QED BY <2>1, <2>2, <2>3 DEF EditorOK
<1> QED BY <1>1, <1>2, <1>3 DEF MaskInv

LEMMA OnlyEditorStep ==
  ASSUME NEW m, MaskBounds(m), MaskInv(m), NEW e \in m.editors, NEW y \in EditorRecords(m),
         ed' = [ed EXCEPT ![e] = y], EditorOK(m, refreshes', y),
         \/ UNCHANGED refreshes
         \/ refreshes < m.refreshes /\ refreshes' = refreshes + 1,
         UNCHANGED <<garment, maskJob, corrected, misfit, store, objects, maskFaults>>
  PROVE  MaskInv(m)'
<1>1. refreshes' \in 0..m.refreshes
  BY DEF MaskInv, MaskTyped, MaskBounds
<1>2. MaskTyped(m) /\ ed' \in [m.editors -> EditorRecords(m)] => MaskTyped(m)'
  BY <1>1 DEF MaskTyped
<1> QED BY <1>2, EditorStep

-----------------------------------------------------------------------------
(* Opening and loading.                                                      *)
LEMMA ClosedTyped ==
  ASSUME NEW m, MaskBounds(m)
  PROVE  Mask(m)!Closed \in EditorRecords(m) /\ \A n : EditorOK(m, n, Mask(m)!Closed)
<1>0. 0 \in 0..m.revisions
  BY DEF MaskBounds
<1>1. [cells |-> {}, photo |-> 0] \in KeptCells(m) /\ [cells |-> m.cells, photo |-> 0] \in KeptCells(m)
  BY <1>0 DEF KeptCells
<1>2. [rev |-> 0, photo |-> 0, mask |-> [cells |-> m.cells, photo |-> 0]] \in Garments(m)
  BY <1>0, <1>1 DEF Garments
<1>3. [at |-> "idle"] \in MaskSaves(m)
  <2>1. [at |-> "idle"] \in [at : {"idle", "saved", "error"}]
    OBVIOUS
  <2> QED BY <2>1 DEF MaskSaves
<1>4. <<>> \in Seq(SUBSET m.cells) /\ Len(<<>>) = 0 /\ 0 <= m.history
  BY DEF MaskBounds
<1>5. PICK x : x = Mask(m)!Closed
  OBVIOUS
<1>6. x = [open |-> FALSE, item |-> [rev |-> 0, photo |-> 0, mask |-> [cells |-> m.cells, photo |-> 0]],
           ready |-> FALSE, canvas |-> [cells |-> {}, photo |-> 0], initial |-> {}, history |-> <<>>,
           whole |-> TRUE, tint |-> {}, stale |-> FALSE, drawing |-> FALSE, save |-> [at |-> "idle"]]
  BY <1>5 DEF Mask!Closed, Mask!Blank, Mask!NoMask
<1>7. x \in EditorRecords(m)
  BY <1>1, <1>2, <1>3, <1>4, <1>6 DEF EditorRecords
<1>8. x.history = <<>> /\ ~x.drawing /\ ~x.ready /\ x.save.at = "idle"
  BY <1>6
<1> QED BY <1>4, <1>5, <1>7, <1>8 DEF EditorOK

(* A save is kept when the rest of the editor is not.                        *)
LEMMA Resaved ==
  ASSUME NEW m, NEW n, NEW x \in EditorRecords(m), EditorOK(m, n, x), NEW s \in MaskSaves(m),
         s.at = "rpc" => s.object > 0, NEW y, y = [x EXCEPT !.save = s]
  PROVE  y \in EditorRecords(m) /\ EditorOK(m, n, y) /\ y.save = s
<1>1. /\ y \in EditorRecords(m) /\ y.history = x.history /\ y.drawing = x.drawing /\ y.ready = x.ready
      /\ y.save = s /\ y.tint = x.tint /\ y.canvas = x.canvas /\ y.whole = x.whole
      /\ y.initial = x.initial /\ y.stale = x.stale
  BY DEF EditorRecords
<1> QED BY <1>1 DEF EditorOK

LEMMA MaskOpens ==
  ASSUME NEW m, MaskBounds(m), MaskInv(m), NEW e \in m.editors,
         Mask(m)!Open(e) \/ Mask(m)!Load(e) \/ Mask(m)!ItemRefetched(e) \/ Mask(m)!GrantsRefetched(e)
  PROVE  MaskInv(m)'
<1>x. PICK x \in EditorRecords(m) : x = ed[e]
  BY DEF MaskInv, MaskTyped
<1>k. EditorOK(m, refreshes, x) /\ garment \in Garments(m) /\ refreshes \in Nat
  BY <1>x DEF MaskInv, MaskTyped
<1>c. PICK cells \in SUBSET m.cells : cells = Mask(m)!Usable(x.item)
  BY <1>x DEF Mask!Usable, EditorRecords, Garments, KeptCells
<1>1. CASE Mask(m)!Open(e)
  <2>1. PICK z \in EditorRecords(m) : z = Mask(m)!Closed /\ EditorOK(m, refreshes, z)
    BY ClosedTyped
  <2>2. PICK w : w = [z EXCEPT !.save = x.save]
    OBVIOUS
  <2>3. x.save \in MaskSaves(m) /\ (x.save.at = "rpc" => x.save.object > 0)
    BY <1>k DEF EditorRecords, EditorOK
  <2>4. w \in EditorRecords(m) /\ EditorOK(m, refreshes, w)
    BY <2>1, <2>2, <2>3, Resaved
  <2>5. PICK y : y = [w EXCEPT !.open = TRUE, !.item = garment]
    OBVIOUS
  <2>6. /\ y \in EditorRecords(m) /\ y.history = w.history /\ y.drawing = w.drawing /\ y.ready = w.ready
        /\ y.stale = w.stale
        /\ y.save = w.save /\ y.tint = w.tint /\ y.canvas = w.canvas /\ y.whole = w.whole
        /\ y.initial = w.initial
    BY <2>4, <2>5, <1>k DEF EditorRecords
  <2>7. ed' = [ed EXCEPT ![e] = y] /\ Mask(m)!OnlyEditor
    <3>1. y = [z EXCEPT !.open = TRUE, !.item = garment, !.save = x.save]
      BY <2>2, <2>5 DEF EditorRecords
    <3> QED BY <3>1, <1>1, <1>x, <2>1 DEF Mask!Open, Mask!Editor
  <2>8. EditorOK(m, refreshes, y)
    BY <2>4, <2>6 DEF EditorOK
  <2> QED BY <2>6, <2>7, <2>8, OnlyEditorStep DEF Mask!OnlyEditor
<1>2. CASE Mask(m)!Load(e)
  <2>1. PICK b : b = [cells |-> cells, photo |-> x.item.photo]
    OBVIOUS
  <2>2. PICK y : y = [x EXCEPT !.ready = TRUE, !.tint = Mask(m)!Tinted(cells), !.initial = cells, !.canvas = b]
    OBVIOUS
  <2>3. b \in KeptCells(m) /\ b.cells = cells /\ m.cells \ cells \in SUBSET m.cells
    BY <2>1, <1>x DEF KeptCells, EditorRecords, Garments
  <2>4. /\ y \in EditorRecords(m) /\ y.history = x.history /\ y.drawing = x.drawing /\ y.ready
        /\ y.save = x.save /\ y.tint = m.cells \ cells /\ y.canvas = b /\ y.initial = cells
    BY <2>2, <2>3, <1>x DEF EditorRecords, Mask!Tinted
  <2>5. ed' = [ed EXCEPT ![e] = y] /\ Mask(m)!OnlyEditor /\ ~x.ready
    BY <1>2, <1>x, <1>c, <2>1, <2>2 DEF Mask!Load, Mask!Editor
  <2>6. EditorOK(m, refreshes, y)
    BY <1>k, <2>3, <2>4, <2>5 DEF EditorOK
  <2> QED BY <2>4, <2>5, <2>6, OnlyEditorStep DEF Mask!OnlyEditor
<1>3. CASE Mask(m)!ItemRefetched(e)
  <2>1. PICK y : y = [x EXCEPT !.item = garment]
    OBVIOUS
  <2>2. /\ y \in EditorRecords(m) /\ y.history = x.history /\ y.drawing = x.drawing /\ y.ready = x.ready
        /\ y.save = x.save /\ y.stale = x.stale /\ y.tint = x.tint /\ y.canvas = x.canvas
    BY <2>1, <1>x, <1>k DEF EditorRecords
  <2>3. /\ ed' = [ed EXCEPT ![e] = y] /\ refreshes < m.refreshes /\ refreshes' = refreshes + 1
        /\ UNCHANGED <<garment, maskJob, corrected, misfit, store, objects, maskFaults>>
    BY <1>3, <1>x, <2>1 DEF Mask!ItemRefetched, Mask!Editor
  <2>4. EditorOK(m, refreshes', y)
    BY <1>k, <2>2, <2>3 DEF EditorOK
  <2> QED BY <2>2, <2>3, <2>4, OnlyEditorStep
<1>4. CASE Mask(m)!GrantsRefetched(e)
  <2>1. PICK b : b = [cells |-> cells, photo |-> x.item.photo]
    OBVIOUS
  <2>2. PICK y : y = [x EXCEPT !.initial = cells, !.canvas = b, !.stale = TRUE]
    OBVIOUS
  <2>3. b \in KeptCells(m)
    BY <2>1, <1>x DEF KeptCells, EditorRecords, Garments
  <2>4. /\ y \in EditorRecords(m) /\ y.history = x.history /\ y.drawing = x.drawing /\ y.ready = x.ready
        /\ y.save = x.save /\ y.stale
    BY <2>2, <2>3, <1>x DEF EditorRecords
  <2>5. /\ ed' = [ed EXCEPT ![e] = y] /\ refreshes < m.refreshes /\ refreshes' = refreshes + 1
        /\ UNCHANGED <<garment, maskJob, corrected, misfit, store, objects, maskFaults>>
    BY <1>4, <1>x, <1>c, <2>1, <2>2 DEF Mask!GrantsRefetched, Mask!Editor
  <2>6. EditorOK(m, refreshes', y)
    BY <1>k, <2>4, <2>5 DEF EditorOK
  <2> QED BY <2>4, <2>5, <2>6, OnlyEditorStep
<1> QED BY <1>1, <1>2, <1>3, <1>4

-----------------------------------------------------------------------------
(* Sequences.                                                                *)
LEMMA Appended ==
  ASSUME NEW S, NEW h \in Seq(S), NEW c \in S, NEW g, g = Append(h, c)
  PROVE  /\ g \in Seq(S) /\ g # <<>> /\ Len(g) = Len(h) + 1
         /\ g[1] = IF h = <<>> THEN c ELSE h[1]
<1>1. g \in Seq(S) /\ Len(g) = Len(h) + 1
  OBVIOUS
<1>2. g # <<>>
  BY <1>1
<1>3. g[1] = IF h = <<>> THEN c ELSE h[1]
  OBVIOUS
<1> QED BY <1>1, <1>2, <1>3
LEMMA Shortened ==
  ASSUME NEW S, NEW h \in Seq(S), h # <<>>
  PROVE  Tail(h) \in Seq(S) /\ Len(Tail(h)) = Len(h) - 1
<1>1. Len(Tail(h)) = Len(h) - 1
  OBVIOUS
<1>2. Tail(h) \in Seq(S)
  OBVIOUS
<1> QED BY <1>1, <1>2
LEMMA Undone ==
  ASSUME NEW S, NEW h \in Seq(S), Len(h) > 0, NEW g, g = SubSeq(h, 1, Len(h) - 1)
  PROVE  /\ g \in Seq(S) /\ Len(g) = Len(h) - 1 /\ h[Len(h)] \in S /\ h # <<>>
         /\ Len(h) > 1 => g # <<>> /\ g[1] = h[1]
         /\ Len(h) = 1 => g = <<>>
<1>1. PICK k \in Nat : k = Len(h) - 1 /\ g = SubSeq(h, 1, k)
  BY Len(h) \in Nat
<1>2. g \in Seq(S) /\ Len(g) = k
  <2>1. \A i \in 1..k : h[i] \in S
    BY <1>1
  <2> QED BY <1>1, <2>1
<1>3. h[Len(h)] \in S /\ h # <<>>
  OBVIOUS
<1>4. k > 0 => g # <<>> /\ g[1] = h[1]
  <2>1. g = [i \in 1..k |-> h[i]]
    BY <1>1, <1>2
  <2>2. k > 0 => 1 \in 1..k
    BY <1>1
  <2>3. k > 0 => g[1] = h[1]
    BY <2>1, <2>2
  <2>4. k > 0 => Len(g) # 0
    BY <1>2
  <2> QED BY <2>3, <2>4
<1>5. k = 0 => g = <<>>
  BY <1>1, <1>2
<1>6. Len(h) = k + 1
  BY <1>1
<1> QED BY <1>2, <1>3, <1>4, <1>5, <1>6

-----------------------------------------------------------------------------
(* Tools: what was is kept before it is changed.                             *)
LEMMA Kept ==
  ASSUME NEW m, MaskBounds(m), NEW n, NEW x \in EditorRecords(m), EditorOK(m, n, x), x.ready,
         NEW y, y = Mask(m)!Snapshot(x)
  PROVE  /\ y \in EditorRecords(m) /\ y.canvas = x.canvas /\ y.tint = x.tint /\ y.ready
         /\ y.drawing = x.drawing /\ y.save = x.save /\ y.initial = x.initial /\ y.stale = x.stale
         /\ y.history # <<>> /\ Len(y.history) <= m.history
         /\ n = 0 /\ y.whole => y.initial = y.history[1]
<1> DEFINE room == Len(x.history) < m.history
<1>s. PICK S : S = SUBSET m.cells
  OBVIOUS
<1>1. x.history \in Seq(S) /\ x.canvas.cells \in S /\ x.whole \in BOOLEAN /\ m.history \in Nat \ {0}
  BY <1>s DEF EditorRecords, KeptCells, MaskBounds
<1>2. PICK h : h = Append(IF room THEN x.history ELSE Tail(x.history), x.canvas.cells)
  OBVIOUS
<1>3. h \in Seq(S) /\ h # <<>> /\ Len(h) <= m.history
  <2>1. CASE room
    <3>1. h = Append(x.history, x.canvas.cells)
      BY <2>1, <1>2
    <3>2. h \in Seq(S) /\ h # <<>> /\ Len(h) = Len(x.history) + 1
      BY <3>1, <1>1, Appended
    <3> QED BY <2>1, <3>2, <1>1
  <2>2. CASE ~room
    <3>1. x.history # <<>> /\ Len(x.history) = m.history
      BY <2>2, <1>1 DEF EditorOK
    <3>2. Tail(x.history) \in Seq(S) /\ Len(Tail(x.history)) = m.history - 1
      BY <3>1, <1>1, Shortened
    <3>3. h = Append(Tail(x.history), x.canvas.cells)
      BY <2>2, <1>2
    <3>4. h \in Seq(S) /\ h # <<>> /\ Len(h) = m.history - 1 + 1
      BY <3>2, <3>3, <1>1, Appended
    <3> QED BY <3>4, <1>1
  <2> QED BY <2>1, <2>2
<1>4. room => h[1] = IF x.history = <<>> THEN x.canvas.cells ELSE x.history[1]
  <2>1. room => h = Append(x.history, x.canvas.cells)
    BY <1>2
  <2> QED BY <2>1, <1>1, Appended
<1>5. PICK w \in BOOLEAN : w = (x.whole /\ room)
  OBVIOUS
<1>6. y = [x EXCEPT !.history = h, !.whole = w]
  BY <1>2, <1>5 DEF Mask!Snapshot
<1>7. y \in EditorRecords(m)
  BY <1>3, <1>s, <1>6 DEF EditorRecords
<1>8. /\ y.canvas = x.canvas /\ y.tint = x.tint /\ y.ready = x.ready /\ y.drawing = x.drawing
      /\ y.save = x.save /\ y.initial = x.initial /\ y.stale = x.stale /\ y.history = h /\ y.whole = w
  BY <1>6 DEF EditorRecords
<1> QED BY <1>3, <1>4, <1>5, <1>7, <1>8 DEF EditorOK

LEMMA AppliedCells ==
  ASSUME NEW m, NEW cells \in SUBSET m.cells, NEW mode \in {"erase", "restore"}, NEW C \in SUBSET m.cells
  PROVE  Mask(m)!Applied(cells, mode, C) \in SUBSET m.cells
BY DEF Mask!Applied

LEMMA PaintedOK ==
  ASSUME NEW m, NEW n, NEW x \in EditorRecords(m), NEW mode \in {"erase", "restore"},
         NEW C \in SUBSET m.cells, NEW y, y = Mask(m)!Painted(x, mode, C)
  PROVE  /\ y \in EditorRecords(m) /\ y.ready = x.ready /\ y.drawing = x.drawing /\ y.save = x.save
         /\ y.initial = x.initial /\ y.history = x.history /\ y.whole = x.whole /\ y.stale = x.stale
         /\ x.tint = m.cells \ x.canvas.cells => y.tint = m.cells \ y.canvas.cells
<1>1. PICK c \in SUBSET m.cells : c = Mask(m)!Applied(x.canvas.cells, mode, C)
  BY AppliedCells DEF EditorRecords, KeptCells
<1>2. PICK t \in SUBSET m.cells : t = IF mode = "erase" THEN x.tint \cup C ELSE x.tint \ C
  BY DEF EditorRecords
<1>b. PICK b : b = [x.canvas EXCEPT !.cells = c]
  OBVIOUS
<1>3. y = [x EXCEPT !.canvas = b, !.tint = t]
  BY <1>1, <1>2, <1>b DEF Mask!Painted, EditorRecords
<1>4. b \in KeptCells(m) /\ b.cells = c
  BY <1>b DEF EditorRecords, KeptCells
<1>5. /\ y \in EditorRecords(m) /\ y.canvas.cells = c /\ y.tint = t
      /\ y.ready = x.ready /\ y.drawing = x.drawing /\ y.save = x.save
      /\ y.initial = x.initial /\ y.history = x.history /\ y.whole = x.whole /\ y.stale = x.stale
  BY <1>3, <1>4 DEF EditorRecords
<1>6. x.tint = m.cells \ x.canvas.cells => t = m.cells \ c
  BY <1>1, <1>2 DEF Mask!Applied, EditorRecords, KeptCells
<1> QED BY <1>5, <1>6

LEMMA RepaintedOK ==
  ASSUME NEW m, NEW x \in EditorRecords(m), NEW y, y = Mask(m)!Repainted(x)
  PROVE  /\ y \in EditorRecords(m) /\ y.ready = x.ready /\ y.drawing = x.drawing /\ y.save = x.save
         /\ y.initial = x.initial /\ y.history = x.history /\ y.whole = x.whole /\ y.canvas = x.canvas
         /\ y.tint = m.cells \ y.canvas.cells
<1>1. PICK t \in SUBSET m.cells : t = m.cells \ x.canvas.cells
  OBVIOUS
<1>2. y = [x EXCEPT !.tint = t, !.stale = FALSE]
  BY <1>1 DEF Mask!Repainted, Mask!Tinted
<1> QED BY <1>1, <1>2 DEF EditorRecords

LEMMA MaskTools ==
  ASSUME NEW m, MaskBounds(m), MaskInv(m), NEW e \in m.editors, Mask(m)!Tool(e)
  PROVE  MaskInv(m)'
<1>x. PICK x \in EditorRecords(m) : x = ed[e]
  BY DEF MaskInv, MaskTyped
<1>k. EditorOK(m, refreshes, x)
  BY <1>x DEF MaskInv
<1>0. PICK mode \in {"erase", "restore"} :
        \/ \E c \in m.cells : Mask(m)!PointerDown(e, mode, c) \/ Mask(m)!PointerMove(e, mode, c)
        \/ \E C \in SUBSET m.cells \ {{}} : Mask(m)!ApplyArea(e, mode, C)
  BY DEF Mask!Tool
<1>1. ASSUME NEW c \in m.cells, Mask(m)!PointerDown(e, mode, c) PROVE MaskInv(m)'
  <2>1. PICK s : s = Mask(m)!Snapshot(x)
    OBVIOUS
  <2>2. x.ready /\ ~x.drawing /\ Mask(m)!OnlyEditor
    BY <1>1, <1>x DEF Mask!PointerDown
  <2>3. /\ s \in EditorRecords(m) /\ s.canvas = x.canvas /\ s.tint = x.tint /\ s.ready
        /\ s.drawing = x.drawing /\ s.save = x.save /\ s.initial = x.initial
        /\ s.history # <<>> /\ Len(s.history) <= m.history
        /\ s.stale = x.stale /\ (refreshes = 0 /\ s.whole => s.initial = s.history[1])
    BY <2>1, <2>2, <1>k, Kept
  <2>4. PICK d : d = [s EXCEPT !.drawing = TRUE]
    OBVIOUS
  <2>5. /\ d \in EditorRecords(m) /\ d.canvas = s.canvas /\ d.tint = s.tint /\ d.ready = s.ready
        /\ d.save = s.save /\ d.initial = s.initial /\ d.history = s.history /\ d.whole = s.whole
        /\ d.stale = s.stale
    BY <2>3, <2>4 DEF EditorRecords
  <2>6. PICK y : y = Mask(m)!Painted(d, mode, {c})
    OBVIOUS
  <2>7. /\ y \in EditorRecords(m) /\ y.ready = d.ready /\ y.drawing = d.drawing /\ y.save = d.save
        /\ y.initial = d.initial /\ y.history = d.history /\ y.whole = d.whole /\ y.stale = d.stale
        /\ d.tint = m.cells \ d.canvas.cells => y.tint = m.cells \ y.canvas.cells
    BY <2>5, <2>6, PaintedOK
  <2>8. ed' = [ed EXCEPT ![e] = y]
    BY <1>1, <1>x, <2>1, <2>4, <2>6 DEF Mask!PointerDown, Mask!Editor
  <2>9. EditorOK(m, refreshes, y)
    BY <1>k, <2>2, <2>3, <2>5, <2>7 DEF EditorOK
  <2> QED BY <2>2, <2>7, <2>8, <2>9, OnlyEditorStep DEF Mask!OnlyEditor
<1>2. ASSUME NEW c \in m.cells, Mask(m)!PointerMove(e, mode, c) PROVE MaskInv(m)'
  <2>1. PICK y : y = Mask(m)!Painted(x, mode, {c})
    OBVIOUS
  <2>2. /\ y \in EditorRecords(m) /\ y.ready = x.ready /\ y.drawing = x.drawing /\ y.save = x.save
        /\ y.initial = x.initial /\ y.history = x.history /\ y.whole = x.whole /\ y.stale = x.stale
        /\ x.tint = m.cells \ x.canvas.cells => y.tint = m.cells \ y.canvas.cells
    BY <2>1, PaintedOK
  <2>3. ed' = [ed EXCEPT ![e] = y] /\ Mask(m)!OnlyEditor /\ x.drawing
    BY <1>2, <1>x, <2>1 DEF Mask!PointerMove, Mask!Editor
  <2>4. EditorOK(m, refreshes, y)
    BY <1>k, <2>2, <2>3 DEF EditorOK
  <2> QED BY <2>2, <2>3, <2>4, OnlyEditorStep DEF Mask!OnlyEditor
<1>3. ASSUME NEW C \in SUBSET m.cells, Mask(m)!ApplyArea(e, mode, C) PROVE MaskInv(m)'
  <2>1. PICK s : s = Mask(m)!Snapshot(x)
    OBVIOUS
  <2>2. x.ready /\ ~x.drawing /\ Mask(m)!OnlyEditor
    BY <1>3, <1>x DEF Mask!ApplyArea
  <2>3. /\ s \in EditorRecords(m) /\ s.canvas = x.canvas /\ s.tint = x.tint /\ s.ready
        /\ s.drawing = x.drawing /\ s.save = x.save /\ s.initial = x.initial
        /\ s.history # <<>> /\ Len(s.history) <= m.history
        /\ s.stale = x.stale /\ (refreshes = 0 /\ s.whole => s.initial = s.history[1])
    BY <2>1, <2>2, <1>k, Kept
  <2>4. PICK c \in SUBSET m.cells : c = Mask(m)!Applied(x.canvas.cells, mode, C)
    BY AppliedCells DEF EditorRecords, KeptCells
  <2>b. PICK b : b = [s.canvas EXCEPT !.cells = c]
    OBVIOUS
  <2>d. PICK d : d = [s EXCEPT !.canvas = b]
    OBVIOUS
  <2>5. b \in KeptCells(m)
    BY <2>b, <2>3 DEF EditorRecords, KeptCells
  <2>6. /\ d \in EditorRecords(m) /\ d.ready = s.ready /\ d.drawing = s.drawing
        /\ d.save = s.save /\ d.initial = s.initial /\ d.history = s.history /\ d.whole = s.whole
    BY <2>3, <2>5, <2>d DEF EditorRecords
  <2>7. PICK y : y = Mask(m)!Repainted(d)
    OBVIOUS
  <2>8. /\ y \in EditorRecords(m) /\ y.ready = d.ready /\ y.drawing = d.drawing /\ y.save = d.save
        /\ y.initial = d.initial /\ y.history = d.history /\ y.whole = d.whole
        /\ y.tint = m.cells \ y.canvas.cells
    BY <2>6, <2>7, RepaintedOK
  <2>9. ed' = [ed EXCEPT ![e] = y]
    <3>1. d = [s EXCEPT !.canvas.cells = c]
      BY <2>3, <2>b, <2>d DEF EditorRecords
    <3> QED BY <3>1, <1>3, <1>x, <2>1, <2>4, <2>7 DEF Mask!ApplyArea, Mask!Editor
  <2>10. EditorOK(m, refreshes, y)
    BY <1>k, <2>2, <2>3, <2>6, <2>8 DEF EditorOK
  <2> QED BY <2>2, <2>8, <2>9, <2>10, OnlyEditorStep DEF Mask!OnlyEditor
<1> QED BY <1>0, <1>1, <1>2, <1>3

LEMMA MaskEndsStroke ==
  ASSUME NEW m, MaskBounds(m), MaskInv(m), NEW e \in m.editors,
         Mask(m)!PointerUp(e) \/ Mask(m)!Undo(e) \/ Mask(m)!Reset(e)
  PROVE  MaskInv(m)'
<1>x. PICK x \in EditorRecords(m) : x = ed[e]
  BY DEF MaskInv, MaskTyped
<1>k. EditorOK(m, refreshes, x)
  BY <1>x DEF MaskInv
<1>1. CASE Mask(m)!PointerUp(e)
  <2>1. PICK d : d = [x EXCEPT !.drawing = FALSE]
    OBVIOUS
  <2>2. /\ d \in EditorRecords(m) /\ d.ready = x.ready /\ ~d.drawing /\ d.canvas = x.canvas
        /\ d.save = x.save /\ d.initial = x.initial /\ d.history = x.history /\ d.whole = x.whole
    BY <2>1 DEF EditorRecords
  <2>3. PICK y : y = Mask(m)!Repainted(d)
    OBVIOUS
  <2>4. /\ y \in EditorRecords(m) /\ y.ready = d.ready /\ y.drawing = d.drawing /\ y.save = d.save
        /\ y.initial = d.initial /\ y.history = d.history /\ y.whole = d.whole /\ y.canvas = d.canvas
        /\ y.tint = m.cells \ y.canvas.cells
    BY <2>2, <2>3, RepaintedOK
  <2>5. ed' = [ed EXCEPT ![e] = y] /\ Mask(m)!OnlyEditor
    BY <1>1, <1>x, <2>1, <2>3 DEF Mask!PointerUp, Mask!Editor
  <2>6. EditorOK(m, refreshes, y)
    BY <1>k, <2>2, <2>4 DEF EditorOK
  <2> QED BY <2>4, <2>5, <2>6, OnlyEditorStep DEF Mask!OnlyEditor
<1>2. CASE Mask(m)!Undo(e)
  <2> DEFINE n == Len(x.history)
  <2>1. n > 0 /\ ~x.drawing /\ Mask(m)!OnlyEditor /\ x.history \in Seq(SUBSET m.cells) /\ n \in Nat
    BY <1>2, <1>x DEF Mask!Undo, EditorRecords
  <2>2. PICK h : h = SubSeq(x.history, 1, n - 1)
    OBVIOUS
  <2>s. PICK S : S = SUBSET m.cells
    OBVIOUS
  <2>3. /\ h \in Seq(S) /\ Len(h) = n - 1 /\ (n > 1 => h # <<>> /\ h[1] = x.history[1])
        /\ (n = 1 => h = <<>>) /\ x.history[n] \in S /\ x.history # <<>>
    <3>1. x.history \in Seq(S) /\ Len(x.history) > 0 /\ h = SubSeq(x.history, 1, Len(x.history) - 1)
      BY <2>1, <2>2, <2>s
    <3> QED BY <3>1, Undone
  <2>b. PICK b : b = [x.canvas EXCEPT !.cells = x.history[n]]
    OBVIOUS
  <2>d. PICK d : d = [x EXCEPT !.history = h, !.canvas = b]
    OBVIOUS
  <2>4. b \in KeptCells(m) /\ b.cells = x.history[n]
    BY <2>b, <2>3, <2>s DEF EditorRecords, KeptCells
  <2>5. /\ d \in EditorRecords(m) /\ d.ready = x.ready /\ d.drawing = x.drawing /\ d.canvas = b
        /\ d.save = x.save /\ d.initial = x.initial /\ d.history = h /\ d.whole = x.whole
    BY <2>3, <2>s, <2>4, <2>d DEF EditorRecords
  <2>6. PICK y : y = Mask(m)!Repainted(d)
    OBVIOUS
  <2>7. /\ y \in EditorRecords(m) /\ y.ready = d.ready /\ y.drawing = d.drawing /\ y.save = d.save
        /\ y.initial = d.initial /\ y.history = d.history /\ y.whole = d.whole /\ y.canvas = d.canvas
        /\ y.tint = m.cells \ y.canvas.cells
    BY <2>5, <2>6, RepaintedOK
  <2>8. ed' = [ed EXCEPT ![e] = y]
    <3>1. d = [x EXCEPT !.history = h, !.canvas.cells = x.history[n]]
      BY <2>b, <2>d DEF EditorRecords
    <3> QED BY <3>1, <1>2, <1>x, <2>2, <2>6 DEF Mask!Undo, Mask!Editor
  <2>9. EditorOK(m, refreshes, y)
    <3>1. x.ready
      BY <2>3, <1>k DEF EditorOK
    <3>2. Len(h) <= m.history
      BY <2>1, <2>3, <1>k DEF EditorOK, MaskBounds
    <3>3. refreshes = 0 /\ x.whole => x.initial = x.history[1]
      BY <3>1, <2>3, <1>k DEF EditorOK
    <3>4. IF h = <<>> THEN b.cells = x.history[1] ELSE h[1] = x.history[1]
      BY <2>1, <2>3, <2>4
    <3> QED BY <3>1, <3>2, <3>3, <3>4, <1>k, <2>1, <2>5, <2>7 DEF EditorOK
  <2> QED BY <2>1, <2>7, <2>8, <2>9, OnlyEditorStep DEF Mask!OnlyEditor
<1>3. CASE Mask(m)!Reset(e)
  <2>1. PICK s : s = Mask(m)!Snapshot(x)
    OBVIOUS
  <2>2. x.ready /\ ~x.drawing /\ Mask(m)!OnlyEditor
    BY <1>3, <1>x DEF Mask!Reset
  <2>3. /\ s \in EditorRecords(m) /\ s.canvas = x.canvas /\ s.tint = x.tint /\ s.ready
        /\ s.drawing = x.drawing /\ s.save = x.save /\ s.initial = x.initial
        /\ s.history # <<>> /\ Len(s.history) <= m.history
        /\ s.stale = x.stale /\ (refreshes = 0 /\ s.whole => s.initial = s.history[1])
    BY <2>1, <2>2, <1>k, Kept
  <2>b. PICK b : b = [s.canvas EXCEPT !.cells = x.initial]
    OBVIOUS
  <2>d. PICK d : d = [s EXCEPT !.canvas = b]
    OBVIOUS
  <2>5. b \in KeptCells(m)
    BY <2>b, <2>3 DEF EditorRecords, KeptCells
  <2>6. /\ d \in EditorRecords(m) /\ d.ready = s.ready /\ d.drawing = s.drawing
        /\ d.save = s.save /\ d.initial = s.initial /\ d.history = s.history /\ d.whole = s.whole
    BY <2>3, <2>5, <2>d DEF EditorRecords
  <2>7. PICK y : y = Mask(m)!Repainted(d)
    OBVIOUS
  <2>8. /\ y \in EditorRecords(m) /\ y.ready = d.ready /\ y.drawing = d.drawing /\ y.save = d.save
        /\ y.initial = d.initial /\ y.history = d.history /\ y.whole = d.whole
        /\ y.tint = m.cells \ y.canvas.cells
    BY <2>6, <2>7, RepaintedOK
  <2>9. ed' = [ed EXCEPT ![e] = y]
    <3>1. d = [s EXCEPT !.canvas.cells = x.initial]
      BY <2>3, <2>b, <2>d DEF EditorRecords
    <3> QED BY <3>1, <1>3, <1>x, <2>1, <2>7 DEF Mask!Reset, Mask!Editor
  <2>10. EditorOK(m, refreshes, y)
    BY <1>k, <2>2, <2>3, <2>6, <2>8 DEF EditorOK
  <2> QED BY <2>2, <2>8, <2>9, <2>10, OnlyEditorStep DEF Mask!OnlyEditor
<1> QED BY <1>1, <1>2, <1>3

-----------------------------------------------------------------------------
(* Saving.                                                                   *)
(* The parts of a save that is on its way.                                   *)
LEMMA SaveParts ==
  ASSUME NEW m, MaskBounds(m), NEW s \in MaskSaves(m), s.at \in {"put", "rpc"}
  PROVE  s \in [at : {"put", "rpc"}, rev : 0..m.revisions, mask : KeptCells(m), object : 0..m.objects]
BY DEF MaskSaves

LEMMA MaskSaveMoves ==
  ASSUME NEW m, MaskBounds(m), MaskInv(m), NEW e \in m.editors,
         Mask(m)!Save(e) \/ Mask(m)!SaveAnswered(e) \/ Mask(m)!Cancel(e)
  PROVE  MaskInv(m)'
<1>x. PICK x \in EditorRecords(m) : x = ed[e]
  BY DEF MaskInv, MaskTyped
<1>k. EditorOK(m, refreshes, x)
  BY <1>x DEF MaskInv
<1>1. CASE Mask(m)!Save(e)
  <2>1. PICK s : s = [at |-> "put", rev |-> x.item.rev, mask |-> x.canvas, object |-> 0]
    OBVIOUS
  <2>2. s \in MaskSaves(m) /\ s.at = "put"
    <3>1. 0 \in 0..m.objects
      BY DEF MaskBounds
    <3>2. s \in [at : {"put", "rpc"}, rev : 0..m.revisions, mask : KeptCells(m), object : 0..m.objects]
      BY <2>1, <3>1 DEF EditorRecords, Garments
    <3> QED BY <2>1, <3>2 DEF MaskSaves
  <2>3. PICK y : y = [x EXCEPT !.save = s]
    OBVIOUS
  <2>4. ed' = [ed EXCEPT ![e] = y] /\ Mask(m)!OnlyEditor
    BY <1>1, <1>x, <2>1, <2>3 DEF Mask!Save, Mask!Editor
  <2>5. y \in EditorRecords(m) /\ EditorOK(m, refreshes, y)
    BY <1>k, <2>2, <2>3, Resaved
  <2> QED BY <2>4, <2>5, OnlyEditorStep DEF Mask!OnlyEditor
<1>2. CASE Mask(m)!SaveAnswered(e) /\ x.save.at # "saved"
  <2>1. PICK s : s = [at |-> "idle"]
    OBVIOUS
  <2>2. s \in MaskSaves(m) /\ s.at = "idle"
    <3>1. s \in [at : {"idle", "saved", "error"}]
      BY <2>1
    <3> QED BY <2>1, <3>1 DEF MaskSaves
  <2>3. PICK y : y = [x EXCEPT !.save = s]
    OBVIOUS
  <2>4. ed' = [ed EXCEPT ![e] = y] /\ Mask(m)!OnlyEditor
    BY <1>2, <1>x, <2>1, <2>3 DEF Mask!SaveAnswered, Mask!Editor
  <2>5. y \in EditorRecords(m) /\ EditorOK(m, refreshes, y)
    BY <1>k, <2>2, <2>3, Resaved
  <2> QED BY <2>4, <2>5, OnlyEditorStep DEF Mask!OnlyEditor
<1>3. CASE Mask(m)!SaveAnswered(e) /\ x.save.at = "saved"
  <2>1. ed' = [ed EXCEPT ![e] = Mask(m)!Closed] /\ Mask(m)!OnlyEditor
    BY <1>3, <1>x DEF Mask!SaveAnswered, Mask!Editor
  <2> QED BY <2>1, ClosedTyped, OnlyEditorStep DEF Mask!OnlyEditor
<1>4. CASE Mask(m)!Cancel(e)
  <2>1. PICK z \in EditorRecords(m) : z = Mask(m)!Closed /\ EditorOK(m, refreshes, z)
    BY ClosedTyped
  <2>2. PICK y : y = [z EXCEPT !.save = x.save]
    OBVIOUS
  <2>3. ed' = [ed EXCEPT ![e] = y] /\ Mask(m)!OnlyEditor
    BY <1>4, <1>x, <2>1, <2>2 DEF Mask!Cancel, Mask!Editor
  <2>4. x.save \in MaskSaves(m) /\ (x.save.at = "rpc" => x.save.object > 0)
    BY <1>k DEF EditorRecords, EditorOK
  <2>5. y \in EditorRecords(m) /\ EditorOK(m, refreshes, y)
    BY <2>1, <2>2, <2>4, Resaved
  <2> QED BY <2>3, <2>5, OnlyEditorStep DEF Mask!OnlyEditor
<1> QED BY <1>1, <1>2, <1>3, <1>4

LEMMA MaskPut ==
  ASSUME NEW m, MaskBounds(m), MaskInv(m), NEW e \in m.editors, Mask(m)!PutMask(e)
  PROVE  MaskInv(m)'
<1>x. PICK x \in EditorRecords(m) : x = ed[e]
  BY DEF MaskInv, MaskTyped
<1>k. EditorOK(m, refreshes, x) /\ objects \in 0..m.objects /\ m.objects \in Nat
  BY <1>x DEF MaskInv, MaskTyped, MaskBounds
<1>0. /\ x.save.at = "put" /\ objects < m.objects /\ objects' = objects + 1
      /\ store' = store \cup {objects + 1}
      /\ UNCHANGED <<garment, maskJob, corrected, misfit, refreshes, maskFaults>>
  BY <1>x DEF Mask!PutMask
<1>s. PICK s : s = [x.save EXCEPT !.at = "rpc", !.object = objects + 1]
  OBVIOUS
<1>1. s \in MaskSaves(m) /\ s.object > 0
  <2>1. x.save \in [at : {"put", "rpc"}, rev : 0..m.revisions, mask : KeptCells(m), object : 0..m.objects]
    BY <1>0, SaveParts DEF EditorRecords
  <2>2. objects + 1 \in 0..m.objects
    BY <1>0, <1>k
  <2>3. /\ s \in [at : {"put", "rpc"}, rev : 0..m.revisions, mask : KeptCells(m), object : 0..m.objects]
        /\ s.object = objects + 1
    BY <1>s, <2>1, <2>2
  <2> QED BY <2>3, <1>k DEF MaskSaves
<1>y. PICK y : y = [x EXCEPT !.save = s]
  OBVIOUS
<1>2. ed' = [ed EXCEPT ![e] = y]
  <2>1. y = [x EXCEPT !.save.at = "rpc", !.save.object = objects + 1]
    BY <1>y, <1>s DEF EditorRecords
  <2> QED BY <2>1, <1>x DEF Mask!PutMask, Mask!Editor
<1>3. y \in EditorRecords(m) /\ EditorOK(m, refreshes, y)
  BY <1>k, <1>1, <1>y, Resaved
<1>4. MaskTyped(m) /\ ed' \in [m.editors -> EditorRecords(m)] => MaskTyped(m)'
  <2>1. objects' \in 0..m.objects /\ objects + 1 \in 1..m.objects
    BY <1>0, <1>k
  <2> QED BY <2>1, <1>0 DEF MaskTyped
<1> QED BY <1>0, <1>2, <1>3, <1>4, EditorStep

(* One correction of a revision: accepted at the current one, which advances.*)
LEMMA MaskSubmitted ==
  ASSUME NEW m, MaskBounds(m), MaskInv(m), NEW e \in m.editors, Mask(m)!SubmitMask(e)
  PROVE  MaskInv(m)'
<1>x. PICK x \in EditorRecords(m) : x = ed[e]
  BY DEF MaskInv, MaskTyped
<1>k. /\ EditorOK(m, refreshes, x) /\ garment \in Garments(m) /\ garment.rev > 0
      /\ garment.photo \in 1..garment.rev /\ maskFaults \in 0..m.faults /\ m.revisions \in Nat
      /\ m.faults \in Nat /\ store \subseteq 1..m.objects /\ corrected \in [1..m.revisions -> Nat]
  BY <1>x DEF MaskInv, MaskTyped, MaskBounds
<1>s. PICK s : s = x.save
  OBVIOUS
<1>0. s.at = "rpc" /\ UNCHANGED <<objects, refreshes>>
  BY <1>x, <1>s DEF Mask!SubmitMask
<1>1. /\ s \in MaskSaves(m) /\ s.object \in 1..m.objects /\ s.mask.cells \in SUBSET m.cells
      /\ s.rev \in 0..m.revisions
  <2>1. s \in MaskSaves(m)
    BY <1>s DEF EditorRecords
  <2>2. s.object > 0
    BY <1>0, <1>s, <1>k DEF EditorOK
  <2>3. s \in [at : {"put", "rpc"}, rev : 0..m.revisions, mask : KeptCells(m), object : 0..m.objects]
    BY <2>1, <1>0, SaveParts
  <2>4. m.objects \in Nat
    BY DEF MaskBounds
  <2> QED BY <2>1, <2>2, <2>3, <2>4 DEF KeptCells
<1>2. PICK at \in {"saved", "error"} : ed' = [ed EXCEPT ![e] = [ed[e] EXCEPT !.save = [at |-> at]]]
  BY DEF Mask!SubmitMask, Mask!Editor
<1>t. PICK t : t = [at |-> at]
  OBVIOUS
<1>y. PICK y : y = [x EXCEPT !.save = t]
  OBVIOUS
<1>3. ed' = [ed EXCEPT ![e] = y]
  <2>1. y = [x EXCEPT !.save = [at |-> at]]
    BY <1>y, <1>t
  <2> QED BY <2>1, <1>2, <1>x
<1>4. y \in EditorRecords(m) /\ EditorOK(m, refreshes, y)
  <2>1. t \in MaskSaves(m) /\ t.at # "rpc"
    <3>1. t \in [at : {"idle", "saved", "error"}]
      BY <1>t
    <3> QED BY <3>1, <1>t DEF MaskSaves
  <2> QED BY <2>1, <1>k, <1>y, Resaved
<1>5. CASE s.rev = garment.rev /\ garment.rev < m.revisions
           /\ garment' = [garment EXCEPT !.rev = garment.rev + 1]
           /\ corrected' = [corrected EXCEPT ![s.rev] = corrected[s.rev] + 1]
           /\ misfit' = (misfit \/ s.mask.photo # garment.photo)
           /\ maskJob' = [at |-> "queued", object |-> s.object, mask |-> s.mask.cells]
           /\ store' \subseteq store /\ maskFaults' \in {maskFaults, maskFaults + 1}
           /\ maskFaults' \in 0..m.faults
  <2>1. garment' \in Garments(m) /\ garment'.rev = garment.rev + 1 /\ garment'.photo = garment.photo
    <3>1. garment.rev \in 0..m.revisions
      BY <1>k DEF Garments
    <3>2. garment.rev + 1 \in 0..m.revisions
      BY <3>1, <1>k, <1>5
    <3> QED BY <3>2, <1>k, <1>5 DEF Garments
  <2>2. maskJob' \in CutoutJobs(m)
    <3>1. maskJob' \in [at : {"queued"}, object : 1..m.objects, mask : SUBSET m.cells]
      BY <1>5, <1>1
    <3> QED BY <3>1 DEF CutoutJobs
  <2>3. garment.rev \in 1..m.revisions
    BY <1>k DEF Garments
  <2>4. corrected' \in [1..m.revisions -> Nat]
    BY <1>5, <1>k, <2>3
  <2>5. misfit' \in BOOLEAN
    BY <1>5
  <2>6. MaskTyped(m) /\ ed' \in [m.editors -> EditorRecords(m)] => MaskTyped(m)'
    <3>1. garment'.rev > 0 /\ garment'.photo \in 1..garment'.rev
      BY <2>1, <2>3, <1>k
    <3> QED BY <3>1, <2>1, <2>2, <2>4, <2>5, <1>5, <1>0 DEF MaskTyped
  <2>7. CorrectedOnce(m)'
    <3>1. \A r \in 1..m.revisions : corrected'[r] = IF r = garment.rev THEN corrected[r] + 1 ELSE corrected[r]
      BY <1>5, <1>k, <2>3
    <3>2. corrected[garment.rev] = 0
      BY <2>3 DEF MaskInv, CorrectedOnce
    <3> QED BY <3>1, <3>2, <2>1, <2>3 DEF MaskInv, CorrectedOnce
  <2> QED BY <2>6, <2>7, <1>0, <1>3, <1>4, EditorStep
<1>6. CASE store' \subseteq store /\ UNCHANGED <<garment, maskJob, corrected, misfit, maskFaults>>
  <2>1. MaskTyped(m) /\ ed' \in [m.editors -> EditorRecords(m)] => MaskTyped(m)'
    BY <1>0, <1>6 DEF MaskTyped
  <2> QED BY <2>1, <1>0, <1>3, <1>4, <1>6, EditorStep
<1> QED
  <2>1. \/ /\ Mask(m)!RevisionCurrent(s.rev) /\ garment.rev < m.revisions
           /\ garment' = [garment EXCEPT !.rev = garment.rev + 1]
           /\ corrected' = [corrected EXCEPT ![s.rev] = corrected[s.rev] + 1]
           /\ misfit' = (misfit \/ s.mask.photo # garment.photo)
           /\ maskJob' = [at |-> "queued", object |-> s.object, mask |-> s.mask.cells]
           /\ \/ UNCHANGED <<store, maskFaults>>
              \/ Mask(m)!Fault /\ UNCHANGED store
              \/ Mask(m)!Fault /\ store' = store \ {s.object}
        \/ store' = store \ {s.object} /\ UNCHANGED <<garment, maskJob, corrected, misfit, maskFaults>>
    BY <1>x, <1>s DEF Mask!SubmitMask
  <2>2. Mask(m)!Fault => maskFaults' = maskFaults + 1 /\ maskFaults' \in 0..m.faults
    BY <1>k DEF Mask!Fault
  <2> QED BY <2>1, <2>2, <1>5, <1>6, <1>k DEF Mask!RevisionCurrent

(* The cutout, and a replaced photo.                                         *)
LEMMA MaskServer ==
  ASSUME NEW m, MaskBounds(m), MaskInv(m), Mask(m)!Cutout \/ Mask(m)!ReplacePhoto
  PROVE  MaskInv(m)'
<1>k. /\ garment \in Garments(m) /\ garment.rev > 0 /\ garment.photo \in 1..garment.rev
      /\ m.revisions \in Nat /\ maskJob \in CutoutJobs(m)
  BY DEF MaskInv, MaskTyped, MaskBounds
<1>0. UNCHANGED <<corrected, misfit, store, objects, ed, refreshes, maskFaults>>
  BY DEF Mask!Cutout, Mask!ReplacePhoto
<1>1. CASE Mask(m)!Cutout
  <2>1. maskJob' \in CutoutJobs(m)
    <3>1. maskJob' = [at |-> "none"]
      BY <1>1 DEF Mask!Cutout
    <3>2. maskJob' \in [at : {"none"}]
      BY <3>1
    <3> QED BY <3>2 DEF CutoutJobs
  <2>2. garment' \in Garments(m) /\ garment'.rev = garment.rev /\ garment'.photo = garment.photo
    <3>1. CASE UNCHANGED garment
      BY <3>1, <1>k
    <3>2. ASSUME NEW cells \in SUBSET m.cells,
                 garment' = [garment EXCEPT !.mask = [cells |-> cells, photo |-> garment.photo]]
          PROVE  garment' \in Garments(m) /\ garment'.rev = garment.rev /\ garment'.photo = garment.photo
      <4>1. [cells |-> cells, photo |-> garment.photo] \in KeptCells(m)
        BY <1>k DEF KeptCells, Garments
      <4> QED BY <3>2, <4>1, <1>k DEF Garments
    <3>3. ASSUME NEW cells \in Mask(m)!ComposedMasks PROVE cells \in SUBSET m.cells
      <4>1. maskJob.at = "queued"
        BY <1>1 DEF Mask!Cutout
      <4>2. CASE maskJob \in [at : {"queued"}, object : {0}]
        BY <4>2 DEF Mask!ComposedMasks
      <4>3. CASE maskJob \in [at : {"queued"}, object : 1..m.objects, mask : SUBSET m.cells]
        BY <4>3 DEF Mask!ComposedMasks
      <4>4. maskJob \notin [at : {"none"}]
        BY <4>1
      <4> QED BY <4>2, <4>3, <4>4, <1>k DEF CutoutJobs
    <3> QED BY <1>1, <3>1, <3>2, <3>3 DEF Mask!Cutout
  <2>3. MaskTyped(m)'
    BY <1>0, <2>1, <2>2 DEF MaskInv, MaskTyped
  <2>4. CorrectedOnce(m)' /\ \A e \in m.editors : EditorOK(m, refreshes, ed[e])'
    BY <1>0, <2>2 DEF MaskInv, CorrectedOnce, EditorOK
  <2> QED BY <2>3, <2>4 DEF MaskInv
<1>2. CASE Mask(m)!ReplacePhoto
  <2>1. /\ garment.rev < m.revisions /\ maskJob' = [at |-> "queued", object |-> 0]
        /\ garment' = [garment EXCEPT !.rev = garment.rev + 1, !.photo = garment.photo + 1]
    BY <1>2 DEF Mask!ReplacePhoto
  <2>2. maskJob' \in CutoutJobs(m)
    <3>1. maskJob' \in [at : {"queued"}, object : {0}]
      BY <2>1
    <3> QED BY <3>1 DEF CutoutJobs
  <2>3. /\ garment' \in Garments(m) /\ garment'.rev = garment.rev + 1
        /\ garment'.photo = garment.photo + 1
    <3>1. garment.rev + 1 \in 0..m.revisions /\ garment.photo + 1 \in 0..m.revisions
      BY <2>1, <1>k DEF Garments
    <3> QED BY <3>1, <2>1, <1>k DEF Garments
  <2>4. MaskTyped(m)'
    <3>1. garment'.rev > 0 /\ garment'.photo \in 1..garment'.rev
      BY <2>3, <1>k DEF Garments
    <3> QED BY <3>1, <1>0, <2>2, <2>3 DEF MaskInv, MaskTyped
  <2>5. CorrectedOnce(m)'
    <3>1. garment.rev \in Int
      BY <1>k DEF Garments
    <3> QED BY <3>1, <1>0, <2>3 DEF MaskInv, CorrectedOnce
  <2>6. \A e \in m.editors : EditorOK(m, refreshes, ed[e])'
    BY <1>0 DEF MaskInv, EditorOK
  <2> QED BY <2>4, <2>5, <2>6 DEF MaskInv
<1> QED BY <1>1, <1>2

-----------------------------------------------------------------------------
LEMMA MaskInit ==
  ASSUME NEW m, MaskBounds(m), Mask(m)!Init PROVE MaskInv(m)
<1>0. /\ 0 \in 0..m.revisions /\ 1 \in 0..m.revisions /\ 1 \in 1..m.revisions /\ 0 \in 0..m.objects
      /\ 0 \in 0..m.refreshes /\ 0 \in 0..m.faults
  BY DEF MaskBounds
<1>1. garment \in Garments(m) /\ garment.rev = 1 /\ garment.photo = 1
  <2>1. [cells |-> m.cells, photo |-> 0] \in KeptCells(m)
    BY <1>0 DEF KeptCells
  <2>2. garment = [rev |-> 1, photo |-> 1, mask |-> [cells |-> m.cells, photo |-> 0]]
    BY DEF Mask!Init, Mask!NoMask
  <2> QED BY <1>0, <2>1, <2>2 DEF Garments
<1>2. maskJob \in CutoutJobs(m)
  <2>1. maskJob \in [at : {"none"}]
    BY DEF Mask!Init
  <2> QED BY <2>1 DEF CutoutJobs
<1>3. corrected = [r \in 1..m.revisions |-> 0] /\ misfit = FALSE /\ store = {} /\ objects = 0
      /\ refreshes = 0 /\ maskFaults = 0
  BY DEF Mask!Init
<1>4. ed \in [m.editors -> EditorRecords(m)] /\ \A e \in m.editors : EditorOK(m, refreshes, ed[e])
  <2>1. ed = [e \in m.editors |-> Mask(m)!Closed]
    BY DEF Mask!Init
  <2> QED BY <2>1, ClosedTyped
<1>5. MaskTyped(m)
  <2>1. corrected \in [1..m.revisions -> Nat] /\ store \subseteq 1..m.objects
    BY <1>3
  <2>2. garment.rev > 0 /\ garment.photo \in 1..garment.rev
    BY <1>1
  <2> QED BY <2>1, <2>2, <1>0, <1>1, <1>2, <1>3, <1>4 DEF MaskTyped
<1>6. CorrectedOnce(m)
  BY <1>3 DEF CorrectedOnce
<1> QED BY <1>4, <1>5, <1>6 DEF MaskInv

LEMMA MaskNext ==
  ASSUME NEW m, MaskBounds(m), MaskInv(m), Mask(m)!Next PROVE MaskInv(m)'
<1>1. ASSUME NEW e \in m.editors,
             \/ Mask(m)!Open(e) \/ Mask(m)!Load(e) \/ Mask(m)!ItemRefetched(e) \/ Mask(m)!GrantsRefetched(e)
             \/ Mask(m)!Tool(e) \/ Mask(m)!PointerUp(e) \/ Mask(m)!Undo(e) \/ Mask(m)!Reset(e)
             \/ Mask(m)!Save(e) \/ Mask(m)!PutMask(e) \/ Mask(m)!SubmitMask(e)
             \/ Mask(m)!SaveAnswered(e) \/ Mask(m)!Cancel(e)
      PROVE  MaskInv(m)'
  BY <1>1, MaskOpens, MaskTools, MaskEndsStroke, MaskSaveMoves, MaskPut, MaskSubmitted
<1> QED BY <1>1, MaskServer DEF Mask!Next

LEMMA MaskRests ==
  ASSUME NEW m, MaskInv(m), UNCHANGED maskVars PROVE MaskInv(m)'
BY DEF MaskInv, MaskTyped, CorrectedOnce, EditorOK, maskVars

LEMMA MaskTypes ==
  ASSUME NEW m, MaskBounds(m), MaskInv(m)
  PROVE  /\ Mask(m)!TypeOK /\ Mask(m)!TintMatchesMask /\ Mask(m)!HistoryStartsAtLoad
         /\ Mask(m)!OneCorrectionPerRevision
<1>1. ASSUME NEW e \in m.editors
      PROVE  /\ ed[e].canvas.cells \subseteq m.cells /\ ed[e].tint \subseteq m.cells
             /\ Len(ed[e].history) <= m.history
             /\ ed[e].stale \in BOOLEAN
             /\ \A i \in DOMAIN ed[e].history : ed[e].history[i] \subseteq m.cells
             /\ ed[e].drawing => ed[e].ready
             /\ ed[e].save.at \in {"idle", "put", "rpc", "saved", "error"}
  <2>1. ed[e] \in EditorRecords(m) /\ EditorOK(m, refreshes, ed[e])
    BY DEF MaskInv, MaskTyped
  <2>2. ed[e].save.at \in {"idle", "put", "rpc", "saved", "error"}
    BY <2>1 DEF EditorRecords, MaskSaves
  <2> QED BY <2>1, <2>2 DEF EditorRecords, KeptCells, EditorOK
<1>2. garment.rev \in 1..m.revisions /\ garment.photo \in 1..m.revisions
  BY DEF MaskInv, MaskTyped, Garments, MaskBounds
<1>3. maskJob.at \in {"none", "queued"}
  BY DEF MaskInv, MaskTyped, CutoutJobs
<1>4. Mask(m)!TypeOK
  BY <1>1, <1>2, <1>3 DEF Mask!TypeOK, MaskInv, MaskTyped
<1>5. Mask(m)!TintMatchesMask
  BY DEF Mask!TintMatchesMask, Mask!Tinted, MaskInv, EditorOK
<1>6. Mask(m)!HistoryStartsAtLoad
  BY DEF Mask!HistoryStartsAtLoad, MaskInv, EditorOK
<1>7. Mask(m)!OneCorrectionPerRevision
  BY DEF Mask!OneCorrectionPerRevision, MaskInv, CorrectedOnce
<1> QED BY <1>4, <1>5, <1>6, <1>7

(* For any editors, cells, depth of history and revisions, and whatever      *)
(* arrives late: what the editor shows is the mask it sends, its history     *)
(* leads back to what it loaded, and of the masks of one revision one        *)
(* applies.                                [repaint, snapshot, svc_submit_mask] *)
THEOREM AnyMaskAsShown ==
  ASSUME NEW m, MaskBounds(m)
  PROVE  Mask(m)!Spec => [](/\ Mask(m)!TypeOK /\ Mask(m)!TintMatchesMask
                            /\ Mask(m)!HistoryStartsAtLoad /\ Mask(m)!OneCorrectionPerRevision)
<1>1. Mask(m)!Init => MaskInv(m)
  BY MaskInit
<1>2. MaskInv(m) /\ [Mask(m)!Next]_(Mask(m)!vars) => MaskInv(m)'
  <2>1. ASSUME MaskInv(m), UNCHANGED Mask(m)!vars PROVE MaskInv(m)'
    <3>1. UNCHANGED maskVars
      BY <2>1 DEF Mask!vars, maskVars
    <3> QED BY <2>1, <3>1, MaskRests
  <2> QED BY <2>1, MaskNext
<1> QED BY <1>1, <1>2, MaskTypes, PTL DEF Mask!Spec

MasksInv ==
  /\ part = "strokes" => MaskInv(Strokes)
  /\ part = "corrections" => MaskInv(Corrections)

LEMMA MaskParts == MaskBounds(Strokes) /\ MaskBounds(Corrections)
BY DEF MaskBounds, Strokes, Corrections

LEMMA MasksInit == EditsInit => MasksInv
BY MaskParts, MaskInit DEF EditsInit, MasksInv

LEMMA MasksStep == MasksInv /\ [EditsNext]_<<part, vars, maskVars, profileVars>> => MasksInv'
<1> SUFFICES ASSUME MasksInv, [EditsNext]_<<part, vars, maskVars, profileVars>> PROVE MasksInv'
  OBVIOUS
<1>1. part' = part
  BY DEF EditsNext
<1>2. CASE UNCHANGED maskVars
  BY <1>1, <1>2, MaskRests DEF MasksInv
<1>3. CASE part = "strokes" /\ Mask(Strokes)!Next
  BY <1>1, <1>3, MaskParts, MaskNext DEF MasksInv
<1>4. CASE part = "corrections" /\ Mask(Corrections)!Next
  BY <1>1, <1>4, MaskParts, MaskNext DEF MasksInv
<1> QED BY <1>2, <1>3, <1>4 DEF EditsNext

(* What the editor shows is the mask it sends, its history leads back to     *)
(* what it loaded, and of two editors' masks of one revision one applies.    *)
(*                                         [repaint, snapshot, svc_submit_mask] *)
THEOREM ShownAsMasked == EditsSpec => []MaskIsAsShown
<1>1. MasksInv => MaskIsAsShown
  BY MaskParts, MaskTypes DEF MasksInv, MaskIsAsShown
<1> QED BY MasksInit, MasksStep, <1>1, PTL DEF EditsSpec

-----------------------------------------------------------------------------
(* The profile (ProfileEdits).                                               *)

(* What the code fixes of the constants: forms are told from the welcome     *)
(* page, and their fields from what that page saves.                         *)
ProfileBounds(p) ==
  /\ {p.revisions, p.keys} \subseteq Nat \ {0} /\ p.faults \in Nat /\ p.new \in BOOLEAN
  /\ "welcome" \notin p.tabs /\ "onboarding_completed" \notin p.fields

FieldValues == {"first", "own", "unknown"}
Forms(p) == {v \in [p.fields -> FieldValues] : \A f \in p.fields : v[f] \in Profile(p)!Values(f)}
Patched(p) == UNION {[D -> FieldValues] : D \in SUBSET p.fields}
Sendable(p) == Patched(p) \cup {Profile(p)!Welcomed}
FormRequests(p) == [key : 0..p.keys, patch : Sendable(p), rev : 0..p.revisions]
Views(p) == [val : Forms(p), rev : 1..p.revisions]
FormRecords(p) ==
  [view : Views(p), draft : Forms(p), touched : SUBSET p.fields,
   pending : FormRequests(p), request : FormRequests(p), save : Profile(p)!Waiting]
WelcomeRecords(p) ==
  [rev : 1..p.revisions, welcomed : BOOLEAN, request : FormRequests(p),
   save : Profile(p)!Waiting \cup {"left"}]
Sents(p) ==
  [key : 1..p.keys, patch : Sendable(p), rev : 1..p.revisions, from : p.tabs \cup {"welcome"},
   seen : Forms(p), touched : SUBSET (p.fields \cup {"onboarding_completed"})]
Receipts(p) ==
  [body : [patch : Sendable(p), rev : 0..p.revisions],
   result : [val : Forms(p), rev : 1..p.revisions, welcomed : BOOLEAN]]

ProfileTyped(p) ==
  /\ profile \in [val : Forms(p), rev : 1..p.revisions, welcomed : BOOLEAN]
  /\ \A f \in p.fields : profile.val[f] # "unknown"
  /\ DOMAIN saved \subseteq 1..profileKeys /\ \A k \in DOMAIN saved : saved[k] \in Receipts(p)
  /\ tab \in [p.tabs -> FormRecords(p)] /\ welcome \in WelcomeRecords(p) /\ wire \subseteq Sents(p)
  /\ profileKeys \in 1..p.keys /\ givenUp \in 0..p.faults

(* A request names a profile by its revision, and a revision one profile.    *)
Names(x) == x.rev <= profile.rev /\ (x.rev = profile.rev => x.val = profile.val)
RevisionsName(p) ==
  /\ \A t \in p.tabs : Names(tab[t].view)
  /\ \A k \in DOMAIN saved : Names(saved[k].result)
  /\ \A r \in wire : Names([rev |-> r.rev, val |-> r.seen])

(* A form's patch is of its fields, and a key of a form is that form's, sent *)
(* with one body only.                                                       *)
OfForm(p, patch) == patch \in Patched(p) /\ \A f \in DOMAIN patch : patch[f] \in Profile(p)!Values(f)
KeysOfForms(p) ==
  /\ \A r \in wire : r.from \in p.tabs =>
       /\ OfForm(p, r.patch) /\ r.key \in 2..profileKeys
       /\ \A t \in p.tabs : tab[t].request.key = r.key =>
            t = r.from /\ Profile(p)!Body(tab[t].request) = Profile(p)!Body(r)
  /\ \A t \in p.tabs :
       LET x == tab[t] IN
       /\ x.pending \in {Profile(p)!NoRequest, x.request}
       /\ x.request.key \in 0..profileKeys \ {1} /\ (x.save = "sent" => x.request.key # 0)
       /\ x.request.key = 0 => x.request = Profile(p)!NoRequest
       /\ \A u \in p.tabs : u # t => x.request.key = 0 \/ tab[u].request.key # x.request.key
       /\ x.request.key \in DOMAIN saved => saved[x.request.key].body = Profile(p)!Body(x.request)
       /\ x.save = "conflict" => x.request.rev < profile.rev
       /\ x.save = "refused" => ~Profile(p)!Valid(x.request)

(* The welcome page has one key, sent with rising revisions; an acceptance   *)
(* shows in the profile, so that a page that saw no acceptance sends what    *)
(* was accepted.                                                             *)
KeyOfWelcome(p) ==
  /\ \A r \in wire : r.from = "welcome" =>
       r.key = 1 /\ r.patch = Profile(p)!Welcomed /\ r.rev <= welcome.request.rev
  /\ welcome.request.rev <= welcome.rev /\ welcome.rev <= profile.rev
  /\ welcome.save = "sent" =>
       welcome.request.key = 1 /\ welcome.request.patch = Profile(p)!Welcomed
  /\ 1 \in DOMAIN saved =>
       /\ profile.welcomed
       /\ welcome.save = "sent" => saved[1].body = Profile(p)!Body(welcome.request)
       /\ ~welcome.welcomed => saved[1].body = [patch |-> Profile(p)!Welcomed, rev |-> welcome.rev]
  /\ welcome.save = "conflict" => welcome.request.rev < profile.rev
  /\ welcome.save # "refused"

ProfileInv(p) ==
  /\ ProfileTyped(p) /\ RevisionsName(p) /\ KeysOfForms(p) /\ KeyOfWelcome(p)
  /\ Profile(p)!AcceptedIsNotRefused /\ ~clash /\ ~overwritten

LEMMA ProfileInit ==
  ASSUME NEW p, ProfileBounds(p), Profile(p)!Init PROVE ProfileInv(p)
<1> DEFINE v == [f \in p.fields |-> "first"]
<1>v. v \in Forms(p)
  BY DEF Forms, FieldValues, Profile!Values, Profile!Init
<1>n. Profile(p)!NoRequest \in FormRequests(p)
  <2>1. Profile(p)!NoPatch \in Patched(p)
    <3>1. Profile(p)!NoPatch \in [{} -> FieldValues] /\ {} \in SUBSET p.fields
      BY DEF Profile!NoPatch, FieldValues, Profile!Init
    <3> QED BY <3>1 DEF Patched
  <2>2. 0 \in 0..p.keys /\ 0 \in 0..p.revisions
    BY DEF ProfileBounds, Profile!Init
  <2> QED BY <2>1, <2>2 DEF FormRequests, Profile!NoRequest, Sendable
<1>1. profile = [val |-> v, rev |-> 1, welcomed |-> ~p.new] /\ 1 \in 1..p.revisions /\ 1 \in 1..p.keys
  BY DEF ProfileBounds, Profile!Init
<1>t. \A t \in p.tabs : tab[t] = [view |-> [val |-> v, rev |-> 1], draft |-> v, touched |-> {},
          pending |-> Profile(p)!NoRequest, request |-> Profile(p)!NoRequest, save |-> "idle"]
  BY <1>1 DEF Profile!View, Profile!Init
<1>w. welcome = [rev |-> 1, welcomed |-> ~p.new, request |-> Profile(p)!NoRequest,
                save |-> IF p.new THEN "idle" ELSE "left"]
  BY DEF Profile!Init
<1>2. ProfileTyped(p)
  <2>1. profile \in [val : Forms(p), rev : 1..p.revisions, welcomed : BOOLEAN]
    BY <1>1, <1>v DEF ProfileBounds, Profile!Init
  <2>2. \A f \in p.fields : profile.val[f] # "unknown"
    BY <1>1 DEF Profile!Init
  <2>3. DOMAIN saved = {}
    BY DEF Profile!Init
  <2>4. [val |-> v, rev |-> 1] \in Views(p)
    BY <1>1, <1>v DEF Views, Profile!Init
  <2>5. ASSUME NEW t \in p.tabs PROVE tab[t] \in FormRecords(p)
    BY <2>4, <1>t, <1>v, <1>n DEF FormRecords, Profile!Waiting, Profile!Init
  <2>6. tab \in [p.tabs -> FormRecords(p)]
    BY <2>5 DEF Profile!Init
  <2>7. welcome \in WelcomeRecords(p)
    BY <1>1, <1>w, <1>n DEF WelcomeRecords, Profile!Waiting, ProfileBounds, Profile!Init
  <2>8. wire = {} /\ profileKeys \in 1..p.keys /\ givenUp \in 0..p.faults
    BY <1>1 DEF ProfileBounds, Profile!Init
  <2> QED BY <2>1, <2>2, <2>3, <2>6, <2>7, <2>8 DEF ProfileTyped
<1>3. RevisionsName(p)
  BY <1>1, <1>t DEF RevisionsName, Names, Profile!Init
<1>4. KeysOfForms(p)
  BY <1>1, <1>t DEF KeysOfForms, Profile!NoRequest, Profile!Init
<1>5. KeyOfWelcome(p)
  BY <1>1, <1>w DEF KeyOfWelcome, Profile!NoRequest, Profile!Init
<1>6. Profile(p)!AcceptedIsNotRefused
  BY <1>t, <1>w DEF Profile!AcceptedIsNotRefused, Profile!Init
<1> QED BY <1>2, <1>3, <1>4, <1>5, <1>6 DEF ProfileInv, Profile!Init

(* A step of one form that sends nothing.                                    *)
LEMMA FormStep ==
  ASSUME NEW p, ProfileBounds(p), ProfileInv(p), NEW t \in p.tabs, NEW y \in FormRecords(p),
         tab' = [tab EXCEPT ![t] = y], y.view \in {tab[t].view, Profile(p)!View},
         \/ y.request = tab[t].request /\ y.pending = tab[t].pending /\ y.save = tab[t].save
         \/ y.request = Profile(p)!NoRequest /\ y.pending = Profile(p)!NoRequest /\ y.save = "idle",
         Profile(p)!OnlyTabs
  PROVE  ProfileInv(p)'
<1>0. \A u \in p.tabs : tab'[u] = IF u = t THEN y ELSE tab[u]
  BY DEF ProfileInv, ProfileTyped, Profile!OnlyTabs
<1>n. Profile(p)!NoRequest.key = 0 /\ 0 \notin DOMAIN saved /\ \A r \in wire : r.key # 0
  BY DEF Profile!NoRequest, Sents, ProfileInv, ProfileTyped, Profile!OnlyTabs
<1>1. ProfileTyped(p)'
  BY <1>0 DEF ProfileInv, ProfileTyped, Profile!OnlyTabs
<1>2. RevisionsName(p)'
  BY <1>0 DEF RevisionsName, Names, Profile!View, ProfileInv, ProfileTyped, Profile!OnlyTabs
<1>3. KeysOfForms(p)'
  BY <1>0, <1>n DEF KeysOfForms, ProfileInv, ProfileTyped, Profile!OnlyTabs
<1>4. KeyOfWelcome(p)'
  BY DEF KeyOfWelcome, ProfileInv, ProfileTyped, Profile!OnlyTabs
<1>5. Profile(p)!AcceptedIsNotRefused'
  BY <1>0 DEF Profile!AcceptedIsNotRefused, ProfileInv, ProfileTyped, Profile!OnlyTabs
<1> QED BY <1>1, <1>2, <1>3, <1>4, <1>5 DEF ProfileInv, ProfileTyped, Profile!OnlyTabs

LEMMA FormMoves ==
  ASSUME NEW p, ProfileBounds(p), ProfileInv(p), NEW t \in p.tabs,
         Profile(p)!Refetch(t) \/ Profile(p)!Type(t) \/ Profile(p)!Reload(t)
  PROVE  ProfileInv(p)'
<1>v. Profile(p)!View \in Views(p) /\ Profile(p)!View.val \in Forms(p)
  BY DEF ProfileInv, ProfileTyped, Profile!View, Views
<1>t. PICK x \in FormRecords(p) : x = tab[t]
  BY DEF ProfileInv, ProfileTyped
<1>1. CASE Profile(p)!Refetch(t)
  <2>1. PICK y : y = [x EXCEPT !.view = Profile(p)!View]
    OBVIOUS
  <2>2. y \in FormRecords(p)
    BY <2>1, <1>t, <1>v DEF FormRecords
  <2>3. tab' = [tab EXCEPT ![t] = y]
    BY <1>1, <2>1, <1>t DEF Profile!Refetch
  <2>4. y.view = Profile(p)!View /\ y.request = x.request /\ y.pending = x.pending /\ y.save = x.save
    BY <2>1, <1>t DEF FormRecords
  <2> QED BY <1>1, <1>t, <2>2, <2>3, <2>4, FormStep DEF Profile!Refetch
<1>2. CASE Profile(p)!Type(t)
  <2>0. PICK f \in p.fields : \E w \in Profile(p)!Values(f) :
          tab' = [tab EXCEPT ![t].draft[f] = w, ![t].touched = tab[t].touched \cup {f}]
    BY <1>2 DEF Profile!Type
  <2>w. PICK w \in Profile(p)!Values(f) :
          tab' = [tab EXCEPT ![t].draft[f] = w, ![t].touched = tab[t].touched \cup {f}]
    BY <2>0
  <2>1. PICK y : y = [x EXCEPT !.draft = [x.draft EXCEPT ![f] = w], !.touched = x.touched \cup {f}]
    OBVIOUS
  <2>d. [x.draft EXCEPT ![f] = w] \in Forms(p)
    BY <1>t DEF FormRecords, Forms, FieldValues, Profile!Values
  <2>2. y \in FormRecords(p)
    BY <2>1, <1>t, <2>d DEF FormRecords
  <2>3. tab' = [tab EXCEPT ![t] = y]
    BY <2>w, <2>1, <1>t DEF ProfileInv, ProfileTyped, FormRecords
  <2>4. y.view = x.view /\ y.request = x.request /\ y.pending = x.pending /\ y.save = x.save
    BY <2>1, <1>t DEF FormRecords
  <2> QED BY <1>2, <1>t, <2>2, <2>3, <2>4, FormStep DEF Profile!Type
<1>3. CASE Profile(p)!Reload(t)
  <2>1. PICK y : y = [view |-> Profile(p)!View, draft |-> Profile(p)!View.val, touched |-> {},
             pending |-> Profile(p)!NoRequest, request |-> Profile(p)!NoRequest, save |-> "idle"]
    OBVIOUS
  <2>n. Profile(p)!NoRequest \in FormRequests(p)
    <3>1. Profile(p)!NoPatch \in [{} -> FieldValues] /\ {} \in SUBSET p.fields
      BY DEF Profile!NoPatch, FieldValues
    <3>2. 0 \in 0..p.keys /\ 0 \in 0..p.revisions
      BY DEF ProfileBounds
    <3> QED BY <3>1, <3>2 DEF FormRequests, Profile!NoRequest, Sendable, Patched
  <2>2. y \in FormRecords(p)
    BY <2>1, <2>n, <1>v DEF FormRecords, Profile!Waiting
  <2>3. tab' = [tab EXCEPT ![t] = y]
    BY <1>3, <2>1 DEF Profile!Reload, Profile!toForm
  <2> QED BY <1>3, <2>1, <2>2, <2>3, FormStep DEF Profile!Reload
<1> QED BY <1>1, <1>2, <1>3

LEMMA ProfileSubmit ==
  ASSUME NEW p, ProfileBounds(p), ProfileInv(p), NEW t \in p.tabs, Profile(p)!Submit(t)
  PROVE  ProfileInv(p)'
<1>t. PICK x \in FormRecords(p) : x = tab[t]
  BY DEF ProfileInv, ProfileTyped
<1>q. PICK q : q = Profile(p)!PatchOf(x)
  OBVIOUS
<1>v. q \in Patched(p) /\ \A f \in DOMAIN q : q[f] \in Profile(p)!Values(f)
  <2>1. q = [f \in {g \in p.fields : x.draft[g] # x.view.val[g]} |-> x.draft[f]]
    BY <1>q DEF Profile!PatchOf, Profile!toForm
  <2>2. \A f \in p.fields : x.draft[f] \in Profile(p)!Values(f) /\ x.draft[f] \in FieldValues
    BY <1>t DEF FormRecords, Forms
  <2>3. q \in [{g \in p.fields : x.draft[g] # x.view.val[g]} -> FieldValues]
    BY <2>1, <2>2
  <2> QED BY <2>1, <2>2, <2>3 DEF Patched
<1>r. PICK r : r = [key |-> IF ~Profile(p)!SameBody(x) THEN profileKeys + 1 ELSE x.pending.key,
                    patch |-> q, rev |-> x.view.rev]
  OBVIOUS
<1>k. /\ r.patch = q /\ r.rev = x.view.rev /\ r.rev \in 1..p.revisions
      /\ \/ r.key = profileKeys + 1 /\ profileKeys' = profileKeys + 1 /\ profileKeys < p.keys
         \/ profileKeys' = profileKeys /\ x.pending = r /\ x.request = r /\ r.key \in 2..profileKeys
  <2>1. /\ ~Profile(p)!SameBody(x) => profileKeys < p.keys /\ profileKeys' = profileKeys + 1
        /\ Profile(p)!SameBody(x) => profileKeys' = profileKeys
    BY <1>t DEF Profile!Submit
  <2>2. r.patch = q /\ r.rev = x.view.rev /\ r.rev \in 1..p.revisions
    BY <1>r, <1>t DEF FormRecords, Views
  <2>3. CASE Profile(p)!SameBody(x)
    <3>1. x.pending # Profile(p)!NoRequest /\ x.pending.patch = q /\ x.pending.rev = x.view.rev
      BY <2>3, <1>q DEF Profile!SameBody
    <3>2. x.pending = x.request
      BY <3>1, <1>t DEF ProfileInv, KeysOfForms
    <3>3. x.request.key \in 2..profileKeys
      <4>1. x.request.key \in 0..profileKeys \ {1} /\ x.request.key # 0
        BY <3>1, <3>2, <1>t DEF ProfileInv, KeysOfForms
      <4> QED BY <4>1 DEF ProfileInv, ProfileTyped
    <3>4. x.pending \in FormRequests(p)
      BY <1>t DEF FormRecords
    <3>5. x.pending = r
      BY <3>1, <3>4, <2>3, <1>r DEF FormRequests
    <3> QED BY <2>1, <2>2, <2>3, <3>2, <3>3, <3>5
  <2>4. CASE ~Profile(p)!SameBody(x)
    BY <2>1, <2>2, <2>4, <1>r
  <2> QED BY <2>3, <2>4
<1>n. /\ profileKeys' \in 1..p.keys /\ r.key \in 2..profileKeys' /\ profileKeys <= profileKeys'
      /\ r.key \in 1..p.keys /\ r.key \in 0..p.keys /\ r.rev \in 0..p.revisions
  <2>1. p.keys \in Nat /\ p.revisions \in Nat
    BY DEF ProfileBounds
  <2> QED BY <2>1, <1>k DEF ProfileInv, ProfileTyped
<1>y. PICK y : y = [x EXCEPT !.pending = r, !.request = r, !.save = "sent"]
  OBVIOUS
<1>m. PICK m : m = Profile(p)!Sent(r, t, x.view.val, x.touched)
  OBVIOUS
<1>q1. r \in FormRequests(p)
  <2>1. r.key \in 0..p.keys /\ r.rev \in 0..p.revisions /\ r.patch \in Sendable(p)
    BY <1>n, <1>k, <1>v DEF Sendable
  <2> QED BY <2>1, <1>r DEF FormRequests
<1>y1. y \in FormRecords(p)
  BY <1>y, <1>t, <1>q1 DEF FormRecords, Profile!Waiting
<1>m1. m \in Sents(p)
  <2>1. r.key \in 1..p.keys /\ r.rev \in 1..p.revisions /\ r.patch \in Sendable(p)
    BY <1>n, <1>k, <1>v DEF Sendable
  <2>2. x.view.val \in Forms(p) /\ x.touched \in SUBSET (p.fields \cup {"onboarding_completed"})
    BY <1>t DEF FormRecords, Views
  <2> QED BY <2>1, <2>2, <1>m DEF Sents, Profile!Sent
<1>0. /\ tab' = [tab EXCEPT ![t] = y] /\ wire' = wire \cup {m}
      /\ UNCHANGED <<profile, saved, welcome, clash, overwritten, reverted, givenUp>>
  BY <1>t, <1>r, <1>q, <1>y, <1>m DEF Profile!Submit
<1>u. \A u \in p.tabs : tab'[u] = IF u = t THEN y ELSE tab[u]
  BY <1>0 DEF ProfileInv, ProfileTyped
<1>f. /\ y.view = x.view /\ y.pending = r /\ y.request = r /\ y.save = "sent"
      /\ m.key = r.key /\ m.patch = r.patch /\ m.rev = r.rev /\ m.from = t /\ m.seen = x.view.val
  BY <1>y, <1>t, <1>m DEF FormRecords, Profile!Sent
<1>w. t # "welcome"
  BY DEF ProfileBounds
<1>1. ProfileTyped(p)'
  <2>1. DOMAIN saved \subseteq 1..profileKeys'
    BY <1>n DEF ProfileInv, ProfileTyped
  <2>2. tab' \in [p.tabs -> FormRecords(p)]
    BY <1>0, <1>y1 DEF ProfileInv, ProfileTyped
  <2> QED BY <2>1, <2>2, <1>0, <1>m1, <1>n DEF ProfileInv, ProfileTyped
<1>2. RevisionsName(p)'
  BY <1>0, <1>u, <1>f, <1>t, <1>k DEF ProfileInv, RevisionsName, Names
<1>3. KeysOfForms(p)'
  <2>1. ASSUME NEW z \in wire', z.from \in p.tabs
        PROVE  /\ OfForm(p, z.patch) /\ z.key \in 2..profileKeys'
               /\ \A u \in p.tabs : tab'[u].request.key = z.key =>
                    u = z.from /\ Profile(p)!Body(tab'[u].request) = Profile(p)!Body(z)
    <3>1. CASE z = m
      <4>1. OfForm(p, z.patch) /\ z.key \in 2..profileKeys'
        BY <3>1, <1>f, <1>k, <1>v, <1>n DEF OfForm
      <4>2. ASSUME NEW u \in p.tabs, tab'[u].request.key = z.key
            PROVE  u = t
        <5>1. CASE r.key = profileKeys + 1
          BY <4>2, <5>1, <3>1, <1>u, <1>f DEF ProfileInv, ProfileTyped, KeysOfForms
        <5>2. CASE x.request = r /\ r.key \in 2..profileKeys
          BY <4>2, <5>2, <3>1, <1>u, <1>f, <1>t DEF ProfileInv, KeysOfForms
        <5> QED BY <5>1, <5>2, <1>k
      <4> QED BY <4>1, <4>2, <3>1, <1>f, <1>u DEF Profile!Body
    <3>2. CASE z \in wire
      <4>1. /\ OfForm(p, z.patch) /\ z.key \in 2..profileKeys /\ z.key \in 2..profileKeys'
            /\ \A u \in p.tabs : tab[u].request.key = z.key =>
                 u = z.from /\ Profile(p)!Body(tab[u].request) = Profile(p)!Body(z)
        BY <3>2, <2>1, <1>n DEF ProfileInv, KeysOfForms, ProfileTyped
      <4>2. r.key = z.key => x.request = r
        BY <4>1, <1>k DEF ProfileInv, ProfileTyped
      <4> QED BY <4>1, <4>2, <1>u, <1>f, <1>t
    <3> QED BY <2>1, <3>1, <3>2, <1>0
  <2>2. ASSUME NEW u \in p.tabs, u # t
        PROVE  y.request.key # tab[u].request.key
    <3>1. tab[u].request.key \in 0..profileKeys
      BY DEF ProfileInv, KeysOfForms
    <3>2. CASE r.key = profileKeys + 1
      BY <3>1, <3>2, <1>f DEF ProfileInv, ProfileTyped
    <3>3. CASE x.request = r /\ r.key \in 2..profileKeys
      BY <2>2, <3>3, <1>f, <1>t DEF ProfileInv, KeysOfForms
    <3> QED BY <3>2, <3>3, <1>k
  <2>3. y.request.key \in DOMAIN saved => saved[y.request.key].body = Profile(p)!Body(y.request)
    <3>1. CASE r.key = profileKeys + 1
      BY <3>1, <1>f DEF ProfileInv, ProfileTyped
    <3>2. CASE x.request = r
      BY <3>2, <1>f, <1>t DEF ProfileInv, KeysOfForms
    <3> QED BY <3>1, <3>2, <1>k
  <2>4. y.request.key \in 0..profileKeys' \ {1} /\ y.request.key # 0
    BY <1>f, <1>n
  <2>5. ASSUME NEW u \in p.tabs PROVE tab[u].request.key \in 0..profileKeys' \ {1}
    BY <1>n DEF ProfileInv, KeysOfForms, ProfileTyped
  <2> QED BY <2>1, <2>2, <2>3, <2>4, <2>5, <1>u, <1>f, <1>0 DEF ProfileInv, KeysOfForms
<1>4. KeyOfWelcome(p)'
  BY <1>0, <1>f, <1>w DEF ProfileInv, KeyOfWelcome
<1>5. Profile(p)!AcceptedIsNotRefused'
  BY <1>0, <1>u, <1>f DEF ProfileInv, Profile!AcceptedIsNotRefused
<1> QED BY <1>0, <1>1, <1>2, <1>3, <1>4, <1>5 DEF ProfileInv

LEMMA WelcomeMoves ==
  ASSUME NEW p, ProfileBounds(p), ProfileInv(p),
         Profile(p)!RefetchBootstrap \/ Profile(p)!Finish \/ Profile(p)!OpenAnyway
  PROVE  ProfileInv(p)'
<1>w. PICK w \in WelcomeRecords(p) : w = welcome
  BY DEF ProfileInv, ProfileTyped
<1>p. profile.rev \in 1..p.revisions /\ profile.welcomed \in BOOLEAN
  BY DEF ProfileInv, ProfileTyped
<1>1. CASE \/ Profile(p)!RefetchBootstrap \/ Profile(p)!OpenAnyway
           \/ Profile(p)!Finish /\ welcome.welcomed
  <2>0. UNCHANGED <<profile, saved, tab, wire, clash, overwritten, reverted, profileKeys, givenUp>>
    BY <1>1 DEF Profile!RefetchBootstrap, Profile!OpenAnyway, Profile!Finish
  <2>1. PICK y : y = welcome'
    OBVIOUS
  <2>2. \/ y = [w EXCEPT !.rev = profile.rev, !.welcomed = profile.welcomed]
        \/ y = [w EXCEPT !.save = "left"]
    BY <1>1, <1>w, <2>1 DEF Profile!RefetchBootstrap, Profile!OpenAnyway, Profile!Finish, Profile!Bootstrap
  <2>3. y \in WelcomeRecords(p) /\ y.request = w.request
    BY <2>2, <1>w, <1>p DEF WelcomeRecords
  <2>4. \/ y.save = "left" /\ y.rev = w.rev /\ y.welcomed = w.welcomed
        \/ y.save = w.save /\ y.rev = profile.rev /\ y.welcomed = profile.welcomed
    BY <2>2, <1>w DEF WelcomeRecords
  <2>5. ProfileTyped(p)'
    BY <2>0, <2>1, <2>3 DEF ProfileInv, ProfileTyped
  <2>6. RevisionsName(p)' /\ KeysOfForms(p)'
    BY <2>0 DEF ProfileInv, RevisionsName, Names, KeysOfForms, OfForm
  <2>7. KeyOfWelcome(p)'
    <3>1. w.request.rev \in Int /\ w.rev \in Int /\ profile.rev \in Int
      BY <1>w, <1>p DEF WelcomeRecords, FormRequests
    <3> QED BY <3>1, <2>0, <2>1, <2>3, <2>4, <1>w DEF ProfileInv, KeyOfWelcome
  <2>8. Profile(p)!AcceptedIsNotRefused'
    BY <2>0, <2>1, <2>4, <1>w DEF ProfileInv, Profile!AcceptedIsNotRefused
  <2> QED BY <2>0, <2>5, <2>6, <2>7, <2>8 DEF ProfileInv
<1>2. CASE Profile(p)!Finish /\ ~welcome.welcomed
  <2>r. PICK r : r = [key |-> 1, patch |-> Profile(p)!Welcomed, rev |-> w.rev]
    OBVIOUS
  <2>m. PICK m : m = Profile(p)!Sent(r, "welcome", profile.val, {"onboarding_completed"})
    OBVIOUS
  <2>y. PICK y : y = [w EXCEPT !.save = "sent", !.request = r]
    OBVIOUS
  <2>0. /\ UNCHANGED <<profile, saved, tab, clash, overwritten, reverted, profileKeys, givenUp>>
        /\ wire' = wire \cup {m} /\ welcome' = y
    BY <1>2, <1>w, <2>r, <2>m, <2>y DEF Profile!Finish
  <2>1. /\ r.key = 1 /\ r.patch = Profile(p)!Welcomed /\ r.rev = w.rev
        /\ m.key = 1 /\ m.patch = Profile(p)!Welcomed /\ m.rev = w.rev /\ m.from = "welcome"
        /\ m.seen = profile.val
    BY <2>r, <2>m DEF Profile!Sent
  <2>2. y.save = "sent" /\ y.request = r /\ y.rev = w.rev /\ y.welcomed = w.welcomed
    BY <2>y, <1>w DEF WelcomeRecords
  <2>3. 1 \in 1..p.keys /\ 1 \in 0..p.keys /\ w.rev \in 1..p.revisions /\ w.rev \in 0..p.revisions
    BY <1>w DEF ProfileBounds, WelcomeRecords
  <2>4. m \in Sents(p)
    BY <2>r, <2>m, <2>3 DEF ProfileInv, ProfileTyped, Sents, Profile!Sent, Sendable
  <2>5. y \in WelcomeRecords(p)
    <3>1. r \in FormRequests(p)
      BY <2>r, <2>3 DEF FormRequests, Sendable
    <3> QED BY <3>1, <2>y, <1>w DEF WelcomeRecords, Profile!Waiting
  <2>6. ProfileTyped(p)'
    BY <2>0, <2>4, <2>5 DEF ProfileInv, ProfileTyped
  <2>7. RevisionsName(p)'
    <3>1. w.rev <= profile.rev
      BY <1>w DEF ProfileInv, KeyOfWelcome
    <3> QED BY <3>1, <2>0, <2>1 DEF ProfileInv, RevisionsName, Names
  <2>8. KeysOfForms(p)'
    <3>1. "welcome" \notin p.tabs
      BY DEF ProfileBounds
    <3> QED BY <3>1, <2>0, <2>1 DEF ProfileInv, KeysOfForms, OfForm
  <2>9. KeyOfWelcome(p)'
    <3>1. ASSUME NEW z \in wire', z.from = "welcome"
          PROVE  z.key = 1 /\ z.patch = Profile(p)!Welcomed /\ z.rev <= r.rev
      <4>1. CASE z \in wire
        <5>1. z.key = 1 /\ z.patch = Profile(p)!Welcomed /\ z.rev <= w.request.rev /\ w.request.rev <= w.rev
          BY <4>1, <3>1, <1>w DEF ProfileInv, KeyOfWelcome
        <5>2. z.rev \in Int /\ w.request.rev \in Int /\ w.rev \in Int
          BY <4>1, <1>w DEF ProfileInv, ProfileTyped, Sents, WelcomeRecords, FormRequests
        <5> QED BY <5>1, <5>2, <2>1
      <4>2. CASE z = m
        BY <4>2, <2>1, <2>3
      <4> QED BY <4>1, <4>2, <3>1, <2>0
    <3>2. r.rev <= w.rev
      BY <2>1, <2>3
    <3>3. 1 \in DOMAIN saved => saved[1].body = Profile(p)!Body(r)
      BY <1>2, <1>w, <2>1 DEF ProfileInv, KeyOfWelcome, Profile!Body
    <3> QED BY <3>1, <3>2, <3>3, <2>0, <2>1, <2>2, <1>w DEF ProfileInv, KeyOfWelcome
  <2>10. Profile(p)!AcceptedIsNotRefused'
    BY <2>0, <2>2 DEF ProfileInv, Profile!AcceptedIsNotRefused
  <2> QED BY <2>0, <2>6, <2>7, <2>8, <2>9, <2>10 DEF ProfileInv
<1> QED BY <1>1, <1>2

LEMMA ProfileGivesUp ==
  ASSUME NEW p, ProfileBounds(p), ProfileInv(p), NEW r \in wire, Profile(p)!GiveUp(r)
  PROVE  ProfileInv(p)'
<1>0. /\ UNCHANGED <<profile, saved, clash, overwritten, reverted, profileKeys>>
      /\ wire' \subseteq wire /\ givenUp' \in 0..p.faults
  BY DEF ProfileInv, ProfileTyped, ProfileBounds, Profile!GiveUp
<1>1. CASE r.from \in p.tabs /\ tab' = [tab EXCEPT ![r.from].save = "failed"] /\ UNCHANGED welcome
  <2>t. PICK x \in FormRecords(p) : x = tab[r.from]
    BY <1>1 DEF ProfileInv, ProfileTyped
  <2>y. PICK y : y = [x EXCEPT !.save = "failed"]
    OBVIOUS
  <2>1. /\ y \in FormRecords(p) /\ y.view = x.view /\ y.request = x.request /\ y.pending = x.pending
        /\ y.save = "failed"
    BY <2>t, <2>y DEF FormRecords, Profile!Waiting
  <2>2. tab' = [tab EXCEPT ![r.from] = y]
    BY <1>1, <2>t, <2>y DEF ProfileInv, ProfileTyped
  <2>3. \A u \in p.tabs : tab'[u] = IF u = r.from THEN y ELSE tab[u]
    BY <2>2 DEF ProfileInv, ProfileTyped
  <2>4. ProfileTyped(p)'
    BY <1>0, <1>1, <2>1, <2>2 DEF ProfileInv, ProfileTyped
  <2>5. RevisionsName(p)' /\ KeyOfWelcome(p)' /\ Profile(p)!AcceptedIsNotRefused'
    <3>1. RevisionsName(p)'
      BY <1>0, <1>1, <2>1, <2>3, <2>t DEF ProfileInv, RevisionsName, Names
    <3>2. KeyOfWelcome(p)'
      BY <1>0, <1>1 DEF ProfileInv, KeyOfWelcome
    <3>3. Profile(p)!AcceptedIsNotRefused'
      BY <1>0, <1>1, <2>1, <2>3 DEF ProfileInv, Profile!AcceptedIsNotRefused
    <3> QED BY <3>1, <3>2, <3>3
  <2>6. KeysOfForms(p)'
    <3>1. \A u \in p.tabs : tab'[u].request = tab[u].request /\ tab'[u].pending = tab[u].pending
      BY <2>1, <2>3, <2>t
    <3>2. \A u \in p.tabs : tab'[u].save = tab[u].save \/ tab'[u].save = "failed"
      BY <2>1, <2>3
    <3>3. KeysOfForms(p)
      BY DEF ProfileInv
    <3>4. ASSUME NEW z \in wire', z.from \in p.tabs
          PROVE  /\ OfForm(p, z.patch) /\ z.key \in 2..profileKeys'
                 /\ \A u \in p.tabs : tab'[u].request.key = z.key =>
                      u = z.from /\ Profile(p)!Body(tab'[u].request) = Profile(p)!Body(z)
      BY <1>0, <3>1, <3>3, <3>4 DEF KeysOfForms
    <3>5. ASSUME NEW u \in p.tabs
          PROVE  LET y0 == tab'[u] IN
                 /\ y0.pending \in {Profile(p)!NoRequest, y0.request}
                 /\ y0.request.key \in 0..profileKeys' \ {1} /\ (y0.save = "sent" => y0.request.key # 0)
                 /\ y0.request.key = 0 => y0.request = Profile(p)!NoRequest
                 /\ \A v \in p.tabs : v # u => y0.request.key = 0 \/ tab'[v].request.key # y0.request.key
                 /\ y0.request.key \in DOMAIN saved' =>
                      saved'[y0.request.key].body = Profile(p)!Body(y0.request)
                 /\ y0.save = "conflict" => y0.request.rev < profile'.rev
                 /\ y0.save = "refused" => ~Profile(p)!Valid(y0.request)
      BY <1>0, <3>1, <3>2, <3>3, <3>5 DEF KeysOfForms
    <3> QED BY <3>4, <3>5 DEF KeysOfForms, OfForm
  <2> QED BY <1>0, <2>4, <2>5, <2>6 DEF ProfileInv
<1>2. CASE welcome' = [welcome EXCEPT !.save = "failed"] /\ UNCHANGED tab
  <2>t. PICK x \in WelcomeRecords(p) : x = welcome
    BY <1>2 DEF ProfileInv, ProfileTyped
  <2>1. /\ welcome' \in WelcomeRecords(p) /\ welcome'.rev = x.rev /\ welcome'.request = x.request
        /\ welcome'.save = "failed" /\ welcome'.welcomed = x.welcomed
    BY <1>2, <2>t DEF WelcomeRecords, Profile!Waiting
  <2>4. ProfileTyped(p)'
    BY <1>0, <1>2, <2>1 DEF ProfileInv, ProfileTyped
  <2>5. RevisionsName(p)' /\ KeysOfForms(p)'
    <3>1. RevisionsName(p)'
      BY <1>0, <1>2 DEF ProfileInv, RevisionsName, Names
    <3>2. KeysOfForms(p)'
      BY <1>0, <1>2 DEF ProfileInv, KeysOfForms, OfForm
    <3> QED BY <3>1, <3>2
  <2>6. KeyOfWelcome(p)'
    BY <1>0, <2>1, <2>t DEF ProfileInv, KeyOfWelcome
  <2>7. Profile(p)!AcceptedIsNotRefused'
    BY <1>0, <1>2, <2>1 DEF ProfileInv, Profile!AcceptedIsNotRefused
  <2> QED BY <1>0, <2>4, <2>5, <2>6, <2>7 DEF ProfileInv
<1> QED BY <1>1, <1>2 DEF Profile!GiveUp

(* What an arriving request is told, and what it finds.                      *)
LEMMA ArrivalFacts ==
  ASSUME NEW p, ProfileBounds(p), ProfileInv(p), NEW r \in wire
  PROVE  /\ Profile(p)!Answer(r) \in {"saved", "conflict", "refused"}
         /\ r.from \in p.tabs => r.key # 1
         /\ Profile(p)!Waits(Profile(p)!Sender(r), r) =>
              /\ Profile(p)!Claimed(r) => saved[r.key].body = Profile(p)!Body(r)
              /\ Profile(p)!Answer(r) = "conflict" => r.rev < profile.rev /\ ~Profile(p)!Claimed(r)
              /\ Profile(p)!Answer(r) = "refused" => ~Profile(p)!Valid(r) /\ ~Profile(p)!Claimed(r)
<1>1. Profile(p)!Answer(r) \in {"saved", "conflict", "refused"}
  BY DEF Profile!Answer
<1>2. r.from \in p.tabs => r.key # 1
  BY DEF ProfileInv, ProfileTyped, KeysOfForms
<1>3. r.rev <= profile.rev /\ r.rev \in Int /\ profile.rev \in Int /\ r.from \in p.tabs \cup {"welcome"}
  <2>1. r.rev <= profile.rev
    BY DEF ProfileInv, RevisionsName, Names
  <2> QED BY <2>1 DEF ProfileInv, ProfileTyped, Sents
<1>4. ASSUME Profile(p)!Waits(Profile(p)!Sender(r), r), Profile(p)!Claimed(r)
      PROVE  saved[r.key].body = Profile(p)!Body(r)
  <2>1. CASE r.from = "welcome"
    BY <1>4, <2>1 DEF ProfileInv, KeyOfWelcome, Profile!Waits, Profile!Sender, Profile!Claimed
  <2>2. CASE r.from \in p.tabs /\ r.from # "welcome"
    BY <1>4, <2>2 DEF ProfileInv, KeysOfForms, Profile!Waits, Profile!Sender, Profile!Claimed
  <2> QED BY <2>1, <2>2, <1>3
<1> QED BY <1>1, <1>2, <1>3, <1>4 DEF Profile!Answer, Profile!AtRevision

(* An accepted request is of the current revision.                           *)
LEMMA AcceptedFacts ==
  ASSUME NEW p, NEW r, Profile(p)!Accepted(r)
  PROVE  r.rev = profile.rev /\ Profile(p)!Valid(r) /\ r.key \notin DOMAIN saved
BY DEF Profile!Accepted, Profile!Answer, Profile!AtRevision, Profile!Claimed

(* What an accepted save stores.                                             *)
LEMMA Stores ==
  ASSUME NEW p, ProfileBounds(p), ProfileInv(p), NEW r \in wire, Profile(p)!Accepted(r),
         profile.rev < p.revisions
  PROVE  \E u : /\ u = Profile(p)!Updated(r)
                /\ u \in [val : Forms(p), rev : 1..p.revisions, welcomed : BOOLEAN]
                /\ u.rev = profile.rev + 1 /\ \A f \in p.fields : u.val[f] # "unknown"
                /\ u.welcomed = (profile.welcomed \/ "onboarding_completed" \in DOMAIN r.patch)
<1>1. PICK v : v = Profile(p)!Merged(r)
  OBVIOUS
<1>2. v = [f \in p.fields |-> IF f \in DOMAIN r.patch THEN r.patch[f] ELSE profile.val[f]]
  BY <1>1 DEF Profile!Merged
<1>3. ASSUME NEW f \in p.fields
      PROVE  v[f] \in FieldValues /\ v[f] \in Profile(p)!Values(f) /\ v[f] # "unknown"
  <2>1. CASE f \in DOMAIN r.patch
    <3>1. r.patch[f] # "unknown"
      BY <2>1, AcceptedFacts DEF Profile!Valid
    <3>2. r.patch # Profile(p)!Welcomed
      BY <2>1 DEF Profile!Welcomed, ProfileBounds
    <3>3. r.from \in p.tabs
      BY <3>2 DEF ProfileInv, KeyOfWelcome, ProfileTyped, Sents
    <3>4. OfForm(p, r.patch)
      BY <3>3 DEF ProfileInv, KeysOfForms
    <3> QED BY <2>1, <3>1, <3>4, <1>2 DEF OfForm, Profile!Values, FieldValues
  <2>2. CASE f \notin DOMAIN r.patch
    BY <2>2, <1>2 DEF ProfileInv, ProfileTyped, Forms
  <2> QED BY <2>1, <2>2
<1>4. v \in Forms(p)
  BY <1>2, <1>3 DEF Forms
<1>5. profile.rev + 1 \in 1..p.revisions
  BY DEF ProfileInv, ProfileTyped, ProfileBounds
<1>6. PICK u : u = Profile(p)!Updated(r)
  OBVIOUS
<1>7. PICK b \in BOOLEAN : b = (profile.welcomed \/ "onboarding_completed" \in DOMAIN r.patch)
  OBVIOUS
<1>8. u = [val |-> v, rev |-> profile.rev + 1, welcomed |-> b]
  BY <1>1, <1>6, <1>7 DEF Profile!Updated
<1>9. u.val = v /\ u.rev = profile.rev + 1 /\ u.welcomed = b
  BY <1>8
<1>10. u \in [val : Forms(p), rev : 1..p.revisions, welcomed : BOOLEAN]
  BY <1>4, <1>5, <1>8
<1> QED BY <1>3, <1>6, <1>7, <1>9, <1>10

(* What hearing an answer does to a form: nothing, or to the one that waits  *)
(* what the answer says.                                                     *)
Told(p, r, x, y) ==
  \/ y = x
  \/ /\ Profile(p)!Waits(x, r) /\ y \in FormRecords(p)
     /\ \/ /\ Profile(p)!Answer(r) = "saved" /\ y.save = "idle"
           /\ y.request = Profile(p)!NoRequest /\ y.pending = Profile(p)!NoRequest
           /\ y.view.val = Profile(p)!Stored(r).val /\ y.view.rev = Profile(p)!Stored(r).rev
        \/ /\ Profile(p)!Answer(r) # "saved" /\ y.save = Profile(p)!Answer(r)
           /\ y.request = x.request /\ y.pending = Profile(p)!NoRequest /\ y.view = x.view

LEMMA FormTold ==
  ASSUME NEW p, ProfileBounds(p), ProfileInv(p), NEW r \in wire, Profile(p)!Arrive(r)
  PROVE  /\ tab' \in [p.tabs -> FormRecords(p)]
         /\ \A u \in p.tabs : IF u = r.from THEN Told(p, r, tab[u], tab'[u]) ELSE tab'[u] = tab[u]
<1>1. CASE r.from \notin p.tabs
  BY <1>1 DEF Profile!Arrive, Profile!Heard, ProfileInv, ProfileTyped
<1>2. CASE r.from \in p.tabs
  <2>t. PICK x \in FormRecords(p) : x = tab[r.from]
    BY <1>2 DEF ProfileInv, ProfileTyped
  <2>y. PICK y :
          y = CASE ~Profile(p)!Waits(x, r) -> x
                [] Profile(p)!Waits(x, r) /\ Profile(p)!Answer(r) = "saved" ->
                     Profile(p)!Result(r, Profile(p)!Stored(r))
                [] OTHER -> [x EXCEPT !.save = Profile(p)!Answer(r), !.pending = Profile(p)!NoRequest]
    OBVIOUS
  <2>1. tab' = [tab EXCEPT ![r.from] = y]
    BY <1>2, <2>t, <2>y DEF Profile!Arrive, Profile!Heard
  <2>n. Profile(p)!NoRequest \in FormRequests(p)
    <3>1. Profile(p)!NoPatch \in [{} -> FieldValues] /\ {} \in SUBSET p.fields
      BY DEF Profile!NoPatch, FieldValues
    <3>2. 0 \in 0..p.keys /\ 0 \in 0..p.revisions
      BY DEF ProfileBounds
    <3> QED BY <3>1, <3>2 DEF FormRequests, Profile!NoRequest, Sendable, Patched
  <2>2. CASE ~Profile(p)!Waits(x, r)
    <3>1. y = x
      BY <2>2, <2>y
    <3> QED BY <3>1, <2>1, <2>t DEF ProfileInv, ProfileTyped, Told
  <2>3. CASE Profile(p)!Waits(x, r) /\ Profile(p)!Answer(r) = "saved"
    <3>s. PICK s : s = Profile(p)!Stored(r)
      OBVIOUS
    <3>1. s.val \in Forms(p) /\ s.rev \in 1..p.revisions
      <4>1. CASE Profile(p)!Claimed(r)
        BY <4>1, <3>s DEF Profile!Stored, Profile!Claimed, ProfileInv, ProfileTyped, Receipts
      <4>2. CASE ~Profile(p)!Claimed(r)
        <5>1. Profile(p)!Accepted(r)
          BY <2>3, <4>2 DEF Profile!Accepted, Profile!Claimed
        <5>2. profile.rev < p.revisions
          BY <5>1 DEF Profile!Arrive, Profile!UpdateProfile
        <5> QED BY <5>1, <5>2, <4>2, <3>s, Stores DEF Profile!Stored
      <4> QED BY <4>1, <4>2
    <3>2. y = Profile(p)!Result(r, s)
      BY <2>3, <2>y, <3>s
    <3>3. [val |-> s.val, rev |-> s.rev] \in Views(p)
      BY <3>1 DEF Views
    <3>4. y = [view |-> [val |-> s.val, rev |-> s.rev], draft |-> s.val, touched |-> {},
               pending |-> Profile(p)!NoRequest, request |-> Profile(p)!NoRequest, save |-> "idle"]
      BY <3>2 DEF Profile!Result
    <3>5. y \in FormRecords(p)
      BY <3>1, <3>3, <3>4, <2>n DEF FormRecords, Profile!Waiting
    <3>6. Told(p, r, x, y)
      BY <2>3, <3>4, <3>5, <3>s DEF Told
    <3> QED BY <3>5, <3>6, <2>1, <2>t DEF ProfileInv, ProfileTyped
  <2>4. CASE Profile(p)!Waits(x, r) /\ Profile(p)!Answer(r) # "saved"
    <3>a. PICK a \in {"conflict", "refused"} : a = Profile(p)!Answer(r)
      BY <2>4, ArrivalFacts
    <3>1. y = [x EXCEPT !.save = a, !.pending = Profile(p)!NoRequest]
      BY <2>4, <2>y, <3>a
    <3>2. y \in FormRecords(p) /\ y.save = a /\ y.request = x.request
          /\ y.pending = Profile(p)!NoRequest /\ y.view = x.view
      BY <3>1, <2>n, <2>t DEF FormRecords, Profile!Waiting
    <3>3. Told(p, r, x, y)
      BY <2>4, <3>2, <3>a DEF Told
    <3> QED BY <3>2, <3>3, <2>1, <2>t DEF ProfileInv, ProfileTyped
  <2> QED BY <2>2, <2>3, <2>4
<1> QED BY <1>1, <1>2

LEMMA WelcomeTold ==
  ASSUME NEW p, ProfileBounds(p), ProfileInv(p), NEW r \in wire, Profile(p)!Arrive(r)
  PROVE  /\ welcome' \in WelcomeRecords(p)
         /\ \/ welcome' = welcome
            \/ /\ r.from = "welcome" /\ Profile(p)!Waits(welcome, r)
               /\ welcome'.rev = welcome.rev /\ welcome'.welcomed = welcome.welcomed
               /\ welcome'.request = welcome.request
               /\ welcome'.save = IF Profile(p)!Answer(r) = "saved" THEN "left" ELSE Profile(p)!Answer(r)
<1>1. welcome \in WelcomeRecords(p)
  BY DEF ProfileInv, ProfileTyped
<1>2. PICK a : a = IF Profile(p)!Answer(r) = "saved" THEN "left" ELSE Profile(p)!Answer(r)
  OBVIOUS
<1>3. a \in Profile(p)!Waiting \cup {"left"}
  BY <1>2, ArrivalFacts DEF Profile!Waiting
<1>4. \/ welcome' = welcome
      \/ /\ r.from = "welcome" /\ Profile(p)!Waits(welcome, r)
         /\ welcome' = [welcome EXCEPT !.save = a]
  BY <1>2 DEF Profile!Arrive, Profile!Heard
<1> QED BY <1>1, <1>2, <1>3, <1>4 DEF WelcomeRecords

LEMMA ArrivesNotAccepted ==
  ASSUME NEW p, ProfileBounds(p), ProfileInv(p), NEW r \in wire, Profile(p)!Arrive(r),
         ~Profile(p)!Accepted(r)
  PROVE  ProfileInv(p)'
<1>0. /\ UNCHANGED <<profile, saved, overwritten, reverted, profileKeys, givenUp>> /\ wire' \subseteq wire
  BY DEF Profile!Arrive, Profile!UpdateProfile
<1>c. ~clash'
  <2>1. ~clash /\ clash' = (clash \/ (Profile(p)!Claimed(r) /\ saved[r.key].body # Profile(p)!Body(r)
                                      /\ Profile(p)!Waits(Profile(p)!Sender(r), r)))
    BY DEF Profile!Arrive, Profile!UpdateProfile, ProfileInv
  <2> QED BY <2>1, ArrivalFacts
<1>t. /\ tab' \in [p.tabs -> FormRecords(p)]
      /\ \A u \in p.tabs : IF u = r.from THEN Told(p, r, tab[u], tab'[u]) ELSE tab'[u] = tab[u]
  BY FormTold
<1>s. r.from \in p.tabs => Profile(p)!Sender(r) = tab[r.from]
  BY DEF Profile!Sender, ProfileBounds
<1>w. r.from = "welcome" => Profile(p)!Sender(r) = welcome
  BY DEF Profile!Sender
<1>n. Profile(p)!NoRequest.key = 0 /\ 0 \notin DOMAIN saved /\ \A z \in wire : z.key # 0
  BY DEF Profile!NoRequest, Sents, ProfileInv, ProfileTyped
<1>1. ProfileTyped(p)'
  BY <1>0, <1>t, WelcomeTold DEF ProfileInv, ProfileTyped
<1>2. RevisionsName(p)'
  <2>1. ASSUME NEW u \in p.tabs PROVE Names(tab'[u].view)
    <3>1. CASE tab'[u] = tab[u] \/ tab'[u].view = tab[u].view
      BY <3>1 DEF ProfileInv, RevisionsName
    <3>2. CASE /\ Profile(p)!Answer(r) = "saved"
               /\ tab'[u].view.val = Profile(p)!Stored(r).val /\ tab'[u].view.rev = Profile(p)!Stored(r).rev
      <4>1. Profile(p)!Claimed(r)
        BY <3>2 DEF Profile!Accepted, Profile!Claimed
      <4> QED BY <3>2, <4>1 DEF ProfileInv, RevisionsName, Names, Profile!Stored, Profile!Claimed
    <3> QED BY <3>1, <3>2, <1>t DEF Told
  <2> QED BY <2>1, <1>0 DEF ProfileInv, RevisionsName, Names
<1>3. KeysOfForms(p)'
  <2>1. ASSUME NEW u \in p.tabs
        PROVE  \/ tab'[u].request = tab[u].request
               \/ tab'[u].request = Profile(p)!NoRequest
    BY <1>t DEF Told
  <2>2. ASSUME NEW u \in p.tabs
        PROVE  /\ tab'[u].pending \in {Profile(p)!NoRequest, tab'[u].request}
               /\ tab'[u].save = "sent" => tab'[u].request.key # 0
               /\ tab'[u].save = "conflict" => tab'[u].request.rev < profile.rev
               /\ tab'[u].save = "refused" => ~Profile(p)!Valid(tab'[u].request)
    <3>1. CASE tab'[u] = tab[u]
      BY <3>1 DEF ProfileInv, KeysOfForms
    <3>2. CASE u = r.from /\ tab'[u].request = Profile(p)!NoRequest /\ tab'[u].save = "idle"
               /\ tab'[u].pending = Profile(p)!NoRequest
      BY <3>2
    <3>3. CASE /\ u = r.from /\ Profile(p)!Waits(tab[u], r) /\ Profile(p)!Answer(r) # "saved"
               /\ tab'[u].request = tab[u].request
               /\ tab'[u].pending = Profile(p)!NoRequest /\ tab'[u].save = Profile(p)!Answer(r)
      <4>1. /\ tab'[u].save \in {"conflict", "refused"}
            /\ tab'[u].save = "conflict" => r.rev < profile.rev
            /\ tab'[u].save = "refused" => ~Profile(p)!Valid(r)
        BY <3>3, <1>s, ArrivalFacts
      <4>2. tab[u].request.rev = r.rev /\ tab[u].request.patch = r.patch
        BY <3>3 DEF Profile!Waits, Profile!Body
      <4> QED BY <3>3, <4>1, <4>2 DEF Profile!Valid
    <3> QED BY <3>1, <3>2, <3>3, <1>t DEF Told
  <2>3. \A u \in p.tabs : tab'[u].request.key \in {0, tab[u].request.key}
    BY <2>1, <1>n
  <2>4. ASSUME NEW z \in wire', z.from \in p.tabs
        PROVE  /\ OfForm(p, z.patch) /\ z.key \in 2..profileKeys
               /\ \A u \in p.tabs : tab'[u].request.key = z.key =>
                    u = z.from /\ Profile(p)!Body(tab'[u].request) = Profile(p)!Body(z)
    BY <2>1, <2>4, <1>0, <1>n DEF ProfileInv, KeysOfForms
  <2>5. ASSUME NEW u \in p.tabs
        PROVE  /\ tab'[u].request.key \in 0..profileKeys \ {1}
               /\ tab'[u].request.key = 0 => tab'[u].request = Profile(p)!NoRequest
               /\ tab'[u].request.key \in DOMAIN saved =>
                    saved[tab'[u].request.key].body = Profile(p)!Body(tab'[u].request)
               /\ \A v \in p.tabs : v # u =>
                    tab'[u].request.key = 0 \/ tab'[v].request.key # tab'[u].request.key
    <3>1. 0 \in 0..profileKeys \ {1}
      BY DEF ProfileInv, ProfileTyped
    <3> QED BY <3>1, <2>1, <2>3, <1>n DEF ProfileInv, KeysOfForms
  <2> QED BY <2>2, <2>4, <2>5, <1>0 DEF KeysOfForms, OfForm
<1>4. KeyOfWelcome(p)'
  <2>1. CASE welcome' = welcome
    BY <2>1, <1>0 DEF ProfileInv, KeyOfWelcome
  <2>2. CASE /\ r.from = "welcome" /\ Profile(p)!Waits(welcome, r)
             /\ welcome'.rev = welcome.rev /\ welcome'.welcomed = welcome.welcomed
             /\ welcome'.request = welcome.request
             /\ welcome'.save = IF Profile(p)!Answer(r) = "saved" THEN "left" ELSE Profile(p)!Answer(r)
    <3>1. Profile(p)!Valid(r)
      BY <2>2 DEF ProfileInv, KeyOfWelcome, Profile!Valid, Profile!Welcomed
    <3>2. welcome'.save \in {"left", "conflict"}
          /\ (welcome'.save = "conflict" => welcome.request.rev < profile.rev)
      <4>1. welcome.request.rev = r.rev
        BY <2>2 DEF Profile!Waits, Profile!Body
      <4> QED BY <3>1, <2>2, <4>1, <1>w, ArrivalFacts
    <3> QED BY <3>2, <2>2, <1>0 DEF ProfileInv, KeyOfWelcome
  <2> QED BY <2>1, <2>2, WelcomeTold
<1>5. Profile(p)!AcceptedIsNotRefused'
  <2>1. ASSUME NEW u \in p.tabs, tab'[u].save \in {"conflict", "refused"}
        PROVE  tab'[u].request.key \notin DOMAIN saved
    <3>1. CASE tab'[u] = tab[u]
      BY <3>1, <2>1 DEF ProfileInv, Profile!AcceptedIsNotRefused
    <3>2. CASE /\ u = r.from /\ Profile(p)!Waits(tab[u], r) /\ Profile(p)!Answer(r) # "saved"
               /\ tab'[u].request = tab[u].request
      <4>1. ~Profile(p)!Claimed(r) /\ tab[u].request.key = r.key
        BY <3>2, <1>s, ArrivalFacts DEF Profile!Waits
      <4> QED BY <4>1, <3>2 DEF Profile!Claimed
    <3> QED BY <2>1, <3>1, <3>2, <1>t DEF Told
  <2>2. ASSUME welcome'.save \in {"conflict", "refused"} PROVE 1 \notin DOMAIN saved
    <3>1. CASE welcome' = welcome
      BY <3>1, <2>2 DEF ProfileInv, Profile!AcceptedIsNotRefused
    <3>2. CASE r.from = "welcome" /\ Profile(p)!Waits(welcome, r) /\ Profile(p)!Answer(r) # "saved"
      <4>1. ~Profile(p)!Claimed(r) /\ r.key = 1
        BY <3>2, <1>w, ArrivalFacts DEF ProfileInv, KeyOfWelcome
      <4> QED BY <4>1 DEF Profile!Claimed
    <3>3. welcome' # welcome => Profile(p)!Answer(r) # "saved"
      BY <2>2, WelcomeTold
    <3> QED BY <3>1, <3>2, <3>3, WelcomeTold
  <2> QED BY <2>1, <2>2, <1>0 DEF Profile!AcceptedIsNotRefused
<1> QED BY <1>0, <1>c, <1>1, <1>2, <1>3, <1>4, <1>5 DEF ProfileInv

LEMMA ArrivesAccepted ==
  ASSUME NEW p, ProfileBounds(p), ProfileInv(p), NEW r \in wire, Profile(p)!Arrive(r),
         Profile(p)!Accepted(r)
  PROVE  ProfileInv(p)'
<1>r. r \in Sents(p) /\ r.rev = profile.rev /\ r.key \notin DOMAIN saved /\ Profile(p)!Valid(r)
      /\ Profile(p)!Answer(r) = "saved" /\ ~Profile(p)!Claimed(r) /\ profile.rev < p.revisions
  BY AcceptedFacts DEF ProfileInv, ProfileTyped, Profile!Accepted, Profile!Claimed, Profile!Arrive,
    Profile!UpdateProfile
<1>u. PICK u \in [val : Forms(p), rev : 1..p.revisions, welcomed : BOOLEAN] :
        /\ u = Profile(p)!Updated(r) /\ u.rev = profile.rev + 1 /\ \A f \in p.fields : u.val[f] # "unknown"
        /\ u.welcomed = (profile.welcomed \/ "onboarding_completed" \in DOMAIN r.patch)
  BY <1>r, Stores
<1>v. profile.rev \in Int /\ p.keys \in Int /\ p.revisions \in Int /\ profileKeys \in 1..p.keys
  BY DEF ProfileInv, ProfileTyped, ProfileBounds
<1>k. r.key \in 1..profileKeys
  <2>1. CASE r.from = "welcome"
    BY <2>1, <1>v DEF ProfileInv, KeyOfWelcome
  <2>2. CASE r.from \in p.tabs
    BY <2>2, <1>v DEF ProfileInv, KeysOfForms
  <2> QED BY <2>1, <2>2, <1>r DEF Sents
<1>b. PICK b : b = [body |-> Profile(p)!Body(r), result |-> u]
  OBVIOUS
<1>0. /\ wire' = wire \ {r} /\ profile' = u
      /\ saved' = [k \in DOMAIN saved \cup {r.key} |-> IF k = r.key THEN b ELSE saved[k]]
      /\ UNCHANGED <<profileKeys, givenUp>>
  BY <1>u, <1>b DEF Profile!Arrive, Profile!UpdateProfile
<1>s. /\ DOMAIN saved' = DOMAIN saved \cup {r.key} /\ saved'[r.key] = b
      /\ b.body = Profile(p)!Body(r) /\ b.result = u
      /\ \A k \in DOMAIN saved : saved'[k] = saved[k] /\ k # r.key
  BY <1>0, <1>b, <1>r
<1>c. ~clash' /\ ~overwritten'
  <2>1. /\ ~clash /\ clash' = (clash \/ (Profile(p)!Claimed(r) /\ saved[r.key].body # Profile(p)!Body(r)
                                      /\ Profile(p)!Waits(Profile(p)!Sender(r), r)))
        /\ ~overwritten
        /\ overwritten' = (overwritten \/ \E f \in DOMAIN r.patch \cap p.fields : profile.val[f] # r.seen[f])
    BY DEF Profile!Arrive, Profile!UpdateProfile, ProfileInv
  <2>2. profile.val = r.seen
    BY <1>r DEF ProfileInv, RevisionsName, Names
  <2> QED BY <2>1, <2>2, <1>r
<1>t. /\ tab' \in [p.tabs -> FormRecords(p)]
      /\ \A t \in p.tabs :
           \/ tab'[t] = tab[t]
           \/ /\ t = r.from /\ Profile(p)!Waits(tab[t], r)
              /\ tab'[t].request = Profile(p)!NoRequest /\ tab'[t].pending = Profile(p)!NoRequest
              /\ tab'[t].save = "idle" /\ tab'[t].view.val = u.val /\ tab'[t].view.rev = u.rev
  BY <1>r, <1>u, FormTold DEF Told, Profile!Stored
<1>n. Profile(p)!NoRequest.key = 0 /\ r.key # 0 /\ 0 \notin DOMAIN saved' /\ \A z \in wire : z.key # 0
  BY <1>s, <1>k DEF Profile!NoRequest, Sents, ProfileInv, ProfileTyped
<1>1. ProfileTyped(p)'
  <2>1. b \in Receipts(p)
    <3>1. r.rev \in 0..p.revisions /\ r.patch \in Sendable(p)
      BY <1>r DEF Sents
    <3> QED BY <3>1, <1>b, <1>u DEF Receipts, Profile!Body
  <2> QED BY <2>1, <1>0, <1>s, <1>t, <1>u, <1>k, <1>v, WelcomeTold DEF ProfileInv, ProfileTyped
<1>2. RevisionsName(p)'
  <2>1. \A x : Names(x) /\ x.rev \in Int => x.rev <= profile'.rev /\ x.rev # profile'.rev
    BY <1>0, <1>u, <1>v DEF Names
  <2>2. ASSUME NEW t \in p.tabs PROVE Names(tab[t].view) /\ tab[t].view.rev \in Int
    BY DEF ProfileInv, RevisionsName, ProfileTyped, FormRecords, Views
  <2>3. ASSUME NEW k \in DOMAIN saved PROVE Names(saved[k].result) /\ saved[k].result.rev \in Int
    BY DEF ProfileInv, RevisionsName, ProfileTyped, Receipts
  <2>4. ASSUME NEW z \in wire
        PROVE  /\ Names([rev |-> z.rev, val |-> z.seen]) /\ [rev |-> z.rev, val |-> z.seen].rev \in Int
    BY DEF ProfileInv, RevisionsName, ProfileTyped, Sents
  <2>5. u.rev <= profile'.rev /\ u.val = profile'.val
    BY <1>0, <1>u, <1>v
  <2>6. ASSUME NEW t \in p.tabs
        PROVE  /\ tab'[t].view.rev <= profile'.rev
               /\ tab'[t].view.rev = profile'.rev => tab'[t].view.val = profile'.val
    BY <2>1, <2>2, <2>5, <1>t
  <2>7. \A k \in DOMAIN saved' : Names(saved[k].result)'
    BY <2>1, <2>3, <2>5, <1>s DEF Names
  <2>8. \A z \in wire' : Names([rev |-> z.rev, val |-> z.seen])'
    BY <2>1, <2>4, <1>0 DEF Names
  <2> QED BY <2>5, <2>6, <2>7, <2>8 DEF RevisionsName, Names
<1>3. KeysOfForms(p)'
  <2>1. ASSUME NEW t \in p.tabs
        PROVE  /\ \/ tab'[t].request = tab[t].request
                  \/ tab'[t].request = Profile(p)!NoRequest
               /\ tab'[t].request.key \in {0, tab[t].request.key}
               /\ tab'[t].request.key = 0 => tab'[t].request = Profile(p)!NoRequest
    <3>1. tab[t].request.key = 0 => tab[t].request = Profile(p)!NoRequest
      BY DEF ProfileInv, KeysOfForms
    <3> QED BY <3>1, <1>t, <1>n
  <2>2. ASSUME NEW t \in p.tabs
        PROVE  /\ tab'[t].pending \in {Profile(p)!NoRequest, tab'[t].request}
               /\ tab'[t].save = "sent" => tab'[t].request.key # 0
               /\ tab'[t].save = "conflict" => tab'[t].request.rev < profile'.rev
               /\ tab'[t].save = "refused" => ~Profile(p)!Valid(tab'[t].request)
    <3>1. CASE tab'[t] = tab[t]
      <4>1. tab[t].request.rev \in Int
        BY DEF ProfileInv, ProfileTyped, FormRecords, FormRequests
      <4> QED BY <3>1, <4>1, <1>0, <1>u, <1>v DEF ProfileInv, KeysOfForms
    <3>2. CASE tab'[t].pending = Profile(p)!NoRequest /\ tab'[t].save = "idle"
      BY <3>2
    <3> QED BY <3>1, <3>2, <1>t
  <2>3. ASSUME NEW t \in p.tabs, tab'[t].request.key \in DOMAIN saved'
        PROVE  saved'[tab'[t].request.key].body = Profile(p)!Body(tab'[t].request)
    <3>1. tab'[t].request = tab[t].request
      BY <2>1, <2>3, <1>n
    <3>2. CASE tab[t].request.key \in DOMAIN saved
      BY <3>1, <3>2, <1>s DEF ProfileInv, KeysOfForms
    <3>3. CASE tab[t].request.key = r.key
      <4>1. r.key # 1 => r.from \in p.tabs
        BY <1>r DEF ProfileInv, KeyOfWelcome, Sents
      <4>2. tab[t].request.key # 1
        BY DEF ProfileInv, KeysOfForms
      <4> QED BY <3>1, <3>3, <4>1, <4>2, <1>s DEF ProfileInv, KeysOfForms
    <3> QED BY <2>3, <3>1, <3>2, <3>3, <1>s
  <2>4. ASSUME NEW z \in wire', z.from \in p.tabs
        PROVE  /\ OfForm(p, z.patch) /\ z.key \in 2..profileKeys
               /\ \A t \in p.tabs : tab'[t].request.key = z.key =>
                    t = z.from /\ Profile(p)!Body(tab'[t].request) = Profile(p)!Body(z)
    BY <2>1, <2>4, <1>0, <1>n DEF ProfileInv, KeysOfForms
  <2>5. ASSUME NEW t \in p.tabs
        PROVE  /\ tab'[t].request.key \in 0..profileKeys \ {1}
               /\ \A v \in p.tabs : v # t =>
                    tab'[t].request.key = 0 \/ tab'[v].request.key # tab'[t].request.key
    <3>1. 0 \in 0..profileKeys \ {1}
      BY <1>v
    <3> QED BY <3>1, <2>1, <1>n DEF ProfileInv, KeysOfForms
  <2> QED BY <2>1, <2>2, <2>3, <2>4, <2>5, <1>0 DEF KeysOfForms, OfForm
<1>4. KeyOfWelcome(p)'
  <2>1. /\ welcome'.rev = welcome.rev /\ welcome'.request = welcome.request
        /\ welcome'.welcomed = welcome.welcomed
        /\ \/ welcome'.save = welcome.save
           \/ welcome'.save = "left"
    BY <1>r, WelcomeTold
  <2>2. \A z \in wire' : z.from = "welcome" =>
          z.key = 1 /\ z.patch = Profile(p)!Welcomed /\ z.rev <= welcome'.request.rev
    BY <2>1, <1>0 DEF ProfileInv, KeyOfWelcome
  <2>i. welcome.rev \in Int /\ welcome.request.rev \in Int
    BY DEF ProfileInv, ProfileTyped, WelcomeRecords, FormRequests
  <2>3. welcome'.request.rev <= welcome'.rev /\ welcome'.rev <= profile'.rev
        /\ (welcome'.save = "conflict" => welcome'.request.rev < profile'.rev) /\ welcome'.save # "refused"
    BY <2>1, <2>i, <1>0, <1>u, <1>v DEF ProfileInv, KeyOfWelcome
  <2>4. ASSUME 1 \in DOMAIN saved'
        PROVE  /\ profile'.welcomed
               /\ welcome'.save = "sent" => saved'[1].body = Profile(p)!Body(welcome'.request)
               /\ ~welcome'.welcomed =>
                    saved'[1].body = [patch |-> Profile(p)!Welcomed, rev |-> welcome'.rev]
    <3>1. CASE 1 \in DOMAIN saved
      BY <3>1, <2>1, <1>s, <1>0, <1>u DEF ProfileInv, KeyOfWelcome
    <3>2. CASE r.key = 1
      <4>1. r.from = "welcome" /\ r.patch = Profile(p)!Welcomed /\ r.rev <= welcome.request.rev
            /\ welcome.request.rev <= welcome.rev /\ welcome.rev <= profile.rev
        BY <3>2, <1>r DEF ProfileInv, KeyOfWelcome, KeysOfForms, Sents
      <4>2. r.rev = welcome.request.rev /\ r.rev = welcome.rev
        BY <4>1, <2>i, <1>r, <1>v
      <4>3. profile'.welcomed
        BY <4>1, <1>0, <1>u DEF Profile!Welcomed
      <4>4. welcome.save = "sent" => welcome.request.patch = Profile(p)!Welcomed
        BY DEF ProfileInv, KeyOfWelcome
      <4>5. saved'[1].body = [patch |-> Profile(p)!Welcomed, rev |-> welcome.rev]
        BY <4>1, <4>2, <3>2, <1>s DEF Profile!Body
      <4>6. welcome.save = "sent" =>
              Profile(p)!Body(welcome.request) = [patch |-> Profile(p)!Welcomed, rev |-> welcome.rev]
        BY <4>2, <4>4 DEF Profile!Body
      <4>7. /\ welcome'.rev = welcome.rev
            /\ welcome'.save = "sent" => welcome.save = "sent" /\ welcome'.request = welcome.request
        BY <2>1
      <4>8. welcome'.save = "sent" => saved'[1].body = Profile(p)!Body(welcome'.request)
        BY <4>5, <4>6, <4>7
      <4> QED BY <4>3, <4>5, <4>7, <4>8
    <3> QED BY <2>4, <3>1, <3>2, <1>s
  <2>5. welcome'.save = "sent" =>
          welcome'.request.key = 1 /\ welcome'.request.patch = Profile(p)!Welcomed
    BY <2>1 DEF ProfileInv, KeyOfWelcome
  <2> QED BY <2>2, <2>3, <2>4, <2>5 DEF KeyOfWelcome
<1>5. Profile(p)!AcceptedIsNotRefused'
  <2>1. ASSUME NEW t \in p.tabs, tab'[t].save \in {"conflict", "refused"}
        PROVE  tab'[t].request.key \notin DOMAIN saved'
    <3>1. tab'[t] = tab[t]
      BY <2>1, <1>t
    <3>2. tab[t].request.key # r.key
      <4>1. SUFFICES ASSUME tab[t].request.key = r.key PROVE FALSE
        OBVIOUS
      <4>2. r.from \in p.tabs
        <5>1. r.key # 1
          BY <4>1 DEF ProfileInv, KeysOfForms
        <5> QED BY <5>1, <1>r DEF ProfileInv, KeyOfWelcome, Sents
      <4>3. tab[t].request.rev = r.rev /\ tab[t].request.patch = r.patch
        BY <4>1, <4>2 DEF ProfileInv, KeysOfForms, Profile!Body
      <4>4. /\ tab[t].save = "conflict" => tab[t].request.rev < profile.rev
            /\ tab[t].save = "refused" => ~Profile(p)!Valid(tab[t].request)
        BY DEF ProfileInv, KeysOfForms
      <4> QED BY <2>1, <3>1, <4>3, <4>4, <1>r, <1>v DEF Profile!Valid
    <3> QED BY <2>1, <3>1, <3>2, <1>s DEF ProfileInv, Profile!AcceptedIsNotRefused
  <2>2. ASSUME welcome'.save \in {"conflict", "refused"} PROVE 1 \notin DOMAIN saved'
    <3>1. welcome' = welcome
      BY <2>2, <1>r, WelcomeTold
    <3>2. r.key # 1
      <4>1. SUFFICES ASSUME r.key = 1 PROVE FALSE
        OBVIOUS
      <4>2. r.from = "welcome" /\ r.rev <= welcome.request.rev
        BY <4>1, <1>r DEF ProfileInv, KeyOfWelcome, KeysOfForms, Sents
      <4>3. welcome.request.rev < profile.rev /\ welcome.request.rev \in Int
        BY <2>2, <3>1 DEF ProfileInv, KeyOfWelcome, ProfileTyped, WelcomeRecords, FormRequests
      <4> QED BY <4>2, <4>3, <1>r, <1>v
    <3> QED BY <2>2, <3>1, <3>2, <1>s DEF ProfileInv, Profile!AcceptedIsNotRefused
  <2> QED BY <2>1, <2>2 DEF Profile!AcceptedIsNotRefused
<1> QED BY <1>c, <1>1, <1>2, <1>3, <1>4, <1>5 DEF ProfileInv

-----------------------------------------------------------------------------
LEMMA ProfileNext ==
  ASSUME NEW p, ProfileBounds(p), ProfileInv(p), Profile(p)!Next PROVE ProfileInv(p)'
<1>1. CASE \E t \in p.tabs : \/ Profile(p)!Refetch(t) \/ Profile(p)!Type(t) \/ Profile(p)!Reload(t)
                             \/ Profile(p)!Submit(t)
  BY <1>1, FormMoves, ProfileSubmit
<1>2. CASE Profile(p)!RefetchBootstrap \/ Profile(p)!Finish \/ Profile(p)!OpenAnyway
  BY <1>2, WelcomeMoves
<1>3. CASE \E r \in wire : Profile(p)!Arrive(r)
  BY <1>3, ArrivesAccepted, ArrivesNotAccepted
<1>4. CASE \E r \in wire : Profile(p)!GiveUp(r)
  BY <1>4, ProfileGivesUp
<1> QED BY <1>1, <1>2, <1>3, <1>4 DEF Profile!Next

LEMMA ProfileRests ==
  ASSUME NEW p, ProfileInv(p), UNCHANGED profileVars PROVE ProfileInv(p)'
<1>0. UNCHANGED <<profile, saved, tab, welcome, wire, clash, overwritten, profileKeys, givenUp>>
  BY DEF profileVars
<1>1. ProfileTyped(p)'
  BY <1>0 DEF ProfileInv, ProfileTyped
<1>2. RevisionsName(p)'
  BY <1>0 DEF ProfileInv, RevisionsName, Names
<1>3. KeysOfForms(p)'
  BY <1>0 DEF ProfileInv, KeysOfForms, OfForm
<1>4. KeyOfWelcome(p)'
  BY <1>0 DEF ProfileInv, KeyOfWelcome
<1>5. Profile(p)!AcceptedIsNotRefused'
  BY <1>0 DEF ProfileInv, Profile!AcceptedIsNotRefused
<1> QED BY <1>0, <1>1, <1>2, <1>3, <1>4, <1>5 DEF ProfileInv

LEMMA ProfileTypes ==
  ASSUME NEW p, ProfileBounds(p), ProfileInv(p) PROVE Profile(p)!TypeOK
<1>1. ASSUME NEW t \in p.tabs
      PROVE  /\ tab[t].save \in Profile(p)!Waiting
             /\ tab[t].save = "sent" => tab[t].request.key \in 1..profileKeys
             /\ tab[t].view.rev <= profile.rev
             /\ \A f \in p.fields : tab[t].draft[f] \in Profile(p)!Values(f)
  <2>1. tab[t] \in FormRecords(p) /\ profileKeys \in 1..p.keys
    BY DEF ProfileInv, ProfileTyped
  <2>2. tab[t].save = "sent" => tab[t].request.key \in 1..profileKeys
    BY <2>1 DEF ProfileInv, KeysOfForms
  <2> QED BY <2>1, <2>2 DEF FormRecords, Forms, ProfileInv, RevisionsName, Names
<1>2. ASSUME NEW r \in wire
      PROVE  r.from \in p.tabs \cup {"welcome"} /\ r.key \in 1..profileKeys
  <2>1. r \in Sents(p) /\ profileKeys \in 1..p.keys
    BY DEF ProfileInv, ProfileTyped
  <2> QED BY <2>1 DEF ProfileInv, KeysOfForms, KeyOfWelcome, Sents
<1>3. profileKeys \in 0..p.keys /\ DOMAIN saved \subseteq 1..p.keys
  BY DEF ProfileInv, ProfileTyped, ProfileBounds
<1>4. \A f \in p.fields : profile.val[f] \in Profile(p)!Values(f) \ {"unknown"}
  BY DEF ProfileInv, ProfileTyped, Forms
<1>5. profile.rev \in 1..p.revisions /\ profile.welcomed \in BOOLEAN /\ givenUp \in 0..p.faults
  BY DEF ProfileInv, ProfileTyped
<1>6. welcome.save \in Profile(p)!Waiting \cup {"left"} /\ welcome.rev <= profile.rev
  BY DEF ProfileInv, ProfileTyped, KeyOfWelcome, WelcomeRecords
<1> QED BY <1>1, <1>2, <1>3, <1>4, <1>5, <1>6 DEF Profile!TypeOK

(* For any tabs, fields, revisions, keys and lost answers, and a new member  *)
(* or not: an accepted save replaces only what its page was based on, no key *)
(* is used for two bodies, and a page whose save was accepted is not told    *)
(* otherwise.                   [update_profile, claim_request, ProfileEditor] *)
THEOREM AnyProfileSavedAsSeen ==
  ASSUME NEW p, ProfileBounds(p)
  PROVE  Profile(p)!Spec => [](/\ Profile(p)!TypeOK /\ Profile(p)!NothingUnseenReplaced
                               /\ Profile(p)!KeyNeverClashes /\ Profile(p)!AcceptedIsNotRefused)
<1>1. Profile(p)!Init => ProfileInv(p)
  BY ProfileInit
<1>2. ProfileInv(p) /\ [Profile(p)!Next]_(Profile(p)!vars) => ProfileInv(p)'
  <2>1. ASSUME ProfileInv(p), UNCHANGED Profile(p)!vars PROVE ProfileInv(p)'
    <3>1. UNCHANGED profileVars
      BY <2>1 DEF Profile!vars, profileVars
    <3> QED BY <2>1, <3>1, ProfileRests
  <2> QED BY <2>1, ProfileNext
<1>3. ProfileInv(p) => /\ Profile(p)!TypeOK /\ Profile(p)!NothingUnseenReplaced
                       /\ Profile(p)!KeyNeverClashes /\ Profile(p)!AcceptedIsNotRefused
  BY ProfileTypes DEF ProfileInv, Profile!NothingUnseenReplaced, Profile!KeyNeverClashes
<1> QED BY <1>1, <1>2, <1>3, PTL DEF Profile!Spec

ProfilesInv ==
  /\ part = "newcomer" => ProfileInv(Newcomer)
  /\ part = "tabs" => ProfileInv(TwoTabs)
  /\ ~clash /\ ~overwritten

LEMMA ProfileParts == ProfileBounds(Newcomer) /\ ProfileBounds(TwoTabs)
BY EditsAssumption DEF ProfileBounds, Newcomer, TwoTabs, Both

LEMMA ProfilesInit == EditsInit => ProfilesInv
<1> SUFFICES ASSUME EditsInit PROVE ProfilesInv
  OBVIOUS
<1>1. CASE part = "newcomer"
  BY <1>1, ProfileParts, ProfileInit DEF EditsInit, ProfilesInv, ProfileInv
<1>2. CASE part # "newcomer"
  BY <1>2, ProfileParts, ProfileInit DEF EditsInit, ProfilesInv, ProfileInv
<1> QED BY <1>1, <1>2

LEMMA ProfilesStep ==
  ProfilesInv /\ [EditsNext]_<<part, vars, maskVars, profileVars>> => ProfilesInv'
<1> SUFFICES ASSUME ProfilesInv, [EditsNext]_<<part, vars, maskVars, profileVars>> PROVE ProfilesInv'
  OBVIOUS
<1>1. part' = part
  BY DEF EditsNext
<1>2. CASE UNCHANGED profileVars
  <2>1. UNCHANGED <<clash, overwritten>>
    BY <1>2 DEF profileVars
  <2> QED BY <1>1, <1>2, <2>1, ProfileRests DEF ProfilesInv
<1>3. CASE part = "newcomer" /\ Profile(Newcomer)!Next
  BY <1>1, <1>3, ProfileParts, ProfileNext DEF ProfilesInv, ProfileInv
<1>4. CASE part = "tabs" /\ Profile(TwoTabs)!Next
  BY <1>1, <1>4, ProfileParts, ProfileNext DEF ProfilesInv, ProfileInv
<1> QED BY <1>2, <1>3, <1>4 DEF EditsNext

(* In every part, an accepted save of the profile replaces only what its     *)
(* page was based on, and a page whose save was accepted is not told         *)
(* otherwise.                   [update_profile, claim_request, ProfileEditor] *)
THEOREM SavedAsSeen == EditsSpec => []SavesAreSeen
<1>1. ProfilesInv => SavesAreSeen
  BY ProfileParts, ProfileTypes DEF ProfilesInv, ProfileInv, SavesAreSeen, Profile!NothingUnseenReplaced,
    Profile!KeyNeverClashes
<1> QED BY ProfilesInit, ProfilesStep, <1>1, PTL DEF EditsSpec
=============================================================================

------------------------------ MODULE MCPhotos ------------------------------
(* What becomes of a photo that is not one new piece: photos that were sent  *)
(* before (Duplicates: one photo in two tabs, or two with labels), pieces    *)
(* that look alike (NearMatches), and photos of several pieces: the regions  *)
(* found (PartRegions), their boxes (PartBoxes), what the member confirms    *)
(* and the crops (GroupedPhotos: two tabs, or two regions).  A behaviour is  *)
(* one of the part chosen at its start; the others stay as they began.  The  *)
(* types of a part are checked with its safety properties.                   *)
EXTENDS GroupedPhotos, TLC

CONSTANTS p1, p2, e, solo, one, two, Nobody

(* The piece from before is none of the photos, and Nobody is no piece.      *)
ASSUME PhotosAssumption == {p1, p2} \cap {e, Nobody} = {} /\ e # Nobody

VARIABLES part,
  life, category, vector, question, answering, tab, edits, sends,
  foreground, seen, queue, region, regions,
  span, size, stage, proposal, draft, edited, cut,
  photo, owned, review, label, reading, deciding, decided, asking, choice, answers, losses

Both == {one, two}
Alike == Permutations(Both)

(* The constants of a part of repeats are given together, by part.           *)
Repeat(d) == INSTANCE Duplicates WITH
  Photos <- d.photos, Labelled <- d.photos, Owned <- {e}, Tabs <- d.tabs, MaxSubmits <- d.submits,
  MaxFaults <- d.faults, piece <- owned, receipt <- decided, net <- asking, page <- choice,
  submits <- answers, faults <- losses
Again == [photos |-> {p1}, tabs |-> Both, submits |-> 3, faults |-> 2]
TwoPhotos == [photos |-> {p1, p2}, tabs |-> {solo}, submits |-> 2, faults |-> 0]

Near(n) == INSTANCE NearMatches WITH
  Last <- n.last, Source <- n.source, Tabs <- n.tabs, Edits <- n.edits, MaxSubmits <- n.submits,
  review <- question, deciding <- answering, page <- tab, submits <- sends
Asked == [last |-> 3, source |-> <<1, 2, 2>>, tabs |-> {solo}, edits |-> 0, submits |-> 2]
Resolved == [last |-> 2, source |-> <<1, 2>>, tabs |-> Both, edits |-> 1, submits |-> 4]

Found == INSTANCE PartRegions WITH Height <- 3, Width <- 4, MaxParts <- 2, MinArea <- 2
(* 0, 1.5%, 33.33%, 33.34%, 66.66%, 66.67%, 98.5% and all of the side *)
TypedBoxes == {0, 15000, 333300, 333400, 666600, 666700, 985000, 1000000}
Boxes(b) == INSTANCE PartBoxes WITH
  Grids <- b.grids, Starts <- b.starts, Scales <- b.scales, Typed <- b.typed, region <- span
Side == [grids |-> {45}, starts |-> 0..127, scales |-> {1, 16}, typed |-> TypedBoxes]
Crops == INSTANCE GroupedPhotos WITH
  Tabs <- {solo}, Regions <- {1, 2}, Proposed <- {1, 2}, Window <- 1, MaxAttempts <- 1,
  MaxRetries <- 1, MaxSubmits <- 1, MaxFaults <- 0

againVars ==
  <<photo, owned, review, label, reading, deciding, decided, asking, choice, answers, losses>>
nearVars == <<life, category, vector, question, answering, tab, edits, sends>>
partVars == <<foreground, seen, queue, region, regions>>
boxVars == <<span, size, stage, proposal, draft, edited, cut>>

(* The parts that begin in one of many states begin in none when not chosen. *)
PhotosInit ==
  /\ part \in {"again", "two photos", "asked", "answered", "regions", "boxes", "confirms", "crops"}
  /\ IF part = "two photos" THEN Repeat(TwoPhotos)!Init ELSE Repeat(Again)!Init
  /\ IF part = "asked" THEN Near(Asked)!Init ELSE Near(Resolved)!Init
  /\ IF part = "regions" THEN Found!Init
     ELSE foreground = {} /\ seen = {} /\ queue = <<>> /\ region = <<>> /\ regions = <<>>
  /\ IF part = "boxes" THEN Boxes(Side)!Init
     ELSE /\ span = 0 /\ size = 0 /\ stage = "none" /\ proposal = 0 /\ draft = 0
          /\ edited = FALSE /\ cut = 0
  /\ IF part = "crops" THEN Crops!Init ELSE Init

PhotosNext ==
  /\ UNCHANGED part
  /\ \/ /\ \/ part = "again" /\ Repeat(Again)!Next
           \/ part = "two photos" /\ Repeat(TwoPhotos)!Next
        /\ UNCHANGED <<vars, nearVars, partVars, boxVars>>
     \/ /\ \/ part = "asked" /\ Near(Asked)!Next
           \/ part = "answered" /\ Near(Resolved)!Next
        /\ UNCHANGED <<vars, againVars, partVars, boxVars>>
     \/ part = "regions" /\ Found!Next /\ UNCHANGED <<vars, againVars, nearVars, boxVars>>
     \/ part = "boxes" /\ Boxes(Side)!Next /\ UNCHANGED <<vars, againVars, nearVars, partVars>>
     \/ /\ \/ part = "confirms" /\ Next
           \/ part = "crops" /\ Crops!Next
        /\ UNCHANGED <<againVars, nearVars, partVars, boxVars>>

allVars == <<part, vars, againVars, nearVars, partVars, boxVars>>
PhotosSpec == PhotosInit /\ [][PhotosNext]_allVars

(* A photo that was sent before is not lost, nor its label: each is with a   *)
(* piece, given up by the member, or waits for their answer, and a resent    *)
(* answer is answered as the first.  A look-alike is asked about as the      *)
(* newer of two pieces of different photos, and not after it was deleted.    *)
(*      [svc_complete_validation, svc_resolve_duplicate, flag_near_duplicate] *)
PhotosKept(d) ==
  /\ Repeat(d)!TypeOK /\ Repeat(d)!PhotosAccountedFor /\ Repeat(d)!DecidedIsNotRefused
  /\ Repeat(d)!LabelsOnTheirOwn /\ Repeat(d)!LabelsNeverStranded
NewerAsked(n) ==
  Near(n)!TypeOK /\ Near(n)!OlderOfAnotherPhoto /\ Near(n)!NoQuestionOfDeleted
RepeatsAccountedFor ==
  /\ part = "again" => PhotosKept(Again)
  /\ part = "two photos" => PhotosKept(TwoPhotos)
  /\ part = "asked" => NewerAsked(Asked)
  /\ part = "answered" => NewerAsked(Resolved)

(* A member's answer stands, and no label moves before it is given.          *)
(*          [svc_resolve_duplicate, svc_complete_validation, svc_delete_item] *)
AnswersStand ==
  [][/\ part = "again" => Repeat(Again)!Stands /\ Repeat(Again)!LabelWaits
     /\ part = "two photos" => Repeat(TwoPhotos)!Stands /\ Repeat(TwoPhotos)!LabelWaits
     /\ part = "asked" => Near(Asked)!Stands
     /\ part = "answered" => Near(Resolved)!Stands]_allVars

BoxesFit(b) ==
  /\ Boxes(b)!TypeOK /\ Boxes(b)!ConfirmedIsCropped
  /\ Boxes(b)!CropHoldsBox /\ Boxes(b)!RegionNotCut

(* The search of a mask finds its connected regions, each once, and proposes *)
(* the largest; through every rounding on its way to the page and back, a    *)
(* confirmed box is large enough, cropped whole, and holds its region.       *)
(*                       [propose_parts, svc_complete_validation, crop_part] *)
PartsFoundWhole ==
  /\ IF part = "crops" THEN Crops!TypeOK ELSE TypeOK
  /\ part = "regions" =>
       Found!TypeOK /\ Found!CountedOnce /\ Found!RegionsAreComponents /\ Found!LargestProposed
  /\ part = "boxes" =>
       BoxesFit(Side)
=============================================================================

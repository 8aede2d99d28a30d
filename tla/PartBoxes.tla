----------------------------- MODULE PartBoxes -----------------------------
(***************************************************************************)
(* What happens to the numbers of one part of a grouped photo, along one   *)
(* side of it: the padded, rounded proposal of a region, the database's    *)
(* check, the percentages of the page's draft, the page's check and the    *)
(* database's again, and the pixels that are cropped. The other side is    *)
(* alike. Positions are in millionths of the side.                         *)
(***************************************************************************)
EXTENDS Integers

CONSTANTS
  Grids,   \* numbers of grid cells along the side, at most GRID_EDGE
  Starts,  \* cells at which regions may start
  Scales,  \* pixels of the sanitized original per cell
  Typed    \* positions and widths a member may type

Whole == 1000000
MinCropEdge == 32
NoBox == [x |-> 0, w |-> 0]

VARIABLES
  region,    \* the region found: the grid, its first cell, the one after its last
  size,      \* pixels of the side
  stage,     \* how far the part has come
  proposal,  \* as the worker reported it
  draft,     \* as the page shows it
  edited,    \* whether the member typed another box
  cut        \* the pixels cropped

vars == <<region, size, stage, proposal, draft, edited, cut>>

Init ==
  /\ \E cells \in Grids, scale \in Scales, first \in Starts :
       \E end \in first + 1..cells :
         /\ region = [cells |-> cells, first |-> first, end |-> end]
         /\ size = cells * scale
  /\ stage = "found" /\ edited = FALSE
  /\ proposal = NoBox /\ draft = NoBox /\ cut = [left |-> 0, right |-> 0]

(* The whole numbers nearest to n / d. A tie goes either way: the numbers  *)
(* are binary fractions, a little more or less than the decimals they show.*)
Nearest(n, d) ==
  LET up == (2 * n + d) \div (2 * d)
  IN IF (2 * n + d) % (2 * d) = 0 THEN {up - 1, up} ELSE {up}

(* propose_parts: 3% of padding inside the photo, four decimals. *)
Padded ==
  LET low == 100 * region.first - 3 * region.cells
      high == 100 * region.end + 3 * region.cells
  IN [low |-> IF low > 0 THEN low ELSE 0,
      high |-> IF high < 100 * region.cells THEN high ELSE 100 * region.cells]

Propose ==
  /\ stage = "found"
  /\ \E x \in Nearest(10000 * Padded.low, 100 * region.cells),
        w \in Nearest(10000 * (Padded.high - Padded.low), 100 * region.cells) :
       proposal' = [x |-> 100 * x, w |-> 100 * w]
  /\ stage' = "proposed"
  /\ UNCHANGED <<region, size, draft, edited, cut>>

(* valid_part_box *)
ValidPartBox(b) ==
  /\ b.x >= 0 /\ b.w > 0
  /\ b.x + b.w <= Whole + 1
  /\ b.w * size >= MinCropEdge * Whole

(* svc_complete_validation keeps the well-formed proposals. *)
KeepProposal ==
  /\ stage = "proposed"
  /\ stage' = IF ValidPartBox(proposal) THEN "kept" ELSE "dropped"
  /\ UNCHANGED <<region, size, proposal, draft, edited, cut>>

(* toDraft: percentages with one decimal. *)
Seed ==
  /\ stage = "kept"
  /\ \E x \in Nearest(proposal.x, 1000), w \in Nearest(proposal.w, 1000) :
       draft' = [x |-> 1000 * x, w |-> 1000 * w]
  /\ stage' = "draft"
  /\ UNCHANGED <<region, size, proposal, edited, cut>>

(* The member types a box, of a proposal or of a piece added by hand. *)
TypeBox ==
  /\ stage \in {"draft", "dropped", "misfit", "refused"} /\ ~edited
  /\ \E x, w \in Typed : draft' = [x |-> x, w |-> w]
  /\ edited' = TRUE
  /\ stage' = "draft"
  /\ UNCHANGED <<region, size, proposal, cut>>

(* toBox *)
Fits(b) == b.x >= 0 /\ b.w > 0 /\ b.x + b.w <= Whole + 100

Submit ==
  /\ stage = "draft"
  /\ stage' = IF Fits(draft) THEN "sent" ELSE "misfit"
  /\ UNCHANGED <<region, size, proposal, draft, edited, cut>>

(* svc_confirm_parts *)
Confirm ==
  /\ stage = "sent"
  /\ stage' = IF ValidPartBox(draft) THEN "confirmed" ELSE "refused"
  /\ UNCHANGED <<region, size, proposal, draft, edited, cut>>

(* crop: outward to whole pixels, inside the source. *)
LeftPixel(b) == (b.x * size) \div Whole
RightPixel(b) ==
  LET right == ((b.x + b.w) * size + Whole - 1) \div Whole
  IN IF right <= size THEN right ELSE size

Crop ==
  /\ stage = "confirmed"
  /\ cut' = [left |-> LeftPixel(draft), right |-> RightPixel(draft)]
  /\ stage' = IF RightPixel(draft) - LeftPixel(draft) < MinCropEdge THEN "rejected" ELSE "cropped"
  /\ UNCHANGED <<region, size, proposal, draft, edited>>

Next == Propose \/ KeepProposal \/ Seed \/ TypeBox \/ Submit \/ Confirm \/ Crop

Spec == Init /\ [][Next]_vars

-----------------------------------------------------------------------------
TypeOK ==
  /\ region.first \in 0..region.cells - 1 /\ region.end \in region.first + 1..region.cells
  /\ size \in 1..2048
  /\ stage \in {"found", "proposed", "kept", "dropped", "draft", "misfit", "sent", "refused",
                "confirmed", "cropped", "rejected"}
  /\ proposal \in [x : 0..Whole, w : 0..Whole]
  /\ draft \in [x : 0..Whole, w : 0..Whole]
  /\ edited \in BOOLEAN
  /\ cut \in [left : 0..size, right : 0..size]

(* A part the database accepted is never too small for the worker: the     *)
(* pixels of every confirmed box reach the minimum, wherever it lies and   *)
(* whatever its tolerance is used for.                                     *)
ConfirmedIsCropped == stage # "rejected"

(* The crop holds the whole confirmed box.                                 *)
CropHoldsBox ==
  stage = "cropped" =>
    /\ cut.left * Whole <= draft.x * size
    /\ cut.right = size \/ cut.right * Whole >= (draft.x + draft.w) * size

(* Rounded twice on its way, a proposal confirmed as it was seeded still   *)
(* holds the region it was made for, but for a fifth of a percent of the   *)
(* side where padding has no room.                                         *)
RegionNotCut ==
  stage = "cropped" /\ ~edited =>
    /\ cut.left * region.cells <= region.first * size
    /\ 500 * (region.end * size - cut.right * region.cells) <= size * region.cells

(* What svc_complete_validation says of the proposals: only malformed ones *)
(* are dropped, so that of a region large enough is kept.                  *)
RegionIsProposed ==
  stage = "dropped" /\ ~edited => (region.end - region.first) * size < MinCropEdge * region.cells

(* What the split page says of the pieces it marked: they can be adjusted, *)
(* removed or left as they are.                                            *)
SeededDraftFits == ~edited => stage # "misfit"
=============================================================================

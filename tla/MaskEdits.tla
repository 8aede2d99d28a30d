----------------------------- MODULE MaskEdits ------------------------------
(***************************************************************************)
(* Edge correction of a piece: the mask editor (brush, area, undo, reset)  *)
(* in one or more tabs, the submission of the edited mask, and the cutout  *)
(* job composed from it, while the photo may be replaced elsewhere.        *)
(*                                                                         *)
(* A mask is the set of cells it keeps; all photos have one size.  The     *)
(* editor is a React component: the piece it is given, and the signed      *)
(* grants it loads the photo and the mask with, are refetched under it,    *)
(* and its effects run when they are.                                      *)
(***************************************************************************)
EXTENDS Integers, Sequences

CONSTANTS
  Editors, Cells,
  MaxHistory,   \* HISTORY
  MaxRevision,  \* bound of the model: media revisions
  MaxObjects,   \* bound of the model: masks put into the bucket
  MaxRefresh,   \* bound of the model: refetches that change an open editor's data
  MaxFaults     \* bound of the model: answers lost on the way

VARIABLES
  item,      \* server: media_revision, the photo and the mask attached
  job,       \* the cutout job composed from a submitted mask
  corrected, \* media revisions a submitted mask was accepted for
  misfit,    \* a mask was accepted for a photo it was not drawn over
  store,     \* mask objects in the bucket
  objects,   \* mask objects put so far
  ed,        \* the editors
  refreshes, faults

vars == <<item, job, corrected, misfit, store, objects, ed, refreshes, faults>>

NoMask == [cells |-> Cells, photo |-> 0]
Blank == [cells |-> {}, photo |-> 0]
Closed == [open |-> FALSE, item |-> [rev |-> 0, photo |-> 0, mask |-> NoMask], ready |-> FALSE,
           canvas |-> Blank, initial |-> {}, history |-> <<>>, whole |-> TRUE, tint |-> {}, stale |-> FALSE,
           drawing |-> FALSE, save |-> [at |-> "idle"]]

TypeOK ==
  /\ item.rev \in 1..MaxRevision /\ item.photo \in 1..MaxRevision
  /\ job.at \in {"none", "queued"} /\ store \subseteq 1..MaxObjects
  /\ corrected \in [1..MaxRevision -> Nat] /\ misfit \in BOOLEAN
  /\ objects \in 0..MaxObjects
  /\ \A e \in Editors :
       /\ ed[e].canvas.cells \subseteq Cells /\ ed[e].tint \subseteq Cells
       /\ Len(ed[e].history) <= MaxHistory
       /\ \A i \in DOMAIN ed[e].history : ed[e].history[i] \subseteq Cells
       /\ ed[e].stale \in BOOLEAN
       /\ ed[e].drawing => ed[e].ready
       /\ ed[e].save.at \in {"idle", "put", "rpc", "saved", "error"}
  /\ refreshes \in 0..MaxRefresh /\ faults \in 0..MaxFaults

Init ==
  /\ item = [rev |-> 1, photo |-> 1, mask |-> NoMask]
  /\ job = [at |-> "none"] /\ corrected = [r \in 1..MaxRevision |-> 0] /\ misfit = FALSE
  /\ store = {} /\ objects = 0
  /\ ed = [e \in Editors |-> Closed]
  /\ refreshes = 0 /\ faults = 0

Fault == faults < MaxFaults /\ faults' = faults + 1
Editor(e, x) == ed' = [ed EXCEPT ![e] = x]
OnlyEditor == UNCHANGED <<item, job, corrected, misfit, store, objects, refreshes, faults>>

-----------------------------------------------------------------------------
(* Opening the editor loads the current mask, or starts with everything kept *)
(* when there is none or it belongs to an earlier photo.  A save the tab     *)
(* still has under way goes on.                                              *)
Usable(it) == IF it.mask.photo = it.photo THEN it.mask.cells ELSE Cells
Tinted(cells) == Cells \ cells

Open(e) ==
  /\ ~ed[e].open
  /\ Editor(e, [Closed EXCEPT !.open = TRUE, !.item = item, !.save = ed[e].save])
  /\ OnlyEditor

Load(e) ==
  LET cells == Usable(ed[e].item) IN
  /\ ed[e].open /\ ~ed[e].ready
  /\ Editor(e, [ed[e] EXCEPT !.ready = TRUE, !.tint = Tinted(cells), !.initial = cells,
                             !.canvas = [cells |-> cells, photo |-> ed[e].item.photo]])
  /\ OnlyEditor

(* The page refetches the piece: the editor shows another revision of it.    *)
ItemRefetched(e) ==
  /\ ed[e].open /\ ed[e].item # item
  /\ refreshes < MaxRefresh /\ refreshes' = refreshes + 1
  /\ Editor(e, [ed[e] EXCEPT !.item = item])
  /\ UNCHANGED <<item, job, corrected, misfit, store, objects, faults>>

(* New grants, of another photo or fresh ones of the same, run the effect    *)
(* again: it makes a new canvas, keeps the history, and since the editor is  *)
(* ready already nothing repaints the tint (stale, until an operation does). *)
GrantsRefetched(e) ==
  LET cells == Usable(ed[e].item) IN
  /\ ed[e].ready
  /\ refreshes < MaxRefresh /\ refreshes' = refreshes + 1
  /\ Editor(e, [ed[e] EXCEPT !.initial = cells,
                             !.canvas = [cells |-> cells, photo |-> ed[e].item.photo],
                             !.stale = TRUE])
  /\ UNCHANGED <<item, job, corrected, misfit, store, objects, faults>>

-----------------------------------------------------------------------------
(* Tools.  Every operation that changes the mask first keeps what it was.    *)
Snapshot(x) ==
  LET room == Len(x.history) < MaxHistory IN
  [x EXCEPT !.history = Append(IF room THEN x.history ELSE Tail(x.history), x.canvas.cells),
            !.whole = x.whole /\ room]
Applied(cells, tool, C) == IF tool = "erase" THEN cells \ C ELSE cells \cup C
Painted(x, tool, C) ==
  [x EXCEPT !.canvas.cells = Applied(x.canvas.cells, tool, C),
            !.tint = IF tool = "erase" THEN x.tint \cup C ELSE x.tint \ C]
RepaintedNot(x) == x
Repainted(x) == [x EXCEPT !.tint = Tinted(x.canvas.cells), !.stale = FALSE]

PointerDown(e, tool, c) ==
  LET x == ed[e] IN
  /\ x.ready /\ ~x.drawing
  /\ Editor(e, Painted([Snapshot(x) EXCEPT !.drawing = TRUE], tool, {c}))
  /\ OnlyEditor

PointerMove(e, tool, c) ==
  /\ ed[e].drawing
  /\ Editor(e, Painted(ed[e], tool, {c}))
  /\ OnlyEditor

PointerUp(e) ==
  /\ ed[e].drawing
  /\ Editor(e, Repainted([ed[e] EXCEPT !.drawing = FALSE]))
  /\ OnlyEditor

ApplyArea(e, mode, C) ==
  LET x == ed[e] IN
  /\ x.ready /\ ~x.drawing
  /\ Editor(e, Repainted([Snapshot(x) EXCEPT !.canvas.cells = Applied(x.canvas.cells, mode, C)]))
  /\ OnlyEditor

Undo(e) ==
  LET x == ed[e]
      n == Len(x.history) IN
  /\ n > 0 /\ ~x.drawing
  /\ Editor(e, Repainted([x EXCEPT !.history = SubSeq(x.history, 1, n - 1),
                                   !.canvas.cells = x.history[n]]))
  /\ OnlyEditor

Reset(e) ==
  LET x == ed[e] IN
  /\ x.ready /\ ~x.drawing
  /\ Editor(e, Repainted([Snapshot(x) EXCEPT !.canvas.cells = x.initial]))
  /\ OnlyEditor

-----------------------------------------------------------------------------
(* Save: the canvas goes with the revision the page shows now.  The route    *)
(* puts the mask under a new key, then records it.  A tab has one save under *)
(* way (bound of the model: an editor opened again could send a second one). *)
Save(e) ==
  LET x == ed[e] IN
  /\ x.ready /\ ~x.drawing /\ x.save.at = "idle"
  /\ Editor(e, [x EXCEPT !.save =
       [at |-> "put", rev |-> x.item.rev, mask |-> x.canvas, object |-> 0]])
  /\ OnlyEditor

PutMask(e) ==
  /\ ed[e].save.at = "put" /\ objects < MaxObjects
  /\ objects' = objects + 1 /\ store' = store \cup {objects + 1}
  /\ Editor(e, [ed[e] EXCEPT !.save.at = "rpc", !.save.object = objects + 1])
  /\ UNCHANGED <<item, job, corrected, misfit, refreshes, faults>>

(* svc_submit_mask accepts one correction of a revision: the revision must   *)
(* be the current one, and is advanced.  An error of the call, or of its     *)
(* answer, deletes the object.                                               *)
RevisionCurrent(rev) == rev = item.rev
SubmitMask(e) ==
  LET s == ed[e].save
      Ends(at) == Editor(e, [ed[e] EXCEPT !.save = [at |-> at]]) IN
  /\ s.at = "rpc"
  /\ \/ /\ RevisionCurrent(s.rev) /\ item.rev < MaxRevision
        /\ item' = [item EXCEPT !.rev = item.rev + 1]
        /\ corrected' = [corrected EXCEPT ![s.rev] = corrected[s.rev] + 1]
        /\ misfit' = (misfit \/ s.mask.photo # item.photo)
        /\ job' = [at |-> "queued", object |-> s.object, mask |-> s.mask.cells]
        /\ \/ Ends("saved") /\ UNCHANGED <<store, faults>>
           \/ Ends("error") /\ Fault /\ UNCHANGED store             \* lost to the browser
           \/ Ends("error") /\ Fault /\ store' = store \ {s.object} \* lost to the route
     \/ /\ ~RevisionCurrent(s.rev)
        /\ store' = store \ {s.object} /\ Ends("error")
        /\ UNCHANGED <<item, job, corrected, misfit, faults>>
  /\ UNCHANGED <<objects, refreshes>>

(* A save that succeeded leaves the editor, also one opened since; it is     *)
(* answered whether or not its editor is still open.                         *)
SaveAnswered(e) ==
  /\ ed[e].save.at \in {"saved", "error"}
  /\ Editor(e, IF ed[e].save.at = "saved" THEN Closed ELSE [ed[e] EXCEPT !.save = [at |-> "idle"]])
  /\ OnlyEditor

(* Cancel is enabled while a save is pending, and does not call it off.      *)
Cancel(e) == ed[e].open /\ Editor(e, [Closed EXCEPT !.save = ed[e].save]) /\ OnlyEditor

(* The cutout stage composes the renditions of the current revision from the *)
(* mask submitted for it, or from one a model predicts; advancing the        *)
(* revision canceled any older job.  A mask with nothing kept is refused.    *)
Rendered(cells) == cells # {}
ComposedMasks == IF job.object # 0 THEN {job.mask} ELSE SUBSET Cells
Cutout ==
  /\ job.at = "queued"
  /\ job' = [at |-> "none"]
  /\ \E cells \in ComposedMasks :
       IF Rendered(cells) /\ job.object \in store \cup {0}
       THEN item' = [item EXCEPT !.mask = [cells |-> cells, photo |-> item.photo]]
       ELSE UNCHANGED item
  /\ UNCHANGED <<corrected, misfit, store, objects, ed, refreshes, faults>>

(* A replaced photo keeps the piece and its mask; a cutout is made of it.    *)
ReplacePhoto ==
  /\ item.rev < MaxRevision
  /\ item' = [item EXCEPT !.rev = item.rev + 1, !.photo = item.photo + 1]
  /\ job' = [at |-> "queued", object |-> 0]
  /\ UNCHANGED <<corrected, misfit, store, objects, ed, refreshes, faults>>

Tool(e) ==
  \E mode \in {"erase", "restore"} :
    \/ \E c \in Cells : PointerDown(e, mode, c) \/ PointerMove(e, mode, c)
    \/ \E C \in SUBSET Cells \ {{}} : ApplyArea(e, mode, C)

Next ==
  \/ \E e \in Editors :
       \/ Open(e) \/ Load(e) \/ ItemRefetched(e) \/ GrantsRefetched(e)
       \/ Tool(e) \/ PointerUp(e) \/ Undo(e) \/ Reset(e)
       \/ Save(e) \/ PutMask(e) \/ SubmitMask(e) \/ SaveAnswered(e) \/ Cancel(e)
  \/ Cutout \/ ReplacePhoto

Spec == Init /\ [][Next]_vars

-----------------------------------------------------------------------------
(* The tint the member sees is the mask that Save sends, from the load on    *)
(* and after every tool, undo and reset, also those that follow a refetch of *)
(* the editor's data; only between a refetch and the next operation it may   *)
(* be that of the canvas before.                          [repaint, the load] *)
TintMatchesMask ==
  \A e \in Editors :
    ed[e].ready /\ ~ed[e].stale => ed[e].tint = Tinted(ed[e].canvas.cells)

(* Undoing all that the history holds leads back to what was loaded, unless  *)
(* more was drawn than it holds (whole is FALSE).            [snapshot, undo]*)
HistoryStartsAtLoad ==
  \A e \in Editors :
    LET x == ed[e] IN
    x.ready /\ refreshes = 0 /\ x.whole =>
      x.initial = IF x.history = <<>> THEN x.canvas.cells ELSE Head(x.history)

(* Two corrections of the same revision cannot both apply.  [svc_submit_mask]*)
OneCorrectionPerRevision == \A r \in 1..MaxRevision : corrected[r] <= 1

(* The tint is recomputed from the mask: what the member sees is what is     *)
(* sent, also when grants are refetched.                   [repaint; README] *)
ShownIsSent ==
  \A e \in Editors :
    ed[e].ready /\ ~ed[e].drawing => ed[e].tint = Tinted(ed[e].canvas.cells)

(* A mask is tied to the photo it was drawn over.  [svc_submit_mask; README] *)
MaskFitsItsPhoto == ~misfit

(* The mask of a queued cutout is in the bucket: only what nothing recorded  *)
(* is deleted.                              [POST /items/:id/mask; README]   *)
RecordedMaskKept == job.at = "queued" => job.object \in store \cup {0}
=============================================================================

------------------------------ MODULE MCEdits -------------------------------
(* The pages on which a member edits what the server also changes: a piece   *)
(* (PieceEdits: two pages, or one page and the worker's suggestions), a mask *)
(* (MaskEdits: one editor's strokes, or the corrections of two editors) and  *)
(* the profile (ProfileEdits: a new member's tab, or two tabs).  A behaviour *)
(* is one of the part chosen at its start; the others stay as they began.    *)
(* The types of masks and profiles are checked with their safety properties, *)
(* those of pieces are proved (MCEdits_proofs).                              *)
EXTENDS PieceEdits, TLC

CONSTANTS solo, one, two  \* pages, editors or tabs, as the part has it

(* A form's tab is not the welcome page.                                     *)
ASSUME EditsAssumption == "welcome" \notin {solo, one, two}

VARIABLES part,
  garment, maskJob, corrected, misfit, store, objects, ed, refreshes, maskFaults,
  profile, saved, tab, welcome, wire, clash, overwritten, reverted, profileKeys, givenUp

Both == {one, two}
Alike == Permutations(Both)

Guesses == INSTANCE PieceEdits WITH
  Pages <- {solo}, Categories <- {"shoes"}, MaxRevision <- 2, MaxJobs <- 2, MaxKeys <- 2,
  MaxFaults <- 0
(* An editor's and a form's constants are given together, by part.           *)
Mask(m) == INSTANCE MaskEdits WITH
  Editors <- m.editors, Cells <- m.cells, MaxHistory <- m.history, MaxRevision <- m.revisions,
  MaxObjects <- m.objects, MaxRefresh <- m.refreshes, MaxFaults <- m.faults,
  item <- garment, job <- maskJob, faults <- maskFaults
Strokes ==
  [editors |-> {solo}, cells |-> {1, 2}, history |-> 2, revisions |-> 2, objects |-> 1,
   refreshes |-> 1, faults |-> 0]
Corrections ==
  [editors |-> Both, cells |-> {}, history |-> 1, revisions |-> 3, objects |-> 2,
   refreshes |-> 0, faults |-> 1]

Profile(p) == INSTANCE ProfileEdits WITH
  Tabs <- p.tabs, Fields <- p.fields, NewMember <- p.new, MaxRevision <- p.revisions,
  MaxKeys <- p.keys, MaxFaults <- p.faults, done <- saved, unseen <- overwritten,
  keys <- profileKeys, faults <- givenUp
Newcomer ==
  [tabs |-> {solo}, fields |-> {"timezone"}, new |-> TRUE, revisions |-> 4, keys |-> 4, faults |-> 2]
TwoTabs ==
  [tabs |-> Both, fields |-> {"timezone"}, new |-> FALSE, revisions |-> 4, keys |-> 4, faults |-> 1]

maskVars == <<garment, maskJob, corrected, misfit, store, objects, ed, refreshes, maskFaults>>
profileVars ==
  <<profile, saved, tab, welcome, wire, clash, overwritten, reverted, profileKeys, givenUp>>

EditsInit ==
  /\ part \in {"pages", "guesses", "strokes", "corrections", "newcomer", "tabs"}
  /\ IF part = "guesses" THEN Guesses!Init ELSE Init
  /\ IF part = "corrections" THEN Mask(Corrections)!Init ELSE Mask(Strokes)!Init
  /\ IF part = "newcomer" THEN Profile(Newcomer)!Init ELSE Profile(TwoTabs)!Init

EditsNext ==
  /\ UNCHANGED part
  /\ \/ /\ \/ part = "pages" /\ Next
           \/ part = "guesses" /\ Guesses!Next
        /\ UNCHANGED <<maskVars, profileVars>>
     \/ /\ \/ part = "strokes" /\ Mask(Strokes)!Next
           \/ part = "corrections" /\ Mask(Corrections)!Next
        /\ UNCHANGED <<vars, profileVars>>
     \/ /\ \/ part = "newcomer" /\ Profile(Newcomer)!Next
           \/ part = "tabs" /\ Profile(TwoTabs)!Next
        /\ UNCHANGED <<vars, maskVars>>

EditsSpec == EditsInit /\ [][EditsNext]_<<part, vars, maskVars, profileVars>>

(* An accepted save of the profile replaces only what its page was based on, *)
(* and a page whose save was accepted is not told otherwise.                 *)
(*                              [update_profile, claim_request, ProfileEditor] *)
SavesAreSeen ==
  /\ Profile(Newcomer)!NothingUnseenReplaced /\ Profile(Newcomer)!KeyNeverClashes
  /\ part = "newcomer" => Profile(Newcomer)!TypeOK /\ Profile(Newcomer)!AcceptedIsNotRefused
  /\ part = "tabs" => Profile(TwoTabs)!TypeOK /\ Profile(TwoTabs)!AcceptedIsNotRefused

(* What the editor shows is the mask it sends, after every operation, its    *)
(* history leads back to what it loaded, and of two editors' masks of one    *)
(* revision one applies.                [repaint, snapshot, svc_submit_mask] *)
MaskIsAsShown ==
  /\ part = "strokes" =>
       /\ Mask(Strokes)!TypeOK /\ Mask(Strokes)!TintMatchesMask
       /\ Mask(Strokes)!HistoryStartsAtLoad
  /\ part = "corrections" =>
       Mask(Corrections)!TypeOK /\ Mask(Corrections)!OneCorrectionPerRevision
=============================================================================

---------------------------- MODULE NearMatches ----------------------------
(***************************************************************************)
(* Pieces that look alike: whichever of a piece's category and vector      *)
(* arrives last compares it with the older pieces of the wardrobe and may  *)
(* raise one question, which the piece's page shows when its processing    *)
(* changes, and which is answered by keeping both or, after a dialog, by   *)
(* removing the new piece. All pieces of this module are near each other.  *)
(***************************************************************************)
EXTENDS Integers, FiniteSets

CONSTANTS
  Last,        \* pieces 1..Last, in the order they were created
  Source,      \* the upload entry of each piece: parts of one photo share it
  Tabs,        \* pages that show a piece
  Edits,       \* bound: category changes by the member
  MaxSubmits   \* bound: decisions sent

Pieces == 1..Last
NoPiece == 0
Categories == {"none", "tops", "shoes"}

VARIABLES
  life,      \* items.lifecycle
  category,  \* items.category
  vector,    \* whether the piece's embedding is there
  review,    \* duplicate_reviews of each piece
  deciding,  \* resolutions that have read and not committed
  page,      \* per tab and piece
  edits, submits

vars == <<life, category, vector, review, deciding, page, edits, submits>>

Init ==
  /\ life = [x \in Pieces |-> "active"]
  /\ category = [x \in Pieces |-> "none"]
  /\ vector = [x \in Pieces |-> FALSE]
  /\ review = [x \in Pieces |-> [state |-> "none", existing |-> NoPiece]]
  /\ deciding = {} /\ edits = 0 /\ submits = 0
  /\ page = [t \in Tabs |-> [x \in Pieces |->
               [shown |-> FALSE, dialog |-> FALSE, pending |-> "none", told |-> "none"]]]

-----------------------------------------------------------------------------
(* flag_near_duplicate, after category c and vector v of the pieces *)

Comparable(x, y, c, v) ==
  /\ v[x] /\ v[y] /\ c[x] # "none" /\ c[x] = c[y]
  /\ life[x] = "active" /\ life[y] = "active"
  /\ Source[x] # Source[y]
Matches(x, c, v) == {y \in Pieces : y < x /\ Comparable(x, y, c, v)}

Flag(x, c, v) ==
  IF life[x] = "active" /\ review[x].state = "none" /\ Matches(x, c, v) # {}
  THEN \E y \in Matches(x, c, v) : review' = [review EXCEPT ![x] = [state |-> "pending", existing |-> y]]
  ELSE UNCHANGED review

(* svc_complete_item_stage of tags and of embedding *)
CompleteTags(x) ==
  /\ life[x] = "active" /\ category[x] = "none"
  /\ \E c \in Categories \ {"none"} : category' = [category EXCEPT ![x] = c]
  /\ Flag(x, category', vector)
  /\ UNCHANGED <<life, vector, deciding, page, edits, submits>>

CompleteEmbedding(x) ==
  /\ life[x] = "active" /\ ~vector[x]
  /\ vector' = [vector EXCEPT ![x] = TRUE]
  /\ Flag(x, category, vector')
  /\ UNCHANGED <<life, category, deciding, page, edits, submits>>

(* The member gives the piece a category; nothing is compared again. *)
EditCategory(x) ==
  /\ life[x] = "active" /\ edits < Edits
  /\ edits' = edits + 1
  /\ \E c \in Categories \ {"none", category[x]} : category' = [category EXCEPT ![x] = c]
  /\ UNCHANGED <<life, vector, review, deciding, page, submits>>

(* svc_delete_item: the question about the piece has nothing left to ask. *)
SettledByDeletion(x) ==
  IF review[x].state = "pending" THEN [review EXCEPT ![x].state = "use_existing"] ELSE review

Locked(x) == \E d \in deciding : d.piece = x

DeletePiece(x) ==
  /\ life[x] = "active" /\ ~Locked(x)
  /\ life' = [life EXCEPT ![x] = "deleted"]
  /\ review' = SettledByDeletion(x)
  /\ UNCHANGED <<category, vector, deciding, page, edits, submits>>

-----------------------------------------------------------------------------
(* DuplicateChoice on the piece's page *)

SetPage(t, x, c) == page' = [page EXCEPT ![t][x] = c]

(* useDuplicateReviews reads the question again when processing changed. *)
ShowQuestion(t, x) ==
  /\ ~page[t][x].shown /\ review[x].state = "pending"
  /\ SetPage(t, x, [page[t][x] EXCEPT !.shown = TRUE])
  /\ UNCHANGED <<life, category, vector, review, deciding, edits, submits>>

OpenDialog(t, x) ==
  /\ page[t][x].shown /\ ~page[t][x].dialog /\ page[t][x].pending = "none"
  /\ SetPage(t, x, [page[t][x] EXCEPT !.dialog = TRUE])
  /\ UNCHANGED <<life, category, vector, review, deciding, edits, submits>>

CloseDialog(t, x) ==
  /\ page[t][x].dialog
  /\ SetPage(t, x, [page[t][x] EXCEPT !.dialog = FALSE])
  /\ UNCHANGED <<life, category, vector, review, deciding, edits, submits>>

Send(t, x, d) ==
  /\ page[t][x].shown /\ page[t][x].pending = "none" /\ submits < MaxSubmits
  /\ IF d = "use_existing" THEN page[t][x].dialog ELSE ~page[t][x].dialog
  /\ submits' = submits + 1
  /\ SetPage(t, x, [page[t][x] EXCEPT !.pending = d, !.told = "none"])
  /\ UNCHANGED <<life, category, vector, review, deciding, edits>>

Answered(t, x, told) ==
  SetPage(t, x, [page[t][x] EXCEPT !.pending = "none", !.dialog = FALSE, !.told = told])

(* svc_resolve_duplicate: the review is locked, the existing piece is read. *)
RefusalOf(x, d) ==
  IF review[x].state # "pending" THEN "ALREADY_DECIDED"
  ELSE IF d = "use_existing" /\ life[review[x].existing] # "active" THEN "EXISTING_REMOVED"
  ELSE "none"

Decide(t, x) ==
  LET d == page[t][x].pending
      refusal == RefusalOf(x, d)
  IN /\ d # "none" /\ ~Locked(x)
     /\ IF refusal # "none"
        THEN Answered(t, x, refusal) /\ UNCHANGED deciding
        ELSE deciding' = deciding \cup {[piece |-> x, tab |-> t, decision |-> d]} /\ UNCHANGED page
     /\ UNCHANGED <<life, category, vector, review, edits, submits>>

Commit(d) ==
  /\ d \in deciding
  /\ deciding' = deciding \ {d}
  /\ review' = [review EXCEPT ![d.piece].state = d.decision]
  /\ life' = IF d.decision = "use_existing" THEN [life EXCEPT ![d.piece] = "deleted"] ELSE life
  /\ Answered(d.tab, d.piece, "resolved")
  /\ UNCHANGED <<category, vector, edits, submits>>

Next ==
  \/ \E x \in Pieces : CompleteTags(x) \/ CompleteEmbedding(x) \/ EditCategory(x) \/ DeletePiece(x)
  \/ \E t \in Tabs, x \in Pieces :
       \/ ShowQuestion(t, x) \/ OpenDialog(t, x) \/ CloseDialog(t, x) \/ Decide(t, x)
       \/ \E d \in {"use_existing", "add_another"} : Send(t, x, d)
  \/ \E d \in deciding : Commit(d)

Spec == Init /\ [][Next]_vars

-----------------------------------------------------------------------------
TypeOK ==
  /\ life \in [Pieces -> {"active", "deleted"}]
  /\ category \in [Pieces -> Categories] /\ vector \in [Pieces -> BOOLEAN]
  /\ review \in [Pieces -> [state : {"none", "pending", "use_existing", "add_another"}, existing : 0..Last]]
  /\ \A d \in deciding : d.piece \in Pieces /\ review[d.piece].state = "pending"
  /\ \A d, e \in deciding : d.piece = e.piece => d = e
  /\ edits \in 0..Edits /\ submits \in 0..MaxSubmits

(* The question is always about the newer of two pieces, and never about   *)
(* two parts of one photo: so that answering "use existing" everywhere     *)
(* never removes every one of a set of look-alikes.                        *)
OlderOfAnotherPhoto ==
  \A x \in Pieces :
    review[x].existing # NoPiece =>
      review[x].existing < x /\ Source[review[x].existing] # Source[x]

(* An answer stands: neither a late answer of another page nor the         *)
(* deletion of the piece rewrites what the member decided.                 *)
Stands ==
  \A x \in Pieces :
    review[x].state \in {"use_existing", "add_another"} => review'[x].state = review[x].state
AnswerStands == [][Stands]_vars

(* A deleted piece leaves no question open.                                *)
NoQuestionOfDeleted == \A x \in Pieces : life[x] = "deleted" => review[x].state # "pending"

(* What flag_near_duplicate says: a new piece that closely matches an      *)
(* older piece of the same category is flagged.                            *)
NearMatchIsAsked ==
  edits = 0 => \A x \in Pieces : Matches(x, category, vector) # {} => review[x].state # "none"

(* What the dialog says: the existing piece stays as it is.                *)
ExistingStays ==
  [][\A x \in Pieces :
       review[x].state = "pending" /\ review'[x].state = "use_existing" /\ Locked(x) =>
         life[review[x].existing] = "active"]_vars
=============================================================================

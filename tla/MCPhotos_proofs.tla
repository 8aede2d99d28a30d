---------------------------- MODULE MCPhotos_proofs ----------------------------
(* Theorems about photos that are not one new piece.  About Duplicates and   *)
(* NearMatches, for any constants within their bounds, and so about every    *)
(* such part of PhotosSpec: photos and labels are accounted for and answers  *)
(* stand.  About PartBoxes, for any grid, size and typed box: a confirmed    *)
(* box is large enough and cropped whole.  About GroupedPhotos, for any      *)
(* pages, regions, windows and numbers of attempts, retries and presses: a   *)
(* photo's pieces are those of one confirmation, and its source is kept as   *)
(* long as it is needed, not longer.                                         *)
EXTENDS MCPhotos, TLAPS

-----------------------------------------------------------------------------
(* Look-alikes (NearMatches): a question is about an older piece of another  *)
(* photo, and is answered once.                                              *)
NearBounds(n) == {n.last, n.edits, n.submits} \subseteq Nat

Choices == {"use_existing", "add_another"}
Questions(n) == [state : {"none", "pending"} \cup Choices, existing : 0..n.last]
Cards ==
  [shown : BOOLEAN, dialog : BOOLEAN, pending : {"none"} \cup Choices,
   told : {"none", "resolved", "ALREADY_DECIDED", "EXISTING_REMOVED"}]

Resolutions(n) == [piece : 1..n.last, tab : n.tabs, decision : Choices]

NearTyped(n) ==
  /\ life \in [1..n.last -> {"active", "deleted"}]
  /\ category \in [1..n.last -> {"none", "tops", "shoes"}] /\ vector \in [1..n.last -> BOOLEAN]
  /\ question \in [1..n.last -> Questions(n)]
  /\ answering \subseteq Resolutions(n)
  /\ tab \in [n.tabs -> [1..n.last -> Cards]]
  /\ edits \in 0..n.edits /\ sends \in 0..n.submits

(* Who decides holds the question, which is still open.                      *)
OneDecides ==
  /\ \A d \in answering : question[d.piece].state = "pending"
  /\ \A d, f \in answering : d.piece = f.piece => d = f

NearInv(n) ==
  /\ NearTyped(n) /\ OneDecides
  /\ Near(n)!OlderOfAnotherPhoto /\ Near(n)!NoQuestionOfDeleted

LEMMA NearStarts ==
  ASSUME NEW n, NearBounds(n), Near(n)!Init PROVE NearInv(n)
<1> USE DEF Near!Init, Near!Pieces, Near!NoPiece
<1>1. n.last \in Nat /\ 0 \in 0..n.last /\ 0 \in 0..n.edits /\ 0 \in 0..n.submits
  BY DEF NearBounds
<1>2. NearTyped(n)
  BY <1>1 DEF NearTyped, Questions, Cards
<1> QED BY <1>1, <1>2 DEF NearInv, OneDecides, Near!OlderOfAnotherPhoto, Near!NoQuestionOfDeleted

LEMMA NearTypeOK ==
  ASSUME NEW n, NearInv(n) PROVE Near(n)!TypeOK
BY DEF Resolutions, NearInv, NearTyped, OneDecides, Questions, Choices, Near!TypeOK, Near!Pieces, Near!Categories

(* Whether a question may be raised, and about what.                         *)
LEMMA FlagAsks ==
  ASSUME NEW n, NearBounds(n), NearInv(n), NEW x \in 1..n.last, NEW c, NEW v, Near(n)!Flag(x, c, v)
  PROVE  \/ question' = question
         \/ \E y \in 1..n.last :
              /\ y < x /\ n.source[y] # n.source[x]
              /\ life[x] = "active" /\ question[x].state = "none"
              /\ question' = [question EXCEPT ![x] = [state |-> "pending", existing |-> y]]
BY DEF Near!Flag, Near!Matches, Near!Comparable, Near!Pieces

LEMMA FlagKeepsNear ==
  ASSUME NEW n, NearBounds(n), NearInv(n), NEW x \in 1..n.last, NEW c, NEW v, Near(n)!Flag(x, c, v),
         UNCHANGED <<life, answering>>
  PROVE  /\ question' \in [1..n.last -> Questions(n)] /\ OneDecides'
         /\ Near(n)!OlderOfAnotherPhoto' /\ Near(n)!NoQuestionOfDeleted' /\ Near(n)!Stands
<1> USE DEF Near!OlderOfAnotherPhoto, Near!NoQuestionOfDeleted, Near!Stands, Near!Pieces, Near!NoPiece
<1>1. CASE question' = question
  BY <1>1 DEF Resolutions, NearInv, NearTyped, OneDecides
<1>2. CASE question' # question
  <2>1. PICK y \in 1..n.last :
              /\ y < x /\ n.source[y] # n.source[x]
              /\ life[x] = "active" /\ question[x].state = "none"
              /\ question' = [question EXCEPT ![x] = [state |-> "pending", existing |-> y]]
    BY <1>2, FlagAsks
  <2>2. PICK q \in Questions(n) : q.state = "pending" /\ q.existing = y /\ q = [state |-> "pending", existing |-> y]
    <3>1. y \in 0..n.last
      BY DEF NearBounds
    <3> QED BY <3>1 DEF Questions
  <2>3. question' = [question EXCEPT ![x] = q]
    BY <2>1, <2>2
  <2>4. question \in [1..n.last -> Questions(n)] /\ question' \in [1..n.last -> Questions(n)]
    BY <2>2, <2>3 DEF Resolutions, NearInv, NearTyped
  <2>5. question'[x] = q /\ \A z \in 1..n.last : z # x => question'[z] = question[z]
    BY <2>3, <2>4
  <2>6. OneDecides'
    <3>1. \A d \in answering : d.piece \in 1..n.last
      BY DEF Resolutions, NearInv, NearTyped
    <3> QED BY <3>1, <2>1, <2>5 DEF NearInv, OneDecides
  <2> QED BY <2>1, <2>2, <2>4, <2>5, <2>6 DEF NearInv
<1> QED BY <1>1, <1>2

LEMMA NearStages ==
  ASSUME NEW n, NearBounds(n), NearInv(n), NEW x \in 1..n.last,
         Near(n)!CompleteTags(x) \/ Near(n)!CompleteEmbedding(x) \/ Near(n)!EditCategory(x)
  PROVE  NearInv(n)' /\ Near(n)!Stands
<1> USE DEF Near!Pieces, Near!Categories
<1>1. CASE Near(n)!CompleteTags(x)
  <2>1. Near(n)!Flag(x, category', vector) /\ UNCHANGED <<life, vector, answering, tab, edits, sends>>
        /\ category' \in [1..n.last -> {"none", "tops", "shoes"}]
    BY <1>1 DEF Near!CompleteTags, NearInv, NearTyped
  <2>2. /\ question' \in [1..n.last -> Questions(n)] /\ OneDecides'
        /\ Near(n)!OlderOfAnotherPhoto' /\ Near(n)!NoQuestionOfDeleted' /\ Near(n)!Stands
    BY <2>1, FlagKeepsNear
  <2> QED BY <2>1, <2>2 DEF Resolutions, NearInv, NearTyped
<1>2. CASE Near(n)!CompleteEmbedding(x)
  <2>1. Near(n)!Flag(x, category, vector') /\ UNCHANGED <<life, category, answering, tab, edits, sends>>
        /\ vector' \in [1..n.last -> BOOLEAN]
    BY <1>2 DEF Near!CompleteEmbedding, NearInv, NearTyped
  <2>2. /\ question' \in [1..n.last -> Questions(n)] /\ OneDecides'
        /\ Near(n)!OlderOfAnotherPhoto' /\ Near(n)!NoQuestionOfDeleted' /\ Near(n)!Stands
    BY <2>1, FlagKeepsNear
  <2> QED BY <2>1, <2>2 DEF Resolutions, NearInv, NearTyped
<1>3. CASE Near(n)!EditCategory(x)
  <2>1. UNCHANGED <<life, vector, question, answering, tab, sends>>
        /\ category' \in [1..n.last -> {"none", "tops", "shoes"}] /\ edits' \in 0..n.edits
    BY <1>3 DEF Near!EditCategory, NearInv, NearTyped, NearBounds
  <2> QED BY <2>1 DEF Resolutions, NearInv, NearTyped, OneDecides, Near!OlderOfAnotherPhoto, Near!NoQuestionOfDeleted, Near!Stands
<1> QED BY <1>1, <1>2, <1>3

LEMMA NearDeletes ==
  ASSUME NEW n, NearBounds(n), NearInv(n), NEW x \in 1..n.last, Near(n)!DeletePiece(x)
  PROVE  NearInv(n)' /\ Near(n)!Stands
<1>1. /\ \A d \in answering : d.piece # x /\ d.piece \in 1..n.last
      /\ life' = [life EXCEPT ![x] = "deleted"] /\ question' = Near(n)!SettledByDeletion(x)
      /\ UNCHANGED <<category, vector, answering, tab, edits, sends>>
  BY DEF Near!DeletePiece, Near!Locked, Resolutions, NearInv, NearTyped
<1>2. question \in [1..n.last -> Questions(n)] /\ life \in [1..n.last -> {"active", "deleted"}]
  BY DEF Resolutions, NearInv, NearTyped
<1>q. PICK q : q = [question[x] EXCEPT !.state = "use_existing"]
  OBVIOUS
<1>3. q \in Questions(n) /\ q.state = "use_existing" /\ q.existing = question[x].existing
  BY <1>q, <1>2 DEF Questions, Choices
<1>4. /\ question' \in [1..n.last -> Questions(n)]
      /\ \A z \in 1..n.last : z # x => question'[z] = question[z]
      /\ question'[x].existing = question[x].existing /\ question'[x].state # "pending"
      /\ question[x].state # "pending" => question'[x] = question[x]
  <2>1. CASE question[x].state = "pending"
    <3>1. question' = [question EXCEPT ![x] = q]
      BY <1>1, <1>q, <2>1 DEF Near!SettledByDeletion
    <3> QED BY <3>1, <1>2, <1>3, <2>1
  <2>2. CASE question[x].state # "pending"
    BY <1>1, <1>2, <2>2 DEF Near!SettledByDeletion
  <2> QED BY <2>1, <2>2
<1>5. life' \in [1..n.last -> {"active", "deleted"}] /\ \A z \in 1..n.last : z # x => life'[z] = life[z]
  BY <1>1, <1>2
<1>6. Near(n)!Stands
  BY <1>4 DEF Near!Stands, Near!Pieces
<1>7. OneDecides'
  BY <1>1, <1>4 DEF NearInv, OneDecides
<1>8. Near(n)!OlderOfAnotherPhoto' /\ Near(n)!NoQuestionOfDeleted'
  BY <1>4, <1>5 DEF NearInv, Near!OlderOfAnotherPhoto, Near!NoQuestionOfDeleted, Near!Pieces, Near!NoPiece
<1> QED BY <1>1, <1>4, <1>5, <1>6, <1>7, <1>8 DEF Resolutions, NearInv, NearTyped

(* What only changes a page.                                                 *)
LEMMA NearPageAlone ==
  ASSUME NEW n, NearBounds(n), NearInv(n), tab' \in [n.tabs -> [1..n.last -> Cards]], sends' \in 0..n.submits,
         (UNCHANGED <<life, category, vector, question, edits>>), (OneDecides)',
         answering' \subseteq Resolutions(n)
  PROVE  NearInv(n)' /\ Near(n)!Stands
BY DEF Resolutions, NearInv, NearTyped, Near!Stands, Near!OlderOfAnotherPhoto, Near!NoQuestionOfDeleted, Near!Pieces

LEMMA NearPages ==
  ASSUME NEW n, NearBounds(n), NearInv(n), NEW t \in n.tabs, NEW x \in 1..n.last,
         \/ Near(n)!ShowQuestion(t, x) \/ Near(n)!OpenDialog(t, x) \/ Near(n)!CloseDialog(t, x)
         \/ \E d \in Choices : Near(n)!Send(t, x, d)
  PROVE  NearInv(n)' /\ Near(n)!Stands
<1>1. tab \in [n.tabs -> [1..n.last -> Cards]] /\ tab[t][x] \in Cards
      /\ sends \in 0..n.submits /\ n.submits \in Nat
  BY DEF Resolutions, NearInv, NearTyped, NearBounds
<1>2. /\ UNCHANGED <<life, category, vector, question, answering, edits>>
      /\ sends' \in 0..n.submits
      /\ \E c \in Cards : tab' = [tab EXCEPT ![t][x] = c]
  <2>1. CASE Near(n)!ShowQuestion(t, x)
    <3>1. [tab[t][x] EXCEPT !.shown = TRUE] \in Cards
      BY <1>1 DEF Cards
    <3> QED BY <2>1, <3>1, <1>1 DEF Near!ShowQuestion, Near!SetPage
  <2>2. CASE Near(n)!OpenDialog(t, x)
    <3>1. [tab[t][x] EXCEPT !.dialog = TRUE] \in Cards
      BY <1>1 DEF Cards
    <3> QED BY <2>2, <3>1, <1>1 DEF Near!OpenDialog, Near!SetPage
  <2>3. CASE Near(n)!CloseDialog(t, x)
    <3>1. [tab[t][x] EXCEPT !.dialog = FALSE] \in Cards
      BY <1>1 DEF Cards
    <3> QED BY <2>3, <3>1, <1>1 DEF Near!CloseDialog, Near!SetPage
  <2>4. ASSUME NEW d \in Choices, Near(n)!Send(t, x, d)
        PROVE  /\ UNCHANGED <<life, category, vector, question, answering, edits>>
               /\ sends' \in 0..n.submits
               /\ \E c \in Cards : tab' = [tab EXCEPT ![t][x] = c]
    <3>1. [tab[t][x] EXCEPT !.pending = d, !.told = "none"] \in Cards
      BY <1>1 DEF Cards
    <3>2. /\ sends < n.submits /\ sends' = sends + 1
          /\ tab' = [tab EXCEPT ![t][x] = [tab[t][x] EXCEPT !.pending = d, !.told = "none"]]
          /\ UNCHANGED <<life, category, vector, question, answering, edits>>
      BY <2>4 DEF Near!Send, Near!SetPage
    <3>3. sends' \in 0..n.submits
      BY <3>2, <1>1
    <3> QED BY <3>1, <3>2, <3>3
  <2> QED BY <2>1, <2>2, <2>3, <2>4
<1>3. tab' \in [n.tabs -> [1..n.last -> Cards]]
  BY <1>1, <1>2
<1>4. OneDecides' /\ answering' \subseteq Resolutions(n)
  BY <1>2 DEF Resolutions, NearInv, NearTyped, OneDecides
<1> QED BY <1>2, <1>3, <1>4, NearPageAlone

LEMMA NearAnswered ==
  ASSUME NEW n, NearInv(n), NEW t \in n.tabs, NEW x \in 1..n.last,
         NEW told \in {"resolved", "ALREADY_DECIDED", "EXISTING_REMOVED"}, Near(n)!Answered(t, x, told)
  PROVE  tab' \in [n.tabs -> [1..n.last -> Cards]]
<1>1. tab \in [n.tabs -> [1..n.last -> Cards]] /\ tab[t][x] \in Cards
  BY DEF Resolutions, NearInv, NearTyped
<1>2. [tab[t][x] EXCEPT !.pending = "none", !.dialog = FALSE, !.told = told] \in Cards
  BY <1>1 DEF Cards
<1>3. tab' = [tab EXCEPT ![t][x] = [tab[t][x] EXCEPT !.pending = "none", !.dialog = FALSE, !.told = told]]
  BY <1>1 DEF Near!Answered, Near!SetPage
<1> QED BY <1>1, <1>2, <1>3

LEMMA NearDecides ==
  ASSUME NEW n, NearBounds(n), NearInv(n), NEW t \in n.tabs, NEW x \in 1..n.last, Near(n)!Decide(t, x)
  PROVE  NearInv(n)' /\ Near(n)!Stands
<1>1. tab \in [n.tabs -> [1..n.last -> Cards]] /\ tab[t][x] \in Cards
  BY DEF Resolutions, NearInv, NearTyped
<1>2. tab[t][x].pending \in Choices /\ UNCHANGED <<life, category, vector, question, edits, sends>>
      /\ \A d \in answering : d.piece # x
  BY <1>1 DEF Near!Decide, Near!Locked, Cards
<1>3. CASE Near(n)!RefusalOf(x, tab[t][x].pending) # "none"
  <2>1. /\ Near(n)!RefusalOf(x, tab[t][x].pending) \in {"resolved", "ALREADY_DECIDED", "EXISTING_REMOVED"}
        /\ answering' = answering
        /\ Near(n)!Answered(t, x, Near(n)!RefusalOf(x, tab[t][x].pending))
    BY <1>3 DEF Near!Decide, Near!RefusalOf
  <2>2. tab' \in [n.tabs -> [1..n.last -> Cards]]
    BY <2>1, NearAnswered
  <2>3. OneDecides' /\ answering' \subseteq Resolutions(n)
        /\ sends' \in 0..n.submits
    BY <1>2, <2>1 DEF Resolutions, NearInv, NearTyped, OneDecides
  <2> QED BY <1>2, <2>2, <2>3, NearPageAlone
<1>4. CASE Near(n)!RefusalOf(x, tab[t][x].pending) = "none"
  <2>1. PICK d : d = [piece |-> x, tab |-> t, decision |-> tab[t][x].pending]
    OBVIOUS
  <2>2. answering' = answering \cup {d} /\ tab' = tab /\ question[x].state = "pending"
    BY <1>4, <2>1 DEF Near!Decide, Near!RefusalOf
  <2>3. d \in Resolutions(n) /\ d.piece = x
    BY <1>2, <2>1 DEF Resolutions
  <2>4. OneDecides' /\ answering' \subseteq Resolutions(n)
        /\ sends' \in 0..n.submits
    BY <1>2, <2>2, <2>3 DEF Resolutions, NearInv, NearTyped, OneDecides
  <2> QED BY <1>1, <1>2, <2>2, <2>4, NearPageAlone
<1> QED BY <1>3, <1>4

LEMMA NearCommits ==
  ASSUME NEW n, NearBounds(n), NearInv(n), NEW d \in answering, Near(n)!Commit(d)
  PROVE  NearInv(n)' /\ Near(n)!Stands
<1>1. /\ d.piece \in 1..n.last /\ d.tab \in n.tabs /\ d.decision \in Choices
      /\ question[d.piece].state = "pending"
      /\ \A f \in answering' : f \in answering /\ f.piece # d.piece /\ f.piece \in 1..n.last
  BY DEF Resolutions, NearInv, NearTyped, OneDecides, Near!Commit
<1>2. question \in [1..n.last -> Questions(n)] /\ life \in [1..n.last -> {"active", "deleted"}]
  BY DEF Resolutions, NearInv, NearTyped
<1>q. PICK q : q = [question[d.piece] EXCEPT !.state = d.decision]
  OBVIOUS
<1>3. q \in Questions(n) /\ q.state = d.decision /\ q.existing = question[d.piece].existing
  BY <1>q, <1>1, <1>2 DEF Questions
<1>4. question' = [question EXCEPT ![d.piece] = q] /\ UNCHANGED <<category, vector, edits, sends>>
      /\ life' \in [1..n.last -> {"active", "deleted"}]
      /\ \A z \in 1..n.last : life'[z] = life[z] \/ z = d.piece
  BY <1>1, <1>2, <1>q DEF Near!Commit
<1>5. /\ question' \in [1..n.last -> Questions(n)] /\ question'[d.piece] = q
      /\ \A z \in 1..n.last : z # d.piece => question'[z] = question[z]
  BY <1>1, <1>2, <1>3, <1>4
<1>6. tab' \in [n.tabs -> [1..n.last -> Cards]]
  BY <1>1, NearAnswered DEF Near!Commit
<1>7. OneDecides' /\ answering' \subseteq Resolutions(n)
  BY <1>1, <1>5 DEF Resolutions, NearInv, NearTyped, OneDecides
<1>8. Near(n)!OlderOfAnotherPhoto' /\ Near(n)!NoQuestionOfDeleted' /\ Near(n)!Stands
  BY <1>1, <1>3, <1>4, <1>5 DEF NearInv, Near!OlderOfAnotherPhoto, Near!NoQuestionOfDeleted, Near!Stands,
    Near!Pieces, Near!NoPiece, Choices
<1> QED BY <1>4, <1>5, <1>6, <1>7, <1>8 DEF Resolutions, NearInv, NearTyped

LEMMA NearNext ==
  ASSUME NEW n, NearBounds(n), NearInv(n), Near(n)!Next PROVE NearInv(n)' /\ Near(n)!Stands
BY NearStages, NearDeletes, NearPages, NearDecides, NearCommits DEF Near!Next, Near!Pieces, Choices

LEMMA NearRests ==
  ASSUME NEW n, NearInv(n), UNCHANGED nearVars PROVE NearInv(n)' /\ Near(n)!Stands
BY DEF Resolutions, NearInv, NearTyped, OneDecides, nearVars, Near!OlderOfAnotherPhoto, Near!NoQuestionOfDeleted,
  Near!Stands, Near!Pieces

-----------------------------------------------------------------------------
(* Repeats (Duplicates): the photos are accounted for, labels follow their   *)
(* garment, and a resent answer is answered as the first.                    *)
DupBounds(d) ==
  /\ {d.submits, d.faults} \subseteq Nat
  /\ e \notin d.photos /\ Nobody \notin d.photos /\ Nobody # e

Decisions == {"use_existing", "add_another"}
Held(d) == d.photos \cup {e}
Requests(d) ==
  [tab : d.tabs, photo : d.photos, key : 1..d.submits, decision : Decisions, serial : 1..d.submits]
Readings(d) ==
  [kind : {"garment", "label"}, photo : d.photos, found : Held(d) \cup {Nobody}, label : BOOLEAN]
Reviews(d) == [state : {"none", "pending"} \cup Decisions, existing : Held(d) \cup {Nobody}]
Labels(d) == [state : {"none", "validating", "ready", "canceled"}, on : Held(d) \cup {Nobody}]
Options(d) ==
  [later : BOOLEAN, key : 0..d.submits, decision : {"none"} \cup Decisions, keys : SUBSET (1..d.submits),
   wavered : BOOLEAN, pending : 0..d.submits,
   told : {"none", "resolved", "ALREADY_DECIDED", "EXISTING_REMOVED", "unreachable"}]

DupTyped(d) ==
  /\ photo \in [d.photos -> {"validating", "ready", "discarded"}]
  /\ owned \in [Held(d) -> {"none", "active", "deleted"}]
  /\ review \in [d.photos -> Reviews(d)] /\ label \in [d.photos -> Labels(d)]
  /\ reading \subseteq Readings(d) /\ deciding \subseteq [request : Requests(d), label : BOOLEAN]
  /\ decided \in [1..d.submits -> {"none"} \cup Decisions] /\ asking \subseteq Requests(d)
  /\ choice \in [d.tabs -> [d.photos -> Options(d)]]
  /\ answers \in 0..d.submits /\ losses \in 0..d.faults

(* One transaction at a time reads and commits for a photo.                  *)
OneAtATime ==
  /\ \A r, s \in reading : r.photo = s.photo => r = s
  /\ \A x \in deciding : review[x.request.photo].state = "pending"
  /\ \A x, y \in deciding : x.request.photo = y.request.photo => x = y
  /\ \A x \in deciding, r \in reading : r.photo # x.request.photo

(* What was read of a label still stands when it is acted upon, but that the *)
(* piece it goes to may have been deleted.                                   *)
ReadStands(d, r) ==
  IF r.kind = "garment"
  THEN /\ photo[r.photo] = "validating" /\ (Repeat(d)!Attachable(r.photo) => r.label)
       /\ r.found # Nobody => owned[r.found] # "none"
  ELSE /\ Repeat(d)!Home(r.photo) \in {r.found, Nobody}
       /\ \/ r.found \in {r.photo, Nobody}
          \/ review[r.photo].state = "use_existing" /\ r.found = review[r.photo].existing
ReadsStand(d) ==
  /\ \A r \in reading : ReadStands(d, r)
  /\ \A x \in deciding : Repeat(d)!Attachable(x.request.photo) => x.label

(* Of one photo: it is a piece, waits, or was given up; its label is where   *)
(* it belongs; and a question about it is about a piece there is.            *)
Accounted(p) ==
  /\ photo[p] = "validating" => review[p].state = "none" /\ owned[p] = "none"
  /\ photo[p] # "validating" =>
       \/ owned[p] # "none" /\ photo[p] = "ready" /\ review[p].state \in {"none", "add_another"}
       \/ owned[p] = "none" /\ photo[p] = "ready" /\ review[p].state = "pending"
       \/ owned[p] = "none" /\ photo[p] = "discarded" /\ review[p].state = "use_existing"
PhotoOK(d, p) ==
  /\ Accounted(p)
  /\ review[p].existing # Nobody => owned[review[p].existing] # "none"
  /\ label[p].on # Nobody =>
       label[p].on = p \/ (review[p].state = "use_existing" /\ label[p].on = review[p].existing)
  /\ Repeat(d)!Attachable(p) => Repeat(d)!Home(p) = Nobody

DupServer(d) == OneAtATime /\ ReadsStand(d) /\ \A p \in d.photos : PhotoOK(d, p)

(* A key is of one page and photo; a page that keeps to one decision has one *)
(* key, and what was sent and received under it is that decision.            *)
Requested == asking \cup {x.request : x \in deciding}
DupKept(t, p) ==
  /\ choice[t][p].keys \subseteq {choice[t][p].key}
  /\ \A k \in choice[t][p].keys : decided[k] \in {"none", choice[t][p].decision}
  /\ \A r \in Requested : r.tab = t /\ r.photo = p => r.decision = choice[t][p].decision
DupKeys(d) ==
  /\ \A r \in Requested : r.key \in choice[r.tab][r.photo].keys /\ review[r.photo].state # "none"
  /\ \A k \in 1..d.submits : decided[k] # "none" =>
       \E t \in d.tabs, p \in d.photos : k \in choice[t][p].keys /\ review[p].state \in Decisions
  /\ \A t \in d.tabs, p \in d.photos :
       LET c == choice[t][p] IN
       /\ c.keys \subseteq 1..answers
       /\ \A u \in d.tabs, q \in d.photos : c.keys \cap choice[u][q].keys # {} => u = t /\ q = p
       /\ IF c.key = 0 THEN c.keys = {} ELSE c.key \in c.keys
       /\ ~c.wavered => DupKept(t, p)
       /\ c.told = "ALREADY_DECIDED" => review[p].state \in Decisions

DupInv(d) == DupTyped(d) /\ DupServer(d) /\ DupKeys(d) /\ Repeat(d)!DecidedIsNotRefused

-----------------------------------------------------------------------------
LEMMA DupStarts ==
  ASSUME NEW d, DupBounds(d), Repeat(d)!Init PROVE DupInv(d)
<1> USE DEF Repeat!Init, Repeat!Pieces, Repeat!NoReview, Repeat!Keys, Held
<1>1. d.submits \in Nat /\ 0 \in 0..d.submits /\ 0 \in 0..d.faults
  BY DEF DupBounds
<1>2. DupTyped(d)
  BY <1>1 DEF DupTyped, Reviews, Labels, Options, Decisions
<1>3. OneAtATime /\ ReadsStand(d)
  BY DEF OneAtATime, ReadsStand
<1>4. ASSUME NEW p \in d.photos PROVE PhotoOK(d, p)
  BY DEF DupBounds, PhotoOK, Accounted, Repeat!Attachable
<1>5. DupKeys(d) /\ Repeat(d)!DecidedIsNotRefused
  BY <1>1 DEF DupKeys, Requested, DupKept, Repeat!DecidedIsNotRefused
<1> QED BY <1>2, <1>3, <1>4, <1>5 DEF DupInv, DupServer

LEMMA DupTypeOK ==
  ASSUME NEW d, DupInv(d)
  PROVE  /\ Repeat(d)!TypeOK /\ Repeat(d)!PhotosAccountedFor /\ Repeat(d)!LabelsOnTheirOwn
         /\ Repeat(d)!LabelsNeverStranded
<1>1. Repeat(d)!TypeOK
  BY DEF DupInv, DupTyped, DupServer, OneAtATime, Requests, Readings, Reviews, Labels, Decisions, Held,
    Repeat!TypeOK, Repeat!Pieces, Repeat!Decisions, Repeat!Keys
<1>2. Repeat(d)!PhotosAccountedFor /\ Repeat(d)!LabelsOnTheirOwn /\ Repeat(d)!LabelsNeverStranded
  BY DEF DupInv, DupServer, PhotoOK, Accounted, Repeat!PhotosAccountedFor, Repeat!LabelsOnTheirOwn,
    Repeat!LabelsNeverStranded
<1> QED BY <1>1, <1>2

-----------------------------------------------------------------------------
(* What a step leaves of a photo it does not move.                           *)
Quiet(p) ==
  /\ photo'[p] = photo[p] /\ review'[p] = review[p]
  /\ \/ label'[p] = label[p]
     \/ label'[p].state = "canceled" /\ label'[p].on \in {label[p].on, Nobody}
PiecesMove(d, p) ==
  \A x \in Held(d) :
    \/ owned'[x] = owned[x]
    \/ owned[x] = "active" /\ owned'[x] = "deleted"
    \/ x = p /\ owned[x] = "none"

LEMMA HomeLost ==
  ASSUME NEW d, DupBounds(d), DupInv(d), NEW p, NEW q \in d.photos, q # p, PiecesMove(d, p), Quiet(q)
  PROVE  /\ Repeat(d)!Home(q)' \in {Repeat(d)!Home(q), Nobody}
         /\ Repeat(d)!Attachable(q)' => Repeat(d)!Attachable(q)
<1>1. review[q] \in Reviews(d) /\ PhotoOK(d, q) /\ photo[q] \in {"validating", "ready", "discarded"}
  BY DEF DupInv, DupTyped, DupServer
<1>2. \A x \in Held(d) : owned[x] # "none" /\ owned'[x] = "active" => owned[x] = "active"
  BY DEF PiecesMove
<1>3. owned'[q] = "active" => owned[q] = "active"
  BY DEF PiecesMove, Held
<1>4. review[q].existing \in Held(d) \cup {Nobody}
  BY <1>1 DEF Reviews
<1>5. owned[q] = "active" => review[q].state # "use_existing"
  BY <1>1 DEF PhotoOK, Accounted
<1>6. Repeat(d)!Attachable(q)' => Repeat(d)!Attachable(q)
  BY DEF Quiet, Repeat!Attachable
<1>7. Repeat(d)!Home(q)' \in {Repeat(d)!Home(q), Nobody}
  BY <1>1, <1>2, <1>3, <1>4, <1>5 DEF PhotoOK, Quiet, Repeat!Home, Repeat!Alive
<1> QED BY <1>6, <1>7

LEMMA QuietOK ==
  ASSUME NEW d, DupBounds(d), DupInv(d), NEW p, NEW q \in d.photos, q # p, PiecesMove(d, p), Quiet(q)
  PROVE  PhotoOK(d, q)'
<1>1. review[q] \in Reviews(d) /\ PhotoOK(d, q) /\ label[q] \in Labels(d)
  BY DEF DupInv, DupTyped, DupServer
<1>2. Repeat(d)!Attachable(q)' => Repeat(d)!Home(q)' = Nobody
  BY <1>1, HomeLost DEF PhotoOK
<1>3. Accounted(q)'
  <2>1. owned'[q] = owned[q] \/ (owned[q] = "active" /\ owned'[q] = "deleted")
    BY DEF PiecesMove, Held
  <2> QED BY <2>1, <1>1 DEF Quiet, PhotoOK, Accounted
<1>4. review'[q].existing # Nobody => owned'[review'[q].existing] # "none"
  <2>1. review[q].existing \in Held(d) \cup {Nobody}
    BY <1>1 DEF Reviews
  <2> QED BY <2>1, <1>1 DEF Quiet, PhotoOK, PiecesMove
<1>5. label'[q].on # Nobody =>
        label'[q].on = q \/ (review'[q].state = "use_existing" /\ label'[q].on = review'[q].existing)
  BY <1>1 DEF Quiet, PhotoOK
<1> QED BY <1>2, <1>3, <1>4, <1>5 DEF PhotoOK

(* A step of the database moves one photo at most, which nobody else holds.  *)
LEMMA ServerMoves ==
  ASSUME NEW d, DupBounds(d), DupInv(d), NEW p, PiecesMove(d, p),
         \A x \in Held(d) : owned[x] # "none" => owned'[x] # "none",
         \A q \in d.photos : q # p => Quiet(q),
         p \in d.photos => PhotoOK(d, p)',
         reading' \subseteq reading, \A r \in reading' : r.photo # p,
         deciding' \subseteq deciding, \A x \in deciding' : x.request.photo # p
  PROVE  DupServer(d)'
<1>1. /\ \A r \in reading : r.photo \in d.photos /\ r.found \in Held(d) \cup {Nobody}
      /\ \A x \in deciding : x.request.photo \in d.photos
  BY DEF DupInv, DupTyped, Readings, Requests
<1>2. OneAtATime'
  BY <1>1 DEF DupInv, DupServer, OneAtATime, Quiet
<1>3. ASSUME NEW q \in d.photos PROVE PhotoOK(d, q)'
  BY QuietOK
<1>4. ASSUME NEW r \in reading' PROVE ReadStands(d, r)'
  <2>1. r \in reading /\ r.photo \in d.photos /\ Quiet(r.photo) /\ ReadStands(d, r)
    BY <1>1 DEF DupInv, DupServer, ReadsStand
  <2>2. /\ Repeat(d)!Home(r.photo)' \in {Repeat(d)!Home(r.photo), Nobody}
        /\ Repeat(d)!Attachable(r.photo)' => Repeat(d)!Attachable(r.photo)
    BY <2>1, HomeLost
  <2> QED BY <1>1, <2>1, <2>2 DEF ReadStands, Quiet
<1>5. ASSUME NEW x \in deciding', Repeat(d)!Attachable(x.request.photo)' PROVE x.label
  <2>1. x \in deciding /\ x.request.photo \in d.photos /\ Quiet(x.request.photo)
    BY <1>1
  <2>2. Repeat(d)!Attachable(x.request.photo)
    BY <2>1, <1>5, HomeLost
  <2> QED BY <2>1, <2>2 DEF DupInv, DupServer, ReadsStand
<1> QED BY <1>2, <1>3, <1>4, <1>5 DEF DupServer, ReadsStand

-----------------------------------------------------------------------------
(* Keys, when only the database moves.                                       *)
LEMMA ServerKeepsDupKeys ==
  ASSUME NEW d, DupInv(d), UNCHANGED <<deciding, decided, asking, choice, answers>>,
         \A p \in d.photos :
           \/ review'[p].state = review[p].state
           \/ review[p].state = "none" /\ review'[p].state = "pending"
  PROVE  DupKeys(d)' /\ Repeat(d)!DecidedIsNotRefused'
<1>1. \A r \in Requested : r.photo \in d.photos
  BY DEF DupInv, DupTyped, Requested, Requests
<1>2. Requested' = Requested
  BY DEF Requested
<1>3. Repeat(d)!DecidedIsNotRefused'
  BY DEF DupInv, Repeat!DecidedIsNotRefused
<1>4. \A r \in Requested : r.key \in choice[r.tab][r.photo].keys /\ review'[r.photo].state # "none"
  BY <1>1 DEF DupInv, DupKeys
<1>5. \A p \in d.photos : review[p].state \in Decisions => review'[p].state \in Decisions
  BY DEF Decisions
<1>6. \A t \in d.tabs, p \in d.photos : DupKept(t, p) => DupKept(t, p)'
  BY <1>2 DEF DupKept
<1>7. \A k \in 1..d.submits : decided'[k] # "none" =>
        \E t \in d.tabs, p \in d.photos : k \in choice'[t][p].keys /\ review'[p].state \in Decisions
  BY <1>5 DEF DupInv, DupKeys
<1>8. ASSUME NEW t \in d.tabs, NEW p \in d.photos
      PROVE  LET c == choice'[t][p] IN
             /\ c.keys \subseteq 1..answers'
             /\ \A u \in d.tabs, q \in d.photos : c.keys \cap choice'[u][q].keys # {} => u = t /\ q = p
             /\ IF c.key = 0 THEN c.keys = {} ELSE c.key \in c.keys
             /\ ~c.wavered => DupKept(t, p)'
             /\ c.told = "ALREADY_DECIDED" => review'[p].state \in Decisions
  BY <1>5, <1>6 DEF DupInv, DupKeys
<1> QED BY <1>2, <1>3, <1>4, <1>7, <1>8 DEF DupKeys

(* A read for a photo that nobody holds.                                     *)
LEMMA ReadKeepsDup ==
  ASSUME NEW d, DupBounds(d), DupInv(d), NEW r \in Readings(d), ReadStands(d, r),
         ~Repeat(d)!EntryLocked(r.photo), reading' = reading \cup {r},
         UNCHANGED <<photo, owned, review, label, deciding, decided, asking, choice, answers, losses>>
  PROVE  DupInv(d)'
<1>1. (\A s \in reading : s.photo # r.photo) /\ (\A x \in deciding : x.request.photo # r.photo)
  BY DEF Repeat!EntryLocked, Repeat!Locked
<1>2. DupTyped(d)'
  BY DEF DupInv, DupTyped
<1>3. DupKeys(d)' /\ Repeat(d)!DecidedIsNotRefused'
  BY ServerKeepsDupKeys
<1>4. OneAtATime'
  BY <1>1 DEF DupInv, DupServer, OneAtATime
<1>5. \A s \in reading' : ReadStands(d, s)'
  BY DEF DupInv, DupServer, ReadsStand, ReadStands, Repeat!Attachable, Repeat!Home, Repeat!Alive
<1>6. \A x \in deciding' : Repeat(d)!Attachable(x.request.photo)' => x.label
  BY DEF DupInv, DupServer, ReadsStand, Repeat!Attachable
<1>7. \A p \in d.photos : PhotoOK(d, p)'
  BY DEF DupInv, DupServer, PhotoOK, Accounted, Repeat!Attachable, Repeat!Home, Repeat!Alive
<1> QED BY <1>2, <1>3, <1>4, <1>5, <1>6, <1>7 DEF DupInv, DupServer, ReadsStand

(* The answers given stand, and no label moves before one is given.          *)
Holds(d) == Repeat(d)!Stands /\ Repeat(d)!LabelWaits
LEMMA RestHolds ==
  ASSUME NEW d, UNCHANGED <<review, label>> PROVE Holds(d)
BY DEF Holds, Repeat!Stands, Repeat!LabelWaits, Repeat!Attachable

LEMMA HomeTyped ==
  ASSUME NEW d, DupInv(d), NEW p \in d.photos
  PROVE  /\ Repeat(d)!Home(p) \in Held(d) \cup {Nobody}
         /\ \/ Repeat(d)!Home(p) \in {p, Nobody}
            \/ review[p].state = "use_existing" /\ Repeat(d)!Home(p) = review[p].existing
<1>1. review[p].existing \in Held(d) \cup {Nobody}
  BY DEF DupInv, DupTyped, Reviews
<1> QED BY <1>1 DEF Repeat!Home, Held

LEMMA DupReads ==
  ASSUME NEW d, DupBounds(d), DupInv(d), NEW p \in d.photos,
         Repeat(d)!ReadGarment(p) \/ Repeat(d)!ReadLabel(p)
  PROVE  DupInv(d)' /\ Holds(d)
<1>1. CASE Repeat(d)!ReadGarment(p)
  <2>1. PICK twin \in Repeat(d)!Oldest(Repeat(d)!Twins(p)) :
          reading' = reading \cup
            {[kind |-> "garment", photo |-> p, found |-> twin, label |-> Repeat(d)!Attachable(p)]}
    BY <1>1 DEF Repeat!ReadGarment
  <2>2. twin = Nobody \/ (twin \in Held(d) /\ owned[twin] = "active")
    BY DEF Repeat!Oldest, Repeat!Twins, Repeat!Pieces, Held, Repeat!Alive
  <2>3. Repeat(d)!Attachable(p) \in BOOLEAN
    BY DEF Repeat!Attachable
  <2>4. PICK r : r = [kind |-> "garment", photo |-> p, found |-> twin, label |-> Repeat(d)!Attachable(p)]
    OBVIOUS
  <2>5. r \in Readings(d) /\ r.kind = "garment" /\ r.photo = p /\ r.found = twin
        /\ r.label = Repeat(d)!Attachable(p)
    BY <2>2, <2>3, <2>4 DEF Readings
  <2>6. photo[p] = "validating" /\ ~Repeat(d)!EntryLocked(p) /\ reading' = reading \cup {r}
        /\ UNCHANGED <<photo, owned, review, label, deciding, decided, asking, choice, answers, losses>>
    BY <1>1, <2>1, <2>4 DEF Repeat!ReadGarment, Repeat!Rest
  <2>7. ReadStands(d, r)
    BY <2>2, <2>5, <2>6 DEF ReadStands
  <2> QED BY <2>5, <2>6, <2>7, ReadKeepsDup, RestHolds
<1>2. CASE Repeat(d)!ReadLabel(p)
  <2>1. PICK h : h = Repeat(d)!Home(p)
    OBVIOUS
  <2>2. PICK r : r = [kind |-> "label", photo |-> p, found |-> h, label |-> TRUE]
    OBVIOUS
  <2>3. h \in Held(d) \cup {Nobody} /\
        (h \in {p, Nobody} \/ (review[p].state = "use_existing" /\ h = review[p].existing))
    BY <2>1, HomeTyped
  <2>4. r \in Readings(d) /\ r.kind = "label" /\ r.photo = p /\ r.found = h
    BY <2>2, <2>3 DEF Readings
  <2>5. ~Repeat(d)!EntryLocked(p) /\ reading' = reading \cup {r}
        /\ UNCHANGED <<photo, owned, review, label, deciding, decided, asking, choice, answers, losses>>
    BY <1>2, <2>1, <2>2 DEF Repeat!ReadLabel, Repeat!Rest
  <2>6. ReadStands(d, r)
    BY <2>1, <2>3, <2>4 DEF ReadStands
  <2> QED BY <2>4, <2>5, <2>6, ReadKeepsDup, RestHolds
<1> QED BY <1>1, <1>2

LEMMA DupCommitGarment ==
  ASSUME NEW d, DupBounds(d), DupInv(d), NEW r \in reading, Repeat(d)!CommitGarment(r)
  PROVE  DupInv(d)' /\ Holds(d)
<1>p. PICK p \in d.photos : p = r.photo /\ r.kind = "garment" /\ r.label \in BOOLEAN
                            /\ r.found \in Held(d) \cup {Nobody} /\ p \in Held(d) /\ p # Nobody
  BY DEF DupInv, DupTyped, Readings, Repeat!CommitGarment, Held, DupBounds
<1>0. /\ photo[p] = "validating" /\ review[p].state = "none" /\ owned[p] = "none"
      /\ Repeat(d)!Attachable(p) => r.label
      /\ r.found # Nobody => owned[r.found] # "none"
      /\ PhotoOK(d, p)
  BY <1>p DEF DupInv, DupServer, ReadsStand, ReadStands, PhotoOK, Accounted
<1>h. /\ \A s \in reading' : s \in reading /\ s.photo # p
      /\ \A x \in deciding : x.request.photo # p
      /\ reading' = reading \ {r}
  BY <1>p DEF DupInv, DupServer, OneAtATime, Repeat!CommitGarment
<1>y. /\ photo \in [d.photos -> {"validating", "ready", "discarded"}]
      /\ owned \in [Held(d) -> {"none", "active", "deleted"}]
      /\ review \in [d.photos -> Reviews(d)] /\ label \in [d.photos -> Labels(d)]
  BY DEF DupInv, DupTyped
<1>1. /\ photo' = [photo EXCEPT ![p] = "ready"]
      /\ UNCHANGED <<deciding, decided, asking, choice, answers, losses>>
  BY <1>p DEF Repeat!CommitGarment, Repeat!Rest
<1>2. /\ photo' \in [d.photos -> {"validating", "ready", "discarded"}] /\ photo'[p] = "ready"
      /\ \A q \in d.photos : q # p => photo'[q] = photo[q]
  BY <1>1, <1>y
<1>3. /\ owned' \in [Held(d) -> {"none", "active", "deleted"}]
      /\ \A x \in Held(d) : x # p => owned'[x] = owned[x]
      /\ review' \in [d.photos -> Reviews(d)] /\ label' \in [d.photos -> Labels(d)]
      /\ \A q \in d.photos : q # p => review'[q] = review[q] /\ label'[q] = label[q]
      /\ \/ /\ r.found # Nobody /\ owned'[p] = "none" /\ label'[p] = label[p]
            /\ review'[p].state = "pending" /\ review'[p].existing = r.found
         \/ /\ owned'[p] = "active" /\ review'[p] = review[p]
            /\ \/ label'[p] = label[p] /\ ~(r.label /\ label[p].on = Nobody)
               \/ label'[p].on = p /\ label'[p].state = label[p].state
  <2>1. CASE r.found # Nobody
    <3>1. PICK q : q = [state |-> "pending", existing |-> r.found]
      OBVIOUS
    <3>2. q \in Reviews(d) /\ q.state = "pending" /\ q.existing = r.found
      BY <3>1, <1>p DEF Reviews
    <3>3. review' = [review EXCEPT ![p] = q] /\ owned' = owned /\ label' = label
      BY <3>1, <1>p, <2>1 DEF Repeat!CommitGarment
    <3> QED BY <3>2, <3>3, <2>1, <1>y, <1>0
  <2>2. CASE r.found = Nobody
    <3>1. owned' = [owned EXCEPT ![p] = "active"] /\ review' = review
          /\ label' = IF r.label /\ label[p].on = Nobody THEN [label EXCEPT ![p].on = p] ELSE label
      BY <2>2, <1>p DEF Repeat!CommitGarment
    <3>2. PICK l : l = [label[p] EXCEPT !.on = p]
      OBVIOUS
    <3>3. l \in Labels(d) /\ l.on = p /\ l.state = label[p].state
      BY <3>2, <1>p, <1>y DEF Labels
    <3>4. label' = [label EXCEPT ![p] = l] \/ (label' = label /\ ~(r.label /\ label[p].on = Nobody))
      BY <3>1, <3>2
    <3>5. /\ label' \in [d.photos -> Labels(d)] /\ \A q \in d.photos : q # p => label'[q] = label[q]
          /\ \/ label'[p] = label[p] /\ ~(r.label /\ label[p].on = Nobody)
             \/ label'[p].on = p /\ label'[p].state = label[p].state
      BY <3>3, <3>4, <1>y
    <3>6. /\ owned' \in [Held(d) -> {"none", "active", "deleted"}] /\ owned'[p] = "active"
          /\ \A x \in Held(d) : x # p => owned'[x] = owned[x]
      BY <3>1, <1>y, <1>p
    <3> QED BY <3>1, <3>5, <3>6, <1>y
  <2> QED BY <2>1, <2>2
<1>4. PhotoOK(d, p)'
  <2>1. Accounted(p)'
    BY <1>0, <1>2, <1>3 DEF Accounted
  <2>2. review'[p].existing # Nobody => owned'[review'[p].existing] # "none"
    <3>1. review[p].existing \in Held(d) \cup {Nobody}
      BY <1>y DEF Reviews
    <3> QED BY <3>1, <1>0, <1>3, <1>p DEF PhotoOK
  <2>3. label'[p].on # Nobody =>
          label'[p].on = p \/ (review'[p].state = "use_existing" /\ label'[p].on = review'[p].existing)
    BY <1>0, <1>3 DEF PhotoOK
  <2>4. Repeat(d)!Attachable(p)' => Repeat(d)!Home(p)' = Nobody
    BY <1>0, <1>3, <1>p DEF Repeat!Attachable, Repeat!Home, Repeat!Alive
  <2> QED BY <2>1, <2>2, <2>3, <2>4 DEF PhotoOK
<1>5. DupServer(d)'
  <2>1. PiecesMove(d, p) /\ \A x \in Held(d) : owned[x] # "none" => owned'[x] # "none"
    BY <1>0, <1>3, <1>p DEF PiecesMove
  <2>2. \A q \in d.photos : q # p => Quiet(q)
    BY <1>2, <1>3 DEF Quiet
  <2> QED BY <2>1, <2>2, <1>1, <1>4, <1>h, ServerMoves
<1>6. DupKeys(d)' /\ Repeat(d)!DecidedIsNotRefused'
  <2>1. \A q \in d.photos :
          \/ review'[q].state = review[q].state
          \/ review[q].state = "none" /\ review'[q].state = "pending"
    BY <1>0, <1>3
  <2> QED BY <2>1, <1>1, ServerKeepsDupKeys
<1>7. Holds(d)
  <2>1. ASSUME NEW q \in d.photos, review[q].state \in Decisions PROVE review'[q].state = review[q].state
    BY <2>1, <1>0, <1>3 DEF Decisions
  <2>2. ASSUME NEW q \in d.photos, review[q].state = "pending", label[q].state = "ready"
        PROVE  label'[q].state = "ready"
    BY <2>2, <1>0, <1>3
  <2> QED BY <2>1, <2>2 DEF Holds, Repeat!Stands, Repeat!LabelWaits, Repeat!Attachable, Repeat!Decisions, Decisions
<1>8. DupTyped(d)'
  BY <1>1, <1>2, <1>3, <1>h DEF DupInv, DupTyped
<1> QED BY <1>5, <1>6, <1>7, <1>8 DEF DupInv

LEMMA DupCommitLabel ==
  ASSUME NEW d, DupBounds(d), DupInv(d), NEW r \in reading, Repeat(d)!CommitLabel(r)
  PROVE  DupInv(d)' /\ Holds(d)
<1>p. PICK p \in d.photos : p = r.photo /\ r.kind = "label" /\ r.found \in Held(d) \cup {Nobody}
  BY DEF DupInv, DupTyped, Readings, Repeat!CommitLabel
<1>0. /\ PhotoOK(d, p) /\ Repeat(d)!Home(p) \in {r.found, Nobody}
      /\ \/ r.found \in {p, Nobody}
         \/ review[p].state = "use_existing" /\ r.found = review[p].existing
  BY <1>p DEF DupInv, DupServer, ReadsStand, ReadStands
<1>h. /\ \A s \in reading' : s \in reading /\ s.photo # p
      /\ \A x \in deciding : x.request.photo # p
      /\ reading' = reading \ {r}
  BY <1>p DEF DupInv, DupServer, OneAtATime, Repeat!CommitLabel
<1>y. label \in [d.photos -> Labels(d)]
  BY DEF DupInv, DupTyped
<1>l. PICK l : l = [state |-> "ready", on |-> r.found]
  OBVIOUS
<1>1. /\ l \in Labels(d) /\ l.state = "ready" /\ l.on = r.found /\ label' = [label EXCEPT ![p] = l]
      /\ UNCHANGED <<photo, owned, review, deciding, decided, asking, choice, answers, losses>>
  BY <1>p, <1>l DEF Repeat!CommitLabel, Repeat!Rest, Labels
<1>2. /\ label' \in [d.photos -> Labels(d)] /\ label'[p] = l
      /\ \A q \in d.photos : q # p => label'[q] = label[q]
  BY <1>1, <1>y
<1>4. PhotoOK(d, p)'
  <2>1. Accounted(p)'
    BY <1>0, <1>1 DEF Accounted, PhotoOK
  <2>2. Repeat(d)!Attachable(p)' => Repeat(d)!Home(p)' = Nobody
    <3>1. Repeat(d)!Home(p)' = Repeat(d)!Home(p)
      BY <1>1 DEF Repeat!Home, Repeat!Alive
    <3> QED BY <3>1, <1>0, <1>1, <1>2 DEF Repeat!Attachable
  <2> QED BY <2>1, <2>2, <1>0, <1>1, <1>2 DEF PhotoOK
<1>5. DupServer(d)'
  <2>1. PiecesMove(d, p) /\ \A x \in Held(d) : owned[x] # "none" => owned'[x] # "none"
    BY <1>1 DEF PiecesMove
  <2>2. \A q \in d.photos : q # p => Quiet(q)
    BY <1>1, <1>2 DEF Quiet
  <2> QED BY <2>1, <2>2, <1>1, <1>4, <1>h, ServerMoves
<1>6. DupKeys(d)' /\ Repeat(d)!DecidedIsNotRefused'
  BY <1>1, ServerKeepsDupKeys
<1>7. Holds(d)
  BY <1>1, <1>2 DEF Holds, Repeat!Stands, Repeat!LabelWaits, Repeat!Attachable
<1>8. DupTyped(d)'
  BY <1>1, <1>2, <1>h DEF DupInv, DupTyped
<1> QED BY <1>5, <1>6, <1>7, <1>8 DEF DupInv

(* Labels that lapse, and pieces that are deleted with theirs.               *)
LEMMA DupLapses ==
  ASSUME NEW d, DupBounds(d), DupInv(d),
         (\E p \in d.photos : Repeat(d)!ExpireLabel(p)) \/ (\E x \in Held(d) : Repeat(d)!DeletePiece(x))
  PROVE  DupInv(d)' /\ Holds(d)
<1>y. /\ owned \in [Held(d) -> {"none", "active", "deleted"}] /\ label \in [d.photos -> Labels(d)]
      /\ \A r \in reading : r.photo \in d.photos
      /\ \A x \in deciding : x.request.photo \in d.photos
  BY DEF DupInv, DupTyped, Readings, Requests
<1>1. /\ UNCHANGED <<photo, review, reading, deciding, decided, asking, choice, answers, losses>>
      /\ owned' \in [Held(d) -> {"none", "active", "deleted"}] /\ label' \in [d.photos -> Labels(d)]
      /\ \A x \in Held(d) : owned'[x] = owned[x] \/ (owned[x] = "active" /\ owned'[x] = "deleted")
      /\ \A q \in d.photos :
           \/ label'[q] = label[q]
           \/ /\ label'[q].state = "canceled" /\ label'[q].on \in {label[q].on, Nobody}
              /\ review[q].state # "pending" \/ ~Repeat(d)!Attachable(q)
  <2>1. CASE \E p \in d.photos : Repeat(d)!ExpireLabel(p)
    <3>1. PICK p \in d.photos : Repeat(d)!ExpireLabel(p)
      BY <2>1
    <3>2. PICK l : l = [label[p] EXCEPT !.state = "canceled"]
      OBVIOUS
    <3>3. l \in Labels(d) /\ l.state = "canceled" /\ l.on = label[p].on
      BY <3>2, <1>y DEF Labels
    <3>4. /\ label' = [label EXCEPT ![p] = l] /\ review[p].state # "pending"
          /\ UNCHANGED <<photo, owned, review, reading, deciding, decided, asking, choice, answers, losses>>
      BY <3>1, <3>2 DEF Repeat!ExpireLabel, Repeat!Expirable, Repeat!Rest
    <3> QED BY <3>3, <3>4, <1>y
  <2>2. CASE \E x \in Held(d) : Repeat(d)!DeletePiece(x)
    <3>1. PICK x \in Held(d) : Repeat(d)!DeletePiece(x)
      BY <2>2
    <3>2. /\ owned[x] = "active" /\ owned' = [owned EXCEPT ![x] = "deleted"]
          /\ UNCHANGED <<photo, review, reading, deciding, decided, asking, choice, answers, losses>>
      BY <3>1 DEF Repeat!DeletePiece, Repeat!Rest
    <3>3. PICK l : l = [state |-> "canceled", on |-> Nobody]
      OBVIOUS
    <3>4. l \in Labels(d) /\ l.state = "canceled" /\ l.on = Nobody
      BY <3>3 DEF Labels
    <3>5. label' = [q \in d.photos |-> IF label[q].on = x THEN l ELSE label[q]]
      BY <3>1, <3>3 DEF Repeat!DeletePiece
    <3>6. /\ label' \in [d.photos -> Labels(d)]
          /\ \A q \in d.photos :
               label'[q] = label[q] \/ (label'[q].state = "canceled" /\ label'[q].on = Nobody /\ label[q].on = x)
      BY <3>4, <3>5, <1>y
    <3>7. x # Nobody
      BY DEF Held, DupBounds
    <3>8. /\ owned' \in [Held(d) -> {"none", "active", "deleted"}]
          /\ \A z \in Held(d) : owned'[z] = owned[z] \/ (owned[z] = "active" /\ owned'[z] = "deleted")
      BY <3>2, <1>y
    <3> QED BY <3>2, <3>6, <3>7, <3>8 DEF Repeat!Attachable
  <2> QED BY <2>1, <2>2
<1>2. DupServer(d)'
  <2>1. PiecesMove(d, Nobody) /\ \A x \in Held(d) : owned[x] # "none" => owned'[x] # "none"
    BY <1>1 DEF PiecesMove
  <2>2. \A q \in d.photos : Quiet(q)
    BY <1>1 DEF Quiet
  <2>3. Nobody \notin d.photos
    BY DEF DupBounds
  <2>4. (\A r \in reading' : r.photo # Nobody) /\ (\A x \in deciding' : x.request.photo # Nobody)
    BY <1>1, <1>y, <2>3
  <2>5. reading' \subseteq reading /\ deciding' \subseteq deciding
    BY <1>1
  <2> QED BY <2>1, <2>2, <2>3, <2>4, <2>5, ServerMoves
<1>3. DupKeys(d)' /\ Repeat(d)!DecidedIsNotRefused'
  BY <1>1, ServerKeepsDupKeys
<1>4. Holds(d)
  BY <1>1 DEF Holds, Repeat!Stands, Repeat!LabelWaits, Repeat!Attachable
<1>5. DupTyped(d)'
  BY <1>1 DEF DupInv, DupTyped
<1> QED BY <1>2, <1>3, <1>4, <1>5 DEF DupInv

-----------------------------------------------------------------------------
(* Pages: what they were told may change, their keys rest.                   *)
OptionRests(d, t, p) ==
  LET c == choice[t][p]
      n == choice'[t][p]
  IN /\ n.key = c.key /\ n.keys = c.keys /\ n.decision = c.decision /\ n.wavered = c.wavered
     /\ n.told = "ALREADY_DECIDED" =>
          \/ c.told = "ALREADY_DECIDED"
          \/ /\ review[p].state \in Decisions
             /\ ~c.wavered => \A k \in c.keys : decided[k] = "none"

LEMMA OptionsRest ==
  ASSUME NEW d, DupInv(d), UNCHANGED <<review, decided, answers>>,
         Requested' \subseteq Requested,
         \A t \in d.tabs, p \in d.photos : OptionRests(d, t, p)
  PROVE  DupKeys(d)' /\ Repeat(d)!DecidedIsNotRefused'
<1>1. \A r \in Requested : r.tab \in d.tabs /\ r.photo \in d.photos
  BY DEF DupInv, DupTyped, Requested, Requests
<1>2. \A t \in d.tabs, p \in d.photos :
        /\ choice'[t][p].keys = choice[t][p].keys /\ choice'[t][p].key = choice[t][p].key
        /\ choice'[t][p].decision = choice[t][p].decision /\ choice'[t][p].wavered = choice[t][p].wavered
  BY DEF OptionRests
<1>3. \A t \in d.tabs, p \in d.photos : DupKept(t, p) => DupKept(t, p)'
  BY <1>2 DEF DupKept
<1>4. \A r \in Requested' : r.key \in choice'[r.tab][r.photo].keys /\ review'[r.photo].state # "none"
  BY <1>1, <1>2 DEF DupInv, DupKeys
<1>5. \A k \in 1..d.submits : decided'[k] # "none" =>
        \E t \in d.tabs, p \in d.photos : k \in choice'[t][p].keys /\ review'[p].state \in Decisions
  BY <1>2 DEF DupInv, DupKeys
<1>6. ASSUME NEW t \in d.tabs, NEW p \in d.photos
      PROVE  LET c == choice'[t][p] IN
             /\ c.keys \subseteq 1..answers'
             /\ \A u \in d.tabs, q \in d.photos : c.keys \cap choice'[u][q].keys # {} => u = t /\ q = p
             /\ IF c.key = 0 THEN c.keys = {} ELSE c.key \in c.keys
             /\ ~c.wavered => DupKept(t, p)'
             /\ c.told = "ALREADY_DECIDED" => review'[p].state \in Decisions
  BY <1>2, <1>3 DEF DupInv, DupKeys, OptionRests
<1>7. Repeat(d)!DecidedIsNotRefused'
  BY DEF DupInv, Repeat!DecidedIsNotRefused, OptionRests
<1> QED BY <1>4, <1>5, <1>6, <1>7 DEF DupKeys

(* The database rests.                                                       *)
LEMMA ServerRests ==
  ASSUME NEW d, DupInv(d), UNCHANGED <<photo, owned, review, label, reading, deciding>>
  PROVE  DupServer(d)'
<1>1. OneAtATime'
  BY DEF DupInv, DupServer, OneAtATime
<1>2. ReadsStand(d)'
  BY DEF DupInv, DupServer, ReadsStand, ReadStands, Repeat!Attachable, Repeat!Home, Repeat!Alive
<1>3. \A p \in d.photos : PhotoOK(d, p)'
  BY DEF DupInv, DupServer, PhotoOK, Accounted, Repeat!Attachable, Repeat!Home, Repeat!Alive
<1> QED BY <1>1, <1>2, <1>3 DEF DupServer

LEMMA DupDecideLater ==
  ASSUME NEW d, DupBounds(d), DupInv(d), NEW t \in d.tabs, NEW p \in d.photos, Repeat(d)!DecideLater(t, p)
  PROVE  DupInv(d)' /\ Holds(d)
<1>1. choice \in [d.tabs -> [d.photos -> Options(d)]] /\ choice[t][p] \in Options(d)
  BY DEF DupInv, DupTyped
<1>2. PICK c : c = [choice[t][p] EXCEPT !.later = ~choice[t][p].later]
  OBVIOUS
<1>3. /\ c \in Options(d) /\ c.key = choice[t][p].key /\ c.keys = choice[t][p].keys /\ c.told = choice[t][p].told
      /\ c.decision = choice[t][p].decision /\ c.wavered = choice[t][p].wavered
  BY <1>1, <1>2 DEF Options
<1>4. choice' = [choice EXCEPT ![t][p] = c]
      /\ UNCHANGED <<photo, owned, review, label, reading, deciding, decided, asking, answers, losses>>
  BY <1>2 DEF Repeat!DecideLater, Repeat!SetPage, Repeat!Server
<1>5. /\ choice' \in [d.tabs -> [d.photos -> Options(d)]]
      /\ \A u \in d.tabs, q \in d.photos :
           choice'[u][q] = IF u = t /\ q = p THEN c ELSE choice[u][q]
  BY <1>1, <1>3, <1>4
<1>6. \A u \in d.tabs, q \in d.photos : OptionRests(d, u, q)
  BY <1>3, <1>5 DEF OptionRests
<1>7. Requested' \subseteq Requested
  BY <1>4 DEF Requested
<1>8. DupTyped(d)'
  BY <1>4, <1>5 DEF DupInv, DupTyped
<1> QED BY <1>4, <1>6, <1>7, <1>8, OptionsRest, ServerRests, RestHolds DEF DupInv

LEMMA DupResolve ==
  ASSUME NEW d, DupBounds(d), DupInv(d), NEW t \in d.tabs, NEW p \in d.photos, NEW x \in Decisions,
         Repeat(d)!Resolve(t, p, x)
  PROVE  DupInv(d)' /\ Holds(d)
<1>1. /\ choice \in [d.tabs -> [d.photos -> Options(d)]] /\ choice[t][p] \in Options(d)
      /\ answers \in 0..d.submits /\ d.submits \in Nat /\ asking \subseteq Requests(d)
  BY DEF DupInv, DupTyped, DupBounds
<1>c. PICK c : c = choice[t][p]
  OBVIOUS
<1>k. PICK key : key = Repeat(d)!KeyFor(c, x)
  OBVIOUS
<1>2. /\ answers < d.submits /\ answers' = answers + 1 /\ review[p].state # "none"
      /\ UNCHANGED <<photo, owned, review, label, reading, deciding, decided, losses>>
  BY DEF Repeat!Resolve, Repeat!Server
<1>i. /\ c \in Options(d) /\ c.keys \subseteq 1..answers
      /\ IF c.key = 0 THEN c.keys = {} ELSE c.key \in c.keys
      /\ ~c.wavered => DupKept(t, p)
      /\ \A u \in d.tabs, q \in d.photos : choice[u][q].keys \subseteq 1..answers
  BY <1>c, <1>1 DEF DupInv, DupKeys
<1>3. \/ key = c.key /\ key \in c.keys /\ c.decision = x
      \/ key = answers + 1 /\ (c.key = 0 \/ c.decision # x)
  BY <1>k, <1>i DEF Repeat!KeyFor
<1>4. key \in 1..d.submits /\ key \in 1..answers' /\ answers + 1 \in 1..d.submits
  BY <1>1, <1>2, <1>3, <1>i
<1>r. PICK r : r = [tab |-> t, photo |-> p, key |-> key, decision |-> x, serial |-> answers + 1]
  OBVIOUS
<1>w. PICK w \in BOOLEAN : w = (c.wavered \/ (c.key # 0 /\ c.decision # x))
  BY <1>i DEF Options
<1>n. PICK n : n = [c EXCEPT !.key = key, !.decision = x, !.pending = answers + 1, !.told = "none",
                            !.keys = c.keys \cup {key}, !.wavered = w]
  OBVIOUS
<1>5. /\ n \in Options(d) /\ n.key = key /\ n.decision = x /\ n.keys = c.keys \cup {key}
      /\ n.wavered = w /\ n.told = "none"
  <2>1. /\ key \in 0..d.submits /\ answers + 1 \in 0..d.submits
        /\ c.keys \cup {key} \in SUBSET (1..d.submits)
    BY <1>4, <1>i, <1>1 DEF Options
  <2> QED BY <2>1, <1>n, <1>i DEF Options
<1>6. /\ r \in Requests(d) /\ r.tab = t /\ r.photo = p /\ r.key = key /\ r.decision = x
  BY <1>r, <1>4 DEF Requests
<1>7. asking' = asking \cup {r} /\ choice' = [choice EXCEPT ![t][p] = n]
  BY <1>c, <1>k, <1>r, <1>w, <1>n DEF Repeat!Resolve, Repeat!SetPage
<1>8. /\ choice' \in [d.tabs -> [d.photos -> Options(d)]] /\ choice'[t][p] = n
      /\ \A u \in d.tabs, q \in d.photos : (u # t \/ q # p) => choice'[u][q] = choice[u][q]
  BY <1>1, <1>5, <1>7
<1>9. DupTyped(d)'
  <2>1. answers' \in 0..d.submits
    BY <1>1, <1>2
  <2> QED BY <2>1, <1>2, <1>6, <1>7, <1>8 DEF DupInv, DupTyped
<1>q. Requested' = Requested \cup {r} /\ \A s \in Requested : s.tab \in d.tabs /\ s.photo \in d.photos
  BY <1>2, <1>7 DEF Requested, DupInv, DupTyped, Requests
<1>10. \A s \in Requested' : s.key \in choice'[s.tab][s.photo].keys /\ review'[s.photo].state # "none"
  <2>1. r.key \in choice'[r.tab][r.photo].keys /\ review'[r.photo].state # "none"
    BY <1>2, <1>5, <1>6, <1>8
  <2>2. ASSUME NEW s \in Requested
        PROVE  s.key \in choice'[s.tab][s.photo].keys /\ review'[s.photo].state # "none"
    <3>1. s.key \in choice[s.tab][s.photo].keys /\ review[s.photo].state # "none"
      BY DEF DupInv, DupKeys
    <3> QED BY <3>1, <1>c, <1>2, <1>5, <1>8, <1>q
  <2> QED BY <2>1, <2>2, <1>q
<1>11. \A k \in 1..d.submits : decided'[k] # "none" =>
        \E u \in d.tabs, q \in d.photos : k \in choice'[u][q].keys /\ review'[q].state \in Decisions
  <2>1. \A u \in d.tabs, q \in d.photos : choice[u][q].keys \subseteq choice'[u][q].keys
    BY <1>c, <1>5, <1>8
  <2> QED BY <2>1, <1>2 DEF DupInv, DupKeys
<1>12. ~n.wavered => DupKept(t, p)'
  <2>1. SUFFICES ASSUME ~w PROVE DupKept(t, p)'
    BY <1>5
  <2>2. ~c.wavered /\ (c.key = 0 \/ c.decision = x) /\ DupKept(t, p)
    BY <2>1, <1>w, <1>i
  <2>3. CASE key = c.key /\ key \in c.keys /\ c.decision = x
    BY <2>2, <2>3, <1>c, <1>2, <1>5, <1>6, <1>8, <1>q DEF DupKept
  <2>4. CASE key = answers + 1 /\ c.key = 0
    <3>1. c.keys = {} /\ \A s \in Requested : ~(s.tab = t /\ s.photo = p)
      BY <2>4, <1>i, <1>c DEF DupInv, DupKeys
    <3>2. decided[key] = "none"
      <4>1. \A u \in d.tabs, q \in d.photos : key \notin choice[u][q].keys
        BY <2>4, <1>i, <1>1
      <4> QED BY <4>1, <1>4 DEF DupInv, DupKeys
    <3> QED BY <3>1, <3>2, <1>2, <1>5, <1>6, <1>8, <1>q DEF DupKept
  <2> QED BY <2>2, <2>3, <2>4, <1>3
<1>13. ASSUME NEW u \in d.tabs, NEW q \in d.photos
      PROVE  LET o == choice'[u][q] IN
             /\ o.keys \subseteq 1..answers'
             /\ \A v \in d.tabs, z \in d.photos : o.keys \cap choice'[v][z].keys # {} => v = u /\ z = q
             /\ IF o.key = 0 THEN o.keys = {} ELSE o.key \in o.keys
             /\ ~o.wavered => DupKept(u, q)'
             /\ o.told = "ALREADY_DECIDED" => review'[q].state \in Decisions
  <2>1. ASSUME NEW v \in d.tabs, NEW z \in d.photos, key \in choice[v][z].keys PROVE v = t /\ z = p
    <3>1. key \in c.keys
      <4>1. key # answers + 1
        BY <2>1, <1>i, <1>1
      <4> QED BY <4>1, <1>3
    <3>2. choice[v][z].keys \cap choice[t][p].keys # {}
      BY <3>1, <2>1, <1>c
    <3> QED BY <3>2 DEF DupInv, DupKeys
  <2>2. \A v \in d.tabs, z \in d.photos, m \in d.tabs, y \in d.photos :
          choice[m][y].keys \cap choice[v][z].keys # {} => v = m /\ z = y
    BY DEF DupInv, DupKeys
  <2>3. \A v \in d.tabs, z \in d.photos :
          choice'[v][z].keys = IF v = t /\ z = p THEN c.keys \cup {key} ELSE choice[v][z].keys
    BY <1>5, <1>8
  <2>4. \A v \in d.tabs, z \in d.photos :
          choice'[u][q].keys \cap choice'[v][z].keys # {} => v = u /\ z = q
    <3>1. ASSUME NEW v \in d.tabs, NEW z \in d.photos, NEW k, k \in choice'[u][q].keys, k \in choice'[v][z].keys
          PROVE  v = u /\ z = q
      <4>1. CASE k \in choice[u][q].keys /\ k \in choice[v][z].keys
        <5>1. choice[u][q].keys \cap choice[v][z].keys # {}
          BY <4>1
        <5> QED BY <5>1, <2>2
      <4>2. CASE k = key
        <5>1. key \in choice[v][z].keys \/ (v = t /\ z = p)
          BY <3>1, <4>2, <2>3
        <5>2. key \in choice[u][q].keys \/ (u = t /\ q = p)
          BY <3>1, <4>2, <2>3
        <5> QED BY <5>1, <5>2, <2>1
      <4> QED BY <3>1, <4>1, <4>2, <2>3, <1>c
    <3> QED BY <3>1
  <2>5. choice'[u][q].keys \subseteq 1..answers'
    <3>1. 1..answers \subseteq 1..answers'
      BY <1>1, <1>2
    <3>2. choice[u][q].keys \subseteq 1..answers /\ c.keys \subseteq 1..answers
      BY <1>i
    <3>3. choice'[u][q].keys = c.keys \cup {key} \/ choice'[u][q].keys = choice[u][q].keys
      BY <2>3
    <3> QED BY <3>1, <3>2, <3>3, <1>4
  <2>6. CASE u = t /\ q = p
    BY <2>4, <2>5, <2>6, <1>5, <1>8, <1>12, <1>4
  <2>7. CASE u # t \/ q # p
    <3>1. choice'[u][q] = choice[u][q]
      BY <2>7, <1>8
    <3>2. DupKept(u, q) => DupKept(u, q)'
      BY <3>1, <2>7, <1>2, <1>6, <1>q DEF DupKept
    <3> QED BY <3>1, <3>2, <2>4, <2>5, <1>2 DEF DupInv, DupKeys
  <2> QED BY <2>6, <2>7
<1>14. Repeat(d)!DecidedIsNotRefused'
  <2>1. ASSUME NEW u \in d.tabs, NEW q \in d.photos, choice'[u][q].told = "ALREADY_DECIDED",
               ~choice'[u][q].wavered
        PROVE  \A k \in choice'[u][q].keys : decided'[k] = "none"
    <3>1. choice'[u][q] = choice[u][q]
      BY <2>1, <1>5, <1>8
    <3> QED BY <2>1, <3>1, <1>2 DEF DupInv, Repeat!DecidedIsNotRefused
  <2> QED BY <2>1 DEF Repeat!DecidedIsNotRefused
<1>15. DupServer(d)' /\ Holds(d)
  BY <1>2, ServerRests, RestHolds
<1>16. DupKeys(d)'
  BY <1>10, <1>11, <1>13 DEF DupKeys
<1> QED BY <1>9, <1>14, <1>15, <1>16 DEF DupInv

(* What an answer does to its page.                                          *)
LEMMA AnswerTells ==
  ASSUME NEW d, DupBounds(d), DupInv(d), NEW r \in Requests(d),
         NEW what \in {"resolved", "ALREADY_DECIDED", "EXISTING_REMOVED"}, Repeat(d)!Answer(r, what)
  PROVE  /\ choice' \in [d.tabs -> [d.photos -> Options(d)]] /\ losses' \in 0..d.faults
         /\ \A u \in d.tabs, q \in d.photos :
              LET c == choice[u][q]
                  n == choice'[u][q]
              IN /\ n.key = c.key /\ n.keys = c.keys /\ n.decision = c.decision /\ n.wavered = c.wavered
                 /\ \/ n.told = c.told
                    \/ n.told = "unreachable"
                    \/ u = r.tab /\ q = r.photo /\ n.told = what
<1>1. /\ choice \in [d.tabs -> [d.photos -> Options(d)]] /\ r.tab \in d.tabs /\ r.photo \in d.photos
      /\ choice[r.tab][r.photo] \in Options(d) /\ losses \in 0..d.faults /\ d.faults \in Nat
      /\ 0 \in 0..d.submits
  BY DEF DupInv, DupTyped, Requests, DupBounds
<1>2. PICK said \in {what, "unreachable"} : choice' = Repeat(d)!Told(r, said)
  BY DEF Repeat!Answer
<1>3. losses' \in 0..d.faults
  BY <1>1 DEF Repeat!Answer
<1>4. PICK n : n = [choice[r.tab][r.photo] EXCEPT !.pending = 0, !.told = said]
  OBVIOUS
<1>5. /\ n \in Options(d) /\ n.told = said /\ n.key = choice[r.tab][r.photo].key
      /\ n.keys = choice[r.tab][r.photo].keys /\ n.decision = choice[r.tab][r.photo].decision
      /\ n.wavered = choice[r.tab][r.photo].wavered
  BY <1>1, <1>4 DEF Options
<1>6. choice' = choice \/ choice' = [choice EXCEPT ![r.tab][r.photo] = n]
  BY <1>2, <1>4, <1>1 DEF Repeat!Told
<1>7. CASE choice' = choice
  BY <1>1, <1>3, <1>7
<1>8. CASE choice' = [choice EXCEPT ![r.tab][r.photo] = n]
  <2>1. /\ choice' \in [d.tabs -> [d.photos -> Options(d)]]
        /\ \A u \in d.tabs, q \in d.photos :
             choice'[u][q] = IF u = r.tab /\ q = r.photo THEN n ELSE choice[u][q]
    BY <1>8, <1>1, <1>5
  <2> QED BY <2>1, <1>3, <1>5
<1> QED BY <1>6, <1>7, <1>8

LEMMA DupDecide ==
  ASSUME NEW d, DupBounds(d), DupInv(d), NEW r \in asking, Repeat(d)!Decide(r)
  PROVE  DupInv(d)' /\ Holds(d)
<1>1. /\ r \in Requests(d) /\ r.photo \in d.photos /\ r.tab \in d.tabs /\ r.decision \in Decisions
      /\ r \in Requested /\ choice \in [d.tabs -> [d.photos -> Options(d)]]
  BY DEF DupInv, DupTyped, Requests, Requested
<1>2. /\ asking' = asking \ {r} /\ \A x \in deciding : x.request.photo # r.photo
      /\ UNCHANGED <<photo, owned, review, label, reading, decided, answers>>
  BY DEF Repeat!Decide, Repeat!Locked
<1>3. /\ r.key \in choice[r.tab][r.photo].keys /\ review[r.photo].state # "none"
      /\ ~choice[r.tab][r.photo].wavered => DupKept(r.tab, r.photo)
  BY <1>1 DEF DupInv, DupKeys
<1>4. CASE decided[r.key] = r.decision \/ Repeat(d)!RefusalOf(r.photo, r.decision) # "none"
  <2>1. PICK what \in {"resolved", "ALREADY_DECIDED", "EXISTING_REMOVED"} :
          /\ Repeat(d)!Answer(r, what) /\ deciding' = deciding
          /\ what = "ALREADY_DECIDED" => decided[r.key] # r.decision /\ review[r.photo].state # "pending"
    BY <1>4 DEF Repeat!Decide, Repeat!RefusalOf
  <2>2. /\ choice' \in [d.tabs -> [d.photos -> Options(d)]] /\ losses' \in 0..d.faults
        /\ \A u \in d.tabs, q \in d.photos :
              LET c == choice[u][q]
                  n == choice'[u][q]
              IN /\ n.key = c.key /\ n.keys = c.keys /\ n.decision = c.decision /\ n.wavered = c.wavered
                 /\ \/ n.told = c.told
                    \/ n.told = "unreachable"
                    \/ u = r.tab /\ q = r.photo /\ n.told = what
    BY <2>1, <1>1, AnswerTells
  <2>3. what = "ALREADY_DECIDED" =>
          /\ review[r.photo].state \in Decisions
          /\ ~choice[r.tab][r.photo].wavered =>
               \A k \in choice[r.tab][r.photo].keys : decided[k] = "none"
    <3>1. review[r.photo].state \in {"none", "pending"} \cup Decisions
      BY <1>1 DEF DupInv, DupTyped, Reviews
    <3>2. ASSUME ~choice[r.tab][r.photo].wavered, decided[r.key] # r.decision
          PROVE  \A k \in choice[r.tab][r.photo].keys : decided[k] = "none"
      BY <3>2, <1>1, <1>3 DEF DupKept
    <3> QED BY <3>1, <3>2, <2>1, <1>3
  <2>4. \A u \in d.tabs, q \in d.photos : OptionRests(d, u, q)
    BY <2>2, <2>3 DEF OptionRests
  <2>5. Requested' \subseteq Requested
    BY <2>1, <1>2 DEF Requested
  <2>6. DupTyped(d)'
    BY <2>1, <2>2, <1>2 DEF DupInv, DupTyped
  <2> QED BY <2>1, <2>4, <2>5, <2>6, <1>2, OptionsRest, ServerRests, RestHolds DEF DupInv
<1>5. CASE ~(decided[r.key] = r.decision \/ Repeat(d)!RefusalOf(r.photo, r.decision) # "none")
  <2>1. PICK x : x = [request |-> r, label |-> Repeat(d)!Attachable(r.photo)]
    OBVIOUS
  <2>2. /\ deciding' = deciding \cup {x} /\ x.request = r /\ x.label = Repeat(d)!Attachable(r.photo)
        /\ ~Repeat(d)!EntryLocked(r.photo) /\ review[r.photo].state = "pending"
        /\ UNCHANGED <<choice, losses>>
    BY <1>5, <2>1 DEF Repeat!Decide, Repeat!RefusalOf
  <2>3. x \in [request : Requests(d), label : BOOLEAN]
    BY <2>1, <1>1 DEF Repeat!Attachable
  <2>4. Requested' \subseteq Requested
    BY <2>2, <1>1, <1>2 DEF Requested
  <2>5. \A u \in d.tabs, q \in d.photos : OptionRests(d, u, q)
    BY <2>2 DEF OptionRests
  <2>6. DupTyped(d)'
    BY <2>2, <2>3, <1>2 DEF DupInv, DupTyped
  <2>7. OneAtATime'
    <3>1. \A s \in reading : s.photo # r.photo
      BY <2>2 DEF Repeat!EntryLocked
    <3> QED BY <3>1, <2>2, <1>2 DEF DupInv, DupServer, OneAtATime
  <2>8. ReadsStand(d)'
    <3>1. ASSUME NEW s \in reading PROVE ReadStands(d, s)'
      BY <1>2 DEF DupInv, DupServer, ReadsStand, ReadStands, Repeat!Attachable, Repeat!Home, Repeat!Alive
    <3>2. ASSUME NEW y \in deciding', Repeat(d)!Attachable(y.request.photo)' PROVE y.label
      BY <3>2, <2>2, <1>2 DEF DupInv, DupServer, ReadsStand, Repeat!Attachable
    <3> QED BY <3>1, <3>2, <1>2 DEF ReadsStand
  <2>9. \A p \in d.photos : PhotoOK(d, p)'
    BY <1>2 DEF DupInv, DupServer, PhotoOK, Accounted, Repeat!Attachable, Repeat!Home, Repeat!Alive
  <2> QED BY <2>4, <2>5, <2>6, <2>7, <2>8, <2>9, <1>2, OptionsRest, RestHolds DEF DupInv, DupServer
<1> QED BY <1>4, <1>5

LEMMA DupCommitDecision ==
  ASSUME NEW d, DupBounds(d), DupInv(d), NEW x \in deciding, Repeat(d)!CommitDecision(x)
  PROVE  DupInv(d)' /\ Holds(d)
<1>r. PICK r \in Requests(d) : r = x.request /\ r \in Requested /\ x.label \in BOOLEAN
  BY DEF DupInv, DupTyped, Requested
<1>p. PICK p \in d.photos : p = r.photo /\ p \in Held(d) /\ p # Nobody
  BY DEF Requests, Held, DupBounds
<1>0. /\ r.tab \in d.tabs /\ r.key \in 1..d.submits /\ r.decision \in Decisions
      /\ review[p].state = "pending" /\ PhotoOK(d, p) /\ owned[p] = "none" /\ photo[p] = "ready"
      /\ Repeat(d)!Attachable(p) => x.label
  BY <1>r, <1>p DEF DupInv, DupServer, OneAtATime, ReadsStand, PhotoOK, Accounted, Requests
<1>h. /\ \A y \in deciding' : y \in deciding /\ y.request.photo # p
      /\ \A s \in reading : s.photo # p
      /\ deciding' = deciding \ {x}
  BY <1>r, <1>p DEF DupInv, DupServer, OneAtATime, Repeat!CommitDecision
<1>y. /\ photo \in [d.photos -> {"validating", "ready", "discarded"}]
      /\ owned \in [Held(d) -> {"none", "active", "deleted"}]
      /\ review \in [d.photos -> Reviews(d)] /\ label \in [d.photos -> Labels(d)]
      /\ decided \in [1..d.submits -> {"none"} \cup Decisions]
  BY DEF DupInv, DupTyped
<1>q. PICK v : v = [review[p] EXCEPT !.state = r.decision]
  OBVIOUS
<1>v. v \in Reviews(d) /\ v.state = r.decision /\ v.existing = review[p].existing
  BY <1>q, <1>y, <1>0 DEF Reviews
<1>1. /\ review' = [review EXCEPT ![p] = v] /\ decided' = [decided EXCEPT ![r.key] = r.decision]
      /\ UNCHANGED <<reading, asking, answers>> /\ Repeat(d)!Answer(r, "resolved")
  BY <1>r, <1>p, <1>q DEF Repeat!CommitDecision
<1>2. /\ review' \in [d.photos -> Reviews(d)] /\ review'[p] = v
      /\ \A q \in d.photos : q # p => review'[q] = review[q]
      /\ decided' \in [1..d.submits -> {"none"} \cup Decisions] /\ decided'[r.key] = r.decision
      /\ \A k \in 1..d.submits : k # r.key => decided'[k] = decided[k]
  BY <1>1, <1>v, <1>y, <1>0
<1>3. /\ photo' \in [d.photos -> {"validating", "ready", "discarded"}]
      /\ owned' \in [Held(d) -> {"none", "active", "deleted"}]
      /\ \A q \in d.photos : q # p => photo'[q] = photo[q]
      /\ \A z \in Held(d) : z # p => owned'[z] = owned[z]
      /\ IF r.decision = "use_existing"
         THEN photo'[p] = "discarded" /\ owned'[p] = "none"
         ELSE photo'[p] = "ready" /\ owned'[p] = "active"
  <2>1. CASE r.decision = "use_existing"
    <3>1. photo' = [photo EXCEPT ![p] = "discarded"] /\ owned' = owned
      BY <2>1, <1>r, <1>p DEF Repeat!CommitDecision
    <3> QED BY <3>1, <2>1, <1>y, <1>0
  <2>2. CASE r.decision # "use_existing"
    <3>1. owned' = [owned EXCEPT ![p] = "active"] /\ photo' = photo
      BY <2>2, <1>r, <1>p, <1>0 DEF Repeat!CommitDecision, Repeat!Creates
    <3> QED BY <3>1, <2>2, <1>y, <1>0, <1>p
  <2> QED BY <2>1, <2>2
<1>k. PICK kept : kept = IF r.decision = "use_existing" THEN review[p].existing ELSE p
  OBVIOUS
<1>4. /\ label' \in [d.photos -> Labels(d)] /\ \A q \in d.photos : q # p => label'[q] = label[q]
      /\ label'[p].state = label[p].state
      /\ \/ label'[p] = label[p] /\ ~(x.label /\ label[p].on = Nobody)
         \/ x.label /\ label[p].on = Nobody /\ label'[p].on = kept
  <2>1. kept \in Held(d) \cup {Nobody}
    BY <1>k, <1>y, <1>p DEF Reviews
  <2>2. PICK l : l = [label[p] EXCEPT !.on = kept]
    OBVIOUS
  <2>3. l \in Labels(d) /\ l.on = kept /\ l.state = label[p].state
    BY <2>1, <2>2, <1>y DEF Labels
  <2>4. label' = IF x.label /\ label[p].on = Nobody THEN [label EXCEPT ![p] = l] ELSE label
    BY <2>2, <1>r, <1>p, <1>k DEF Repeat!CommitDecision
  <2> QED BY <2>3, <2>4, <1>y
<1>5. PhotoOK(d, p)'
  <2>1. Accounted(p)'
    BY <1>0, <1>2, <1>3, <1>v DEF Accounted, Decisions
  <2>2. review'[p].existing # Nobody => owned'[review'[p].existing] # "none"
    <3>2. review[p].existing # Nobody => review[p].existing \in Held(d) /\ review[p].existing # p
      BY <1>y, <1>0 DEF Reviews, PhotoOK
    <3> QED BY <3>2, <1>0, <1>2, <1>3, <1>v DEF PhotoOK
  <2>3. label'[p].on # Nobody =>
          label'[p].on = p \/ (review'[p].state = "use_existing" /\ label'[p].on = review'[p].existing)
    BY <1>0, <1>2, <1>4, <1>k, <1>v DEF PhotoOK
  <2>4. Repeat(d)!Attachable(p)' => Repeat(d)!Home(p)' = Nobody
    <3>1. SUFFICES ASSUME label'[p].state = "ready", label'[p].on = Nobody PROVE Repeat(d)!Home(p)' = Nobody
      BY DEF Repeat!Attachable
    <3>2. CASE label'[p] = label[p] /\ ~(x.label /\ label[p].on = Nobody)
      BY <3>1, <3>2, <1>0 DEF Repeat!Attachable
    <3>3. CASE label'[p].on = kept
      <4>1. r.decision = "use_existing" /\ review[p].existing = Nobody
        BY <3>1, <3>3, <1>k, <1>p
      <4> QED BY <4>1, <1>2, <1>3, <1>v DEF Repeat!Home, Repeat!Alive
    <3> QED BY <3>2, <3>3, <1>4
  <2> QED BY <2>1, <2>2, <2>3, <2>4 DEF PhotoOK
<1>6. DupServer(d)'
  <2>1. PiecesMove(d, p) /\ \A z \in Held(d) : owned[z] # "none" => owned'[z] # "none"
    BY <1>0, <1>3, <1>p DEF PiecesMove
  <2>2. \A q \in d.photos : q # p => Quiet(q)
    BY <1>2, <1>3, <1>4 DEF Quiet
  <2> QED BY <2>1, <2>2, <1>1, <1>5, <1>h, ServerMoves
<1>7. /\ choice' \in [d.tabs -> [d.photos -> Options(d)]] /\ losses' \in 0..d.faults
      /\ \A u \in d.tabs, q \in d.photos :
           LET c == choice[u][q]
               n == choice'[u][q]
           IN /\ n.key = c.key /\ n.keys = c.keys /\ n.decision = c.decision /\ n.wavered = c.wavered
              /\ \/ n.told = c.told
                 \/ n.told = "unreachable"
                 \/ u = r.tab /\ q = r.photo /\ n.told = "resolved"
  BY <1>1, AnswerTells
<1>8. DupTyped(d)'
  BY <1>1, <1>2, <1>3, <1>4, <1>7, <1>h DEF DupInv, DupTyped
<1>9. Holds(d)
  <2>1. ASSUME NEW q \in d.photos, review[q].state \in Decisions PROVE review'[q].state = review[q].state
    BY <2>1, <1>0, <1>2 DEF Decisions
  <2>2. ASSUME NEW q \in d.photos, label[q].state = "ready" PROVE label'[q].state = "ready"
    BY <2>2, <1>4
  <2> QED BY <2>1, <2>2 DEF Holds, Repeat!Stands, Repeat!LabelWaits, Repeat!Attachable, Repeat!Decisions, Decisions
<1>10. \A u \in d.tabs, q \in d.photos : r.key \in choice[u][q].keys => u = r.tab /\ q = p
  <2>1. r.key \in choice[r.tab][r.photo].keys
    BY <1>r DEF DupInv, DupKeys
  <2> QED BY <2>1, <1>0, <1>p DEF DupInv, DupKeys
<1>11. DupKeys(d)'
  <2>1. Requested' \subseteq Requested /\ \A s \in Requested : s.tab \in d.tabs /\ s.photo \in d.photos
    BY <1>1, <1>h DEF Requested, DupInv, DupTyped, Requests
  <2>2. \A q \in d.photos : (review[q].state \in Decisions => review'[q].state \in Decisions)
                            /\ (review[q].state # "none" => review'[q].state # "none")
    BY <1>0, <1>2, <1>v DEF Decisions
  <2>3. \A s \in Requested' : s.key \in choice'[s.tab][s.photo].keys /\ review'[s.photo].state # "none"
    BY <2>1, <2>2, <1>7 DEF DupInv, DupKeys
  <2>4. ASSUME NEW k \in 1..d.submits, decided'[k] # "none"
        PROVE  \E u \in d.tabs, q \in d.photos : k \in choice'[u][q].keys /\ review'[q].state \in Decisions
    <3>1. CASE k = r.key
      <4>1. k \in choice'[r.tab][p].keys /\ review'[p].state \in Decisions
        <5>1. r.key \in choice[r.tab][p].keys
          BY <1>r, <1>p DEF DupInv, DupKeys
        <5>2. choice'[r.tab][p].keys = choice[r.tab][p].keys
          BY <1>0, <1>7
        <5> QED BY <5>1, <5>2, <3>1, <1>0, <1>2, <1>v
      <4> QED BY <4>1, <1>0
    <3>2. CASE k # r.key
      <4>1. decided[k] # "none"
        BY <2>4, <3>2, <1>2
      <4>2. PICK u \in d.tabs, q \in d.photos : k \in choice[u][q].keys /\ review[q].state \in Decisions
        BY <4>1 DEF DupInv, DupKeys
      <4> QED BY <4>2, <2>2, <1>7
    <3> QED BY <3>1, <3>2
  <2>5. ASSUME NEW u \in d.tabs, NEW q \in d.photos, DupKept(u, q) PROVE DupKept(u, q)'
    <3>1. choice'[u][q].keys = choice[u][q].keys /\ choice'[u][q].key = choice[u][q].key
          /\ choice'[u][q].decision = choice[u][q].decision
      BY <1>7
    <3>2. \A k \in choice[u][q].keys : decided'[k] \in {"none", choice[u][q].decision}
      <4>1. ASSUME NEW k \in choice[u][q].keys, k = r.key PROVE r.decision = choice[u][q].decision
        BY <4>1, <2>5, <1>10, <1>r, <1>p DEF DupKept
      <4>2. \A k \in choice[u][q].keys : k \in 1..d.submits
        BY DEF DupInv, DupTyped, Options
      <4> QED BY <4>1, <4>2, <2>5, <1>2 DEF DupKept
    <3> QED BY <3>1, <3>2, <2>1, <2>5 DEF DupKept
  <2>6. ASSUME NEW u \in d.tabs, NEW q \in d.photos
        PROVE  LET c == choice'[u][q] IN
               /\ c.keys \subseteq 1..answers'
               /\ \A w \in d.tabs, z \in d.photos : c.keys \cap choice'[w][z].keys # {} => w = u /\ z = q
               /\ IF c.key = 0 THEN c.keys = {} ELSE c.key \in c.keys
               /\ ~c.wavered => DupKept(u, q)'
               /\ c.told = "ALREADY_DECIDED" => review'[q].state \in Decisions
    <3>1. \A w \in d.tabs, z \in d.photos : choice'[w][z].keys = choice[w][z].keys
      BY <1>7
    <3>2. choice'[u][q].told = "ALREADY_DECIDED" => choice[u][q].told = "ALREADY_DECIDED"
      BY <1>7
    <3>3. choice'[u][q].key = choice[u][q].key /\ choice'[u][q].wavered = choice[u][q].wavered
      BY <1>7
    <3> QED BY <3>1, <3>2, <3>3, <2>2, <2>5, <1>1 DEF DupInv, DupKeys
  <2> QED BY <2>3, <2>4, <2>6 DEF DupKeys
<1>12. Repeat(d)!DecidedIsNotRefused'
  <2>1. ASSUME NEW u \in d.tabs, NEW q \in d.photos, choice'[u][q].told = "ALREADY_DECIDED",
               ~choice'[u][q].wavered, NEW k \in choice'[u][q].keys
        PROVE  decided'[k] = "none"
    <3>1. choice[u][q].told = "ALREADY_DECIDED" /\ ~choice[u][q].wavered /\ k \in choice[u][q].keys
      BY <2>1, <1>7
    <3>2. decided[k] = "none" /\ review[q].state \in Decisions /\ k \in 1..d.submits
      BY <3>1 DEF DupInv, Repeat!DecidedIsNotRefused, DupKeys, DupTyped, Options
    <3>3. k # r.key
      BY <3>1, <3>2, <1>10, <1>0 DEF Decisions
    <3> QED BY <3>2, <3>3, <1>2
  <2> QED BY <2>1 DEF Repeat!DecidedIsNotRefused
<1> QED BY <1>6, <1>8, <1>9, <1>11, <1>12 DEF DupInv

LEMMA DupNext ==
  ASSUME NEW d, DupBounds(d), DupInv(d), Repeat(d)!Next PROVE DupInv(d)' /\ Holds(d)
<1>1. CASE \E p \in d.photos : Repeat(d)!ReadGarment(p) \/ Repeat(d)!ReadLabel(p) \/ Repeat(d)!ExpireLabel(p)
  BY <1>1, DupReads, DupLapses
<1>2. CASE \E r \in reading : Repeat(d)!CommitGarment(r) \/ Repeat(d)!CommitLabel(r)
  BY <1>2, DupCommitGarment, DupCommitLabel
<1>3. CASE \E x \in Held(d) : Repeat(d)!DeletePiece(x)
  BY <1>3, DupLapses
<1>4. CASE \E t \in d.tabs, p \in d.photos :
             Repeat(d)!DecideLater(t, p) \/ \E x \in Decisions : Repeat(d)!Resolve(t, p, x)
  BY <1>4, DupDecideLater, DupResolve
<1>5. CASE \E r \in asking : Repeat(d)!Decide(r)
  BY <1>5, DupDecide
<1>6. CASE \E x \in deciding : Repeat(d)!CommitDecision(x)
  BY <1>6, DupCommitDecision
<1> QED BY <1>1, <1>2, <1>3, <1>4, <1>5, <1>6 DEF Repeat!Next, Repeat!Pieces, Held, Repeat!Decisions, Decisions

LEMMA DupRests ==
  ASSUME NEW d, DupInv(d), UNCHANGED againVars PROVE DupInv(d)' /\ Holds(d)
<1> USE DEF againVars
<1>1. DupTyped(d)'
  BY DEF DupInv, DupTyped
<1>2. \A t \in d.tabs, p \in d.photos : OptionRests(d, t, p)
  BY DEF OptionRests
<1>3. Requested' \subseteq Requested
  BY DEF Requested
<1> QED BY <1>1, <1>2, <1>3, OptionsRest, ServerRests, RestHolds DEF DupInv

(* For any photos, tabs, presses and lost answers: no repeated photo or      *)
(* label is lost or misplaced and a resent answer is not refused; a member's *)
(* answer stands, and a label waits for it.                                  *)
(*          [svc_complete_validation, svc_resolve_duplicate, svc_delete_item] *)
THEOREM AnyRepeatsAccounted ==
  ASSUME NEW d, DupBounds(d)
  PROVE  Repeat(d)!Spec => []PhotosKept(d) /\ [][Holds(d)]_(Repeat(d)!vars)
<1>1. Repeat(d)!Init => DupInv(d)
  BY DupStarts
<1>2. DupInv(d) /\ [Repeat(d)!Next]_(Repeat(d)!vars) => DupInv(d)'
  <2>1. ASSUME DupInv(d), UNCHANGED Repeat(d)!vars PROVE DupInv(d)'
    <3>1. UNCHANGED againVars
      BY <2>1 DEF Repeat!vars, againVars
    <3> QED BY <2>1, <3>1, DupRests
  <2> QED BY <2>1, DupNext
<1>3. DupInv(d) /\ [Repeat(d)!Next]_(Repeat(d)!vars) => [Holds(d)]_(Repeat(d)!vars)
  BY DupNext
<1>4. DupInv(d) => PhotosKept(d)
  BY DupTypeOK DEF PhotosKept, DupInv
<1> QED BY <1>1, <1>2, <1>3, <1>4, PTL DEF Repeat!Spec

(* For any pieces, photos they came from, tabs, edits and presses: a look-   *)
(* alike is asked about as the newer of two pieces of different photos,      *)
(* never once it was deleted, and an answer stands.                          *)
(*                             [flag_near_duplicate, svc_resolve_duplicate]  *)
THEOREM AnyLookAlikesAsked ==
  ASSUME NEW n, NearBounds(n)
  PROVE  Near(n)!Spec => []NewerAsked(n) /\ [][Near(n)!Stands]_(Near(n)!vars)
<1>1. Near(n)!Init => NearInv(n)
  BY NearStarts
<1>2. NearInv(n) /\ [Near(n)!Next]_(Near(n)!vars) => NearInv(n)'
  <2>1. ASSUME NearInv(n), UNCHANGED Near(n)!vars PROVE NearInv(n)'
    <3>1. UNCHANGED nearVars
      BY <2>1 DEF Near!vars, nearVars
    <3> QED BY <2>1, <3>1, NearRests
  <2> QED BY <2>1, NearNext
<1>3. NearInv(n) /\ [Near(n)!Next]_(Near(n)!vars) => [Near(n)!Stands]_(Near(n)!vars)
  BY NearNext
<1>4. NearInv(n) => NewerAsked(n)
  BY NearTypeOK DEF NewerAsked, NearInv
<1> QED BY <1>1, <1>2, <1>3, <1>4, PTL DEF Near!Spec

-----------------------------------------------------------------------------
(* The boxes of parts (PartBoxes), along one side: of at most GRID_EDGE      *)
(* cells and, in pixels, of at most the longest edge of a sanitized photo.   *)
(* Millionths make numbers that only the SMT solver takes.                   *)
BoxBounds(b) ==
  /\ b.grids \subseteq 1..128 /\ b.starts \subseteq Nat /\ b.scales \subseteq Nat
  /\ \A cells \in b.grids, scale \in b.scales : cells * scale \in 1..2048
  /\ \A x \in b.typed : x \in Nat /\ x <= 1000000

BoxStages ==
  {"found", "proposed", "kept", "dropped", "draft", "misfit", "sent", "refused", "confirmed", "cropped",
   "rejected"}
Positions == {p \in [x : Nat, w : Nat] : p.x <= 1000000 /\ p.w <= 1000000}
Spans == {s \in [cells : 1..128, first : Nat, end : Nat] : s.first < s.end /\ s.end <= s.cells}

(* A proposal has room on the left of its region, but at the photo's edge,   *)
(* and falls short of it by little on the right; a draft by little more.     *)
ProposalFits(b) ==
  /\ \/ span.cells * proposal.x + 29950 * span.cells <= 1000000 * span.first
     \/ proposal.x <= 50
  /\ 1000000 * span.end <= span.cells * (proposal.x + proposal.w) + 100 * span.cells
DraftFits(b) ==
  /\ span.cells * draft.x <= 1000000 * span.first
  /\ 1000000 * span.end <= span.cells * (draft.x + draft.w) + 1100 * span.cells

BoxInv(b) ==
  /\ span \in Spans /\ size \in 1..2048 /\ stage \in BoxStages \ {"rejected"}
  /\ proposal \in Positions /\ draft \in Positions /\ edited \in BOOLEAN
  /\ cut \in [left : 0..size, right : 0..size]
  /\ stage # "found" => ProposalFits(b)
  /\ stage \notin {"found", "proposed", "kept", "dropped"} /\ ~edited => DraftFits(b)
  /\ stage \in {"confirmed", "cropped"} => Boxes(b)!ValidPartBox(draft)
  /\ stage = "cropped" =>
       cut.left = Boxes(b)!LeftPixel(draft) /\ cut.right = Boxes(b)!RightPixel(draft)

LEMMA DivBounds ==
  ASSUME NEW n \in Int, NEW d \in Nat \ {0}
  PROVE  n \div d \in Int /\ d * (n \div d) <= n /\ n < d * (n \div d) + d
OBVIOUS

LEMMA TimesKeeps == ASSUME NEW i \in Int, NEW j \in Int, NEW k \in Nat, i <= j PROVE i * k <= j * k
OBVIOUS
LEMMA TimesMillion ==
  ASSUME NEW i \in Int, NEW j \in Int
  PROVE  (i * 1000000) * j = 1000000 * (i * j) /\ (1000000 * i) * j = 1000000 * (i * j) /\ i * j \in Int
OBVIOUS

(* The nearest whole number is within a half.                                *)
LEMMA NearestWithin ==
  ASSUME NEW b, NEW n \in Int, NEW d \in Nat \ {0}, NEW x \in Boxes(b)!Nearest(n, d)
  PROVE  x \in Int /\ 2 * d * x <= 2 * n + d /\ 2 * n - d <= 2 * d * x
<1> DEFINE m == 2 * n + d
           k == 2 * d
           up == m \div k
<1>1. m \in Int /\ k \in Nat \ {0}
  OBVIOUS
<1> HIDE DEF m, k
<1>2. up \in Int /\ k * up <= m /\ m < k * up + k
  BY <1>1, DivBounds
<1>3. m % k = 0 => m = k * up
  BY <1>1
<1>4. x = up \/ (x = up - 1 /\ m % k = 0)
  BY DEF Boxes!Nearest, m, k
<1> HIDE DEF up
<1>5. x \in Int /\ k * x <= m /\ m - k <= k * x
  <2>1. CASE x = up
    BY <1>1, <1>2, <2>1
  <2>2. CASE x = up - 1 /\ m % k = 0
    <3>1. k * x = k * up - k
      BY <1>1, <1>2, <2>2
    <3> QED BY <1>1, <1>2, <1>3, <2>2, <3>1
  <2> QED BY <1>4, <2>1, <2>2
<1>6. 2 * d * x = k * x
  BY <1>5 DEF k
<1> QED BY <1>5, <1>6 DEF m, k

LEMMA BoxStarts ==
  ASSUME NEW b, BoxBounds(b), Boxes(b)!Init PROVE BoxInv(b)
<1>a. PICK c \in b.grids, s \in b.scales, first \in b.starts :
        \E end \in (first + 1)..c : span = [cells |-> c, first |-> first, end |-> end] /\ size = c * s
  BY SMT DEF Boxes!Init
<1>1. PICK end \in (first + 1)..c : span = [cells |-> c, first |-> first, end |-> end] /\ size = c * s
  BY SMT, <1>a
<1>2. c \in 1..128 /\ first \in Nat /\ size \in 1..2048
  BY SMT, <1>1 DEF BoxBounds
<1>3. end \in Nat /\ first < end /\ end <= c
  BY SMT, <1>2
<1>4. span \in Spans
  BY SMT, <1>1, <1>2, <1>3 DEF Spans
<1>5. stage = "found" /\ edited = FALSE
  BY SMT DEF Boxes!Init
<1>p. proposal = [x |-> 0, w |-> 0] /\ draft = [x |-> 0, w |-> 0]
  BY SMT DEF Boxes!Init, Boxes!NoBox
<1>c. cut = [left |-> 0, right |-> 0]
  BY SMT DEF Boxes!Init
<1>6. [left |-> 0, right |-> 0] \in [left : 0..size, right : 0..size] /\ [x |-> 0, w |-> 0] \in Positions
  BY SMT, <1>2 DEF Positions
<1>7. stage = "found" /\ stage \in BoxStages \ {"rejected"}
  BY SMT, <1>5 DEF BoxStages
<1>8. cut \in [left : 0..size, right : 0..size] /\ proposal \in Positions /\ draft \in Positions
  BY SMT, <1>6, <1>p, <1>c
<1>9. edited \in BOOLEAN
  BY Zenon, <1>5
<1> QED BY SMT, <1>2, <1>4, <1>7, <1>8, <1>9 DEF BoxInv

LEMMA ProposeKeeps ==
  ASSUME NEW b, BoxInv(b), Boxes(b)!Propose PROVE BoxInv(b)'
<1> DEFINE c == span.cells
           low == Boxes(b)!Padded.low
           high == Boxes(b)!Padded.high
<1>1. c \in 1..128 /\ span.first \in Nat /\ span.end \in Nat /\ span.first < span.end /\ span.end <= c
  BY SMT DEF BoxInv, Spans
<1>2. /\ low \in 0..100 * c /\ high \in 0..100 * c /\ low <= high /\ 100 * span.end <= high
      /\ low = 0 \/ low = 100 * span.first - 3 * c
  <2>1. /\ low = IF 100 * span.first - 3 * c > 0 THEN 100 * span.first - 3 * c ELSE 0
        /\ high = IF 100 * span.end + 3 * c < 100 * c THEN 100 * span.end + 3 * c ELSE 100 * c
    BY SMT DEF Boxes!Padded
  <2> HIDE DEF low, high, c
  <2>2. low \in Nat /\ low <= 100 * c /\ (low = 0 \/ low = 100 * span.first - 3 * c)
    BY SMT, <1>1, <2>1
  <2>3. high \in Nat /\ high <= 100 * c /\ 100 * span.end <= high
    BY SMT, <1>1, <2>1
  <2>4. low <= high
    BY SMT, <1>1, <2>1
  <2> QED BY SMT, <1>1, <2>2, <2>3, <2>4
<1> HIDE DEF low, high
<1>3. PICK x \in Boxes(b)!Nearest(10000 * low, 100 * c), w \in Boxes(b)!Nearest(10000 * (high - low), 100 * c) :
        proposal' = [x |-> 100 * x, w |-> 100 * w]
  BY SMT DEF Boxes!Propose, low, high
<1>4. x \in Int /\ 200 * (c * x) <= 20000 * low + 100 * c /\ 20000 * low - 100 * c <= 200 * (c * x)
  <2>1. 100 * c \in Nat \ {0} /\ 10000 * low \in Int
    BY SMT, <1>1, <1>2
  <2>2. x \in Int /\ 2 * (100 * c) * x <= 2 * (10000 * low) + 100 * c
                  /\ 2 * (10000 * low) - 100 * c <= 2 * (100 * c) * x
    BY SMT, <2>1, NearestWithin
  <2>3. 2 * (100 * c) * x = 200 * (c * x)
    BY SMT, <1>1, <2>2
  <2> QED BY SMT, <1>1, <1>2, <2>2, <2>3
<1>5. w \in Int /\ 200 * (c * w) <= 20000 * (high - low) + 100 * c
                /\ 20000 * (high - low) - 100 * c <= 200 * (c * w)
  <2>1. 100 * c \in Nat \ {0} /\ 10000 * (high - low) \in Int
    BY SMT, <1>1, <1>2
  <2>2. w \in Int /\ 2 * (100 * c) * w <= 2 * (10000 * (high - low)) + 100 * c
                  /\ 2 * (10000 * (high - low)) - 100 * c <= 2 * (100 * c) * w
    BY SMT, <2>1, NearestWithin
  <2>3. 2 * (100 * c) * w = 200 * (c * w)
    BY SMT, <1>1, <2>2
  <2> QED BY SMT, <1>1, <1>2, <2>2, <2>3
<1> HIDE DEF c
<1>6. ASSUME NEW y \in Int, -1 * c <= 2 * (c * y), 2 * (c * y) <= 20001 * c PROVE y \in 0..10000
  <2>1. 0 <= y
    <3>1. ~(y <= -1)
      <4>1. SUFFICES ASSUME y <= -1 PROVE FALSE
        BY SMT
      <4>2. c * y <= c * (-1)
        BY SMT, <1>1, <4>1
      <4> QED BY SMT, <1>1, <1>6, <4>2
    <3> QED BY SMT, <3>1
  <2>2. y <= 10000
    <3>1. SUFFICES ASSUME 10001 <= y PROVE FALSE
      BY SMT
    <3>2. c * 10001 <= c * y
      BY SMT, <1>1, <3>1
    <3> QED BY SMT, <1>1, <1>6, <3>2
  <2> QED BY SMTT(30), <2>1, <2>2
<1>7. c * x \in Int /\ c * w \in Int
  BY SMT, <1>1, <1>4, <1>5
<1>8. x \in 0..10000 /\ w \in 0..10000
  <2>1. -1 * c <= 2 * (c * x) /\ 2 * (c * x) <= 20001 * c
    BY SMT, <1>1, <1>2, <1>4, <1>7
  <2>2. -1 * c <= 2 * (c * w) /\ 2 * (c * w) <= 20001 * c
    BY SMT, <1>1, <1>2, <1>5, <1>7
  <2>3. x \in 0..10000
    BY SMT, <1>4, <1>6, <2>1
  <2>4. w \in 0..10000
    BY SMT, <1>5, <1>6, <2>2
  <2> QED BY <2>3, <2>4
<1>9. proposal' \in Positions
  BY SMT, <1>3, <1>8 DEF Positions
<1>10. UNCHANGED <<span, size, draft, edited, cut>> /\ stage = "found" /\ stage' = "proposed"
  BY SMT DEF Boxes!Propose
<1>11. proposal'.x = 100 * x /\ proposal'.w = 100 * w
  BY SMT, <1>3
<1>12. c * proposal'.x = 100 * (c * x) /\ c * (proposal'.x + proposal'.w) = 100 * (c * x) + 100 * (c * w)
  BY SMT, <1>1, <1>4, <1>5, <1>11
<1>13. ProposalFits(b)'
  <2>1. \/ c * proposal'.x + 29950 * c <= 1000000 * span.first
        \/ proposal'.x <= 50
    <3>1. CASE low = 0
      <4>1. SUFFICES ASSUME 1 <= x PROVE FALSE
        BY SMT, <1>8, <1>11
      <4>2. c * 1 <= c * x
        BY SMT, <1>1, <1>4, <4>1
      <4> QED BY SMT, <1>1, <1>4, <1>7, <3>1, <4>2
    <3>2. CASE low = 100 * span.first - 3 * c
      BY SMT, <1>1, <1>4, <1>7, <1>12, <3>2
    <3> QED BY SMT, <1>2, <3>1, <3>2
  <2>2. 1000000 * span.end <= c * (proposal'.x + proposal'.w) + 100 * c
    BY SMT, <1>1, <1>2, <1>4, <1>5, <1>7, <1>12
  <2> QED BY SMT, <1>10, <2>1, <2>2 DEF ProposalFits, c
<1> QED BY SMT, <1>9, <1>10, <1>13 DEF BoxInv, BoxStages

LEMMA SeedKeeps ==
  ASSUME NEW b, BoxInv(b), Boxes(b)!Seed PROVE BoxInv(b)'
<1> DEFINE c == span.cells
<1>1. c \in 1..128 /\ span.first \in Nat /\ span.end \in Nat
  BY SMT DEF BoxInv, Spans
<1> HIDE DEF c
<1>2. proposal.x \in Nat /\ proposal.w \in Nat /\ proposal.x <= 1000000 /\ proposal.w <= 1000000
  BY SMT DEF BoxInv, Positions
<1>3. PICK x \in Boxes(b)!Nearest(proposal.x, 1000), w \in Boxes(b)!Nearest(proposal.w, 1000) :
        draft' = [x |-> 1000 * x, w |-> 1000 * w]
  BY SMT DEF Boxes!Seed
<1>4. /\ x \in Int /\ 2000 * x <= 2 * proposal.x + 1000 /\ 2 * proposal.x - 1000 <= 2000 * x
      /\ w \in Int /\ 2000 * w <= 2 * proposal.w + 1000 /\ 2 * proposal.w - 1000 <= 2000 * w
  <2>1. 1000 \in Nat \ {0} /\ proposal.x \in Int /\ proposal.w \in Int
    BY SMT, <1>2
  <2>2. /\ x \in Int /\ 2 * 1000 * x <= 2 * proposal.x + 1000 /\ 2 * proposal.x - 1000 <= 2 * 1000 * x
        /\ w \in Int /\ 2 * 1000 * w <= 2 * proposal.w + 1000 /\ 2 * proposal.w - 1000 <= 2 * 1000 * w
    BY SMT, <2>1, NearestWithin
  <2> QED BY SMT, <2>2
<1>5. UNCHANGED <<span, size, proposal, edited, cut>> /\ stage = "kept" /\ stage' = "draft"
  BY SMT DEF Boxes!Seed
<1>6. draft'.x = 1000 * x /\ draft'.w = 1000 * w /\ draft' \in Positions
  BY SMT, <1>2, <1>3, <1>4 DEF Positions
<1>7. ProposalFits(b)
  BY SMT, <1>5 DEF BoxInv
<1>8. DraftFits(b)'
  <2>1. c * draft'.x <= 1000000 * span.first
    <3>1. CASE proposal.x <= 50
      <4>1. draft'.x = 0
        BY SMT, <1>2, <1>4, <1>6, <3>1
      <4> QED BY SMT, <1>1, <4>1
    <3>2. CASE c * proposal.x + 29950 * c <= 1000000 * span.first
      <4>1. draft'.x \in Int /\ draft'.x <= proposal.x + 500
        BY SMT, <1>2, <1>4, <1>6
      <4>2. c * draft'.x <= c * (proposal.x + 500)
        BY SMT, <1>1, <1>2, <4>1
      <4>3. c * (proposal.x + 500) = c * proposal.x + 500 * c
        BY SMT, <1>1, <1>2
      <4> QED BY SMT, <1>1, <1>2, <3>2, <4>1, <4>2, <4>3
    <3> QED BY SMT, <1>7, <3>1, <3>2 DEF ProposalFits, c
  <2>2. 1000000 * span.end <= c * (draft'.x + draft'.w) + 1100 * c
    <3>1. draft'.x + draft'.w \in Int /\ proposal.x + proposal.w <= draft'.x + draft'.w + 1000
      BY SMT, <1>2, <1>4, <1>6
    <3>2. c * (proposal.x + proposal.w) <= c * (draft'.x + draft'.w + 1000)
      BY SMT, <1>1, <1>2, <3>1
    <3>3. c * (draft'.x + draft'.w + 1000) = c * (draft'.x + draft'.w) + 1000 * c
      BY SMT, <1>1, <3>1
    <3>4. c * (proposal.x + proposal.w) \in Int /\ c * (draft'.x + draft'.w) \in Int
      BY SMT, <1>1, <1>2, <3>1
    <3> QED BY SMT, <1>1, <1>7, <3>2, <3>3, <3>4 DEF ProposalFits, c
  <2> QED BY SMT, <1>5, <2>1, <2>2 DEF DraftFits, c
<1> QED BY SMT, <1>5, <1>6, <1>7, <1>8 DEF BoxInv, BoxStages, ProposalFits

LEMMA TypeBoxKeeps ==
  ASSUME NEW b, BoxBounds(b), BoxInv(b), Boxes(b)!TypeBox PROVE BoxInv(b)'
<1>1. PICK x, w \in b.typed : draft' = [x |-> x, w |-> w]
  BY SMT DEF Boxes!TypeBox
<1>2. draft' \in Positions
  BY SMT, <1>1 DEF BoxBounds, Positions
<1>3. /\ UNCHANGED <<span, size, proposal, cut>> /\ stage' = "draft" /\ edited' = TRUE
      /\ stage \in {"draft", "dropped", "misfit", "refused"}
  BY SMT DEF Boxes!TypeBox
<1>4. ProposalFits(b)'
  <2>1. ProposalFits(b)
    BY SMT, <1>3 DEF BoxInv
  <2> QED BY SMT, <1>3, <2>1 DEF ProposalFits
<1>5. stage' \in BoxStages \ {"rejected"}
  BY SMT, <1>3 DEF BoxStages
<1>6. edited' \in BOOLEAN
  BY SMT, <1>3
<1> QED BY SMT, <1>2, <1>3, <1>4, <1>5, <1>6 DEF BoxInv

(* The checks on the way move a part on, and change nothing of it.           *)
LEMMA ChecksKeep ==
  ASSUME NEW b, BoxInv(b), Boxes(b)!KeepProposal \/ Boxes(b)!Submit \/ Boxes(b)!Confirm
  PROVE  BoxInv(b)'
<1>1. UNCHANGED <<span, size, proposal, draft, edited, cut>>
  BY SMT DEF Boxes!KeepProposal, Boxes!Submit, Boxes!Confirm
<1>2. \/ stage = "proposed" /\ stage' \in {"kept", "dropped"}
      \/ stage = "draft" /\ stage' \in {"sent", "misfit"}
      \/ stage = "sent" /\ stage' = "refused"
      \/ stage = "sent" /\ stage' = "confirmed" /\ Boxes(b)!ValidPartBox(draft)
  BY SMT DEF Boxes!KeepProposal, Boxes!Submit, Boxes!Confirm
<1>3. ProposalFits(b)'
  <2>1. ProposalFits(b)
    BY SMT, <1>2 DEF BoxInv
  <2> QED BY SMT, <1>1, <2>1 DEF ProposalFits
<1>4. stage' \notin {"found", "proposed", "kept", "dropped"} /\ ~edited => DraftFits(b)'
  <2>1. stage' \notin {"found", "proposed", "kept", "dropped"} /\ ~edited => DraftFits(b)
    BY SMT, <1>2 DEF BoxInv
  <2> QED BY SMT, <1>1, <2>1 DEF DraftFits
<1>5. stage' = "confirmed" => Boxes(b)!ValidPartBox(draft)'
  BY SMT, <1>1, <1>2 DEF Boxes!ValidPartBox
<1>6. stage' \in BoxStages \ {"rejected"} /\ stage' # "cropped"
  BY SMT, <1>2 DEF BoxStages
<1> QED BY SMT, <1>1, <1>3, <1>4, <1>5, <1>6 DEF BoxInv

(* What is cropped of a box the database accepts: all of it that is inside   *)
(* the photo, which is enough.                                               *)
LEMMA CropFits ==
  ASSUME NEW b, size \in 1..2048, draft \in Positions, Boxes(b)!ValidPartBox(draft)
  PROVE  /\ Boxes(b)!LeftPixel(draft) \in 0..size /\ Boxes(b)!RightPixel(draft) \in 0..size
         /\ Boxes(b)!RightPixel(draft) - Boxes(b)!LeftPixel(draft) >= 32
         /\ Boxes(b)!LeftPixel(draft) * 1000000 <= draft.x * size
         /\ \/ Boxes(b)!RightPixel(draft) = size
            \/ (draft.x + draft.w) * size <= Boxes(b)!RightPixel(draft) * 1000000
<1> DEFINE l == (draft.x * size) \div 1000000
           r == ((draft.x + draft.w) * size + 999999) \div 1000000
           xs == draft.x * size
           ws == draft.w * size
<1>1. draft.x \in Nat /\ draft.w \in Nat /\ draft.x <= 1000000 /\ draft.w <= 1000000
  BY SMT DEF Positions
<1>2. draft.x + draft.w <= 1000001 /\ 32000000 <= ws
  BY SMT, <1>1 DEF Boxes!ValidPartBox, Boxes!Whole, Boxes!MinCropEdge
<1>3. /\ xs \in Nat /\ ws \in Nat /\ (draft.x + draft.w) * size = xs + ws
      /\ xs <= 1000000 * size /\ xs + ws <= 1000001 * size
  BY SMT, <1>1, <1>2
<1>4. /\ Boxes(b)!LeftPixel(draft) = l
      /\ Boxes(b)!RightPixel(draft) = IF r <= size THEN r ELSE size
  BY SMT, <1>1 DEF Boxes!LeftPixel, Boxes!RightPixel, Boxes!Whole
<1> HIDE DEF xs, ws
<1>5. l \in Int /\ 1000000 * l <= xs /\ xs < 1000000 * l + 1000000
  <2>1. 1000000 \in Nat \ {0} /\ l = xs \div 1000000
    BY SMT DEF xs
  <2> HIDE DEF l
  <2> QED BY SMT, <1>3, <2>1, DivBounds
<1>6. r \in Int /\ 1000000 * r <= xs + ws + 999999 /\ xs + ws + 999999 < 1000000 * r + 1000000
  <2>1. 1000000 \in Nat \ {0} /\ r = (xs + ws + 999999) \div 1000000
    BY SMT, <1>3
  <2> QED BY SMT, <1>3, <2>1, DivBounds
<1> HIDE DEF l, r
<1>7. 0 <= l /\ 0 <= r /\ l <= size
  BY SMT, <1>3, <1>5, <1>6
<1>8. CASE r <= size
  <2>1. r - l >= 32
    BY SMT, <1>2, <1>3, <1>5, <1>6
  <2> QED BY SMT, <1>3, <1>4, <1>5, <1>6, <1>7, <1>8, <2>1 DEF xs
<1>9. CASE ~(r <= size)
  <2>1. size - l >= 32
    BY SMT, <1>2, <1>3, <1>5
  <2> QED BY SMT, <1>3, <1>4, <1>5, <1>7, <1>9, <2>1 DEF xs
<1> QED BY SMT, <1>8, <1>9

LEMMA CropKeeps ==
  ASSUME NEW b, BoxInv(b), Boxes(b)!Crop PROVE BoxInv(b)'
<1>1. stage = "confirmed" /\ UNCHANGED <<span, size, proposal, draft, edited>>
  BY SMT DEF Boxes!Crop
<1>2. size \in 1..2048 /\ draft \in Positions /\ Boxes(b)!ValidPartBox(draft)
  BY SMT, <1>1 DEF BoxInv
<1> DEFINE l == Boxes(b)!LeftPixel(draft)
           r == Boxes(b)!RightPixel(draft)
<1>3. l \in 0..size /\ r \in 0..size /\ r - l >= 32
  BY SMT, <1>2, CropFits
<1>4. cut' = [left |-> l, right |-> r] /\ stage' = IF r - l < 32 THEN "rejected" ELSE "cropped"
  BY SMT DEF Boxes!Crop, Boxes!MinCropEdge
<1>5. l' = l /\ r' = r /\ Boxes(b)!ValidPartBox(draft)'
  BY SMT, <1>1, <1>2 DEF Boxes!LeftPixel, Boxes!RightPixel, Boxes!ValidPartBox
<1> HIDE DEF l, r
<1>6. stage' = "cropped" /\ stage' \in BoxStages \ {"rejected"}
  BY SMT, <1>2, <1>3, <1>4 DEF BoxStages
<1>7. cut' \in [left : 0..size, right : 0..size]' /\ cut'.left = l' /\ cut'.right = r'
  BY SMT, <1>1, <1>3, <1>4, <1>5
<1>8. ProposalFits(b)'
  <2>1. ProposalFits(b)
    BY SMT, <1>1 DEF BoxInv
  <2> QED BY SMT, <1>1, <2>1 DEF ProposalFits
<1>9. ~edited => DraftFits(b)'
  <2>1. ~edited => DraftFits(b)
    BY SMT, <1>1 DEF BoxInv
  <2> QED BY SMT, <1>1, <2>1 DEF DraftFits
<1> QED BY SMT, <1>1, <1>2, <1>5, <1>6, <1>7, <1>8, <1>9 DEF BoxInv, l, r

LEMMA BoxRests ==
  ASSUME NEW b, BoxInv(b), UNCHANGED boxVars PROVE BoxInv(b)'
<1>1. UNCHANGED <<span, size, stage, proposal, draft, edited, cut>>
  BY DEF boxVars
<1>2. ProposalFits(b)' = ProposalFits(b) /\ DraftFits(b)' = DraftFits(b)
  BY SMT, <1>1 DEF ProposalFits, DraftFits
<1>3. /\ Boxes(b)!ValidPartBox(draft)' = Boxes(b)!ValidPartBox(draft)
      /\ Boxes(b)!LeftPixel(draft)' = Boxes(b)!LeftPixel(draft)
      /\ Boxes(b)!RightPixel(draft)' = Boxes(b)!RightPixel(draft)
  BY SMT, <1>1 DEF Boxes!ValidPartBox, Boxes!LeftPixel, Boxes!RightPixel
<1> QED BY SMT, <1>1, <1>2, <1>3 DEF BoxInv

LEMMA BoxGives ==
  ASSUME NEW b, BoxInv(b) PROVE BoxesFit(b)
<1>1. /\ size \in 1..2048 /\ span \in Spans /\ draft \in Positions /\ proposal \in Positions
      /\ cut \in [left : 0..size, right : 0..size]
  BY SMT DEF BoxInv
<1>2. Boxes(b)!TypeOK
  <2>1. /\ span.cells \in Nat /\ span.first \in Nat /\ span.end \in Nat
        /\ span.first < span.end /\ span.end <= span.cells
    BY SMT, <1>1 DEF Spans
  <2>2. span.first \in 0..(span.cells - 1) /\ span.end \in (span.first + 1)..span.cells
    BY SMT, <2>1
  <2> DEFINE W == Boxes(b)!Whole
  <2>3. W \in Nat /\ \A p \in Positions : p.x <= W /\ p.w <= W
    BY SMT DEF Boxes!Whole, Positions
  <2> HIDE DEF W
  <2>4. ASSUME NEW p \in Positions PROVE p \in [x : 0..W, w : 0..W]
    <3>1. p \in [x : Nat, w : Nat]
      BY SMT DEF Positions
    <3> QED BY SMT, <2>3, <3>1
  <2>5. edited \in BOOLEAN /\ stage \in BoxStages
    BY SMT DEF BoxInv
  <2> QED BY SMT, <1>1, <2>2, <2>4, <2>5 DEF Boxes!TypeOK, BoxStages, W
<1>3. Boxes(b)!ConfirmedIsCropped
  BY SMT DEF BoxInv, Boxes!ConfirmedIsCropped
<1>4. ASSUME stage = "cropped"
      PROVE  /\ cut.left \in Nat /\ cut.right \in Nat
             /\ cut.left * 1000000 <= draft.x * size
             /\ cut.right = size \/ (draft.x + draft.w) * size <= cut.right * 1000000
  <2>1. /\ Boxes(b)!ValidPartBox(draft)
        /\ cut.left = Boxes(b)!LeftPixel(draft) /\ cut.right = Boxes(b)!RightPixel(draft)
    BY SMT, <1>4 DEF BoxInv
  <2> QED BY SMT, <1>1, <2>1, CropFits
<1>5. Boxes(b)!CropHoldsBox
  BY SMT, <1>1, <1>4 DEF Boxes!CropHoldsBox, Boxes!Whole, Positions
<1>6. ASSUME stage = "cropped", ~edited
      PROVE  /\ cut.left * span.cells <= span.first * size
             /\ 500 * (span.end * size - cut.right * span.cells) <= size * span.cells
  <2> DEFINE c == span.cells
  <2>1. c \in 1..128 /\ span.first \in Nat /\ span.end \in Nat /\ span.end <= c
    BY SMT, <1>1 DEF Spans
  <2>2. draft.x \in Nat /\ draft.w \in Nat
    BY SMT, <1>1 DEF Positions
  <2>3. c * draft.x <= 1000000 * span.first /\ 1000000 * span.end <= c * (draft.x + draft.w) + 1100 * c
    BY SMT, <1>6 DEF BoxInv, DraftFits
  <2> HIDE DEF c
  <2>4. cut.left * c <= span.first * size
    <3>1. (cut.left * 1000000) * c <= (draft.x * size) * c
      <4>1. cut.left * 1000000 \in Int /\ draft.x * size \in Int /\ c \in Nat
        BY SMT, <1>1, <1>4, <1>6, <2>1, <2>2
      <4> QED BY SMT, <1>4, <1>6, <4>1, TimesKeeps
    <3>2. (c * draft.x) * size <= (1000000 * span.first) * size
      <4>1. c * draft.x \in Int /\ 1000000 * span.first \in Int /\ size \in Nat
        BY SMT, <1>1, <2>1, <2>2
      <4> QED BY SMT, <2>3, <4>1, TimesKeeps
    <3>3. (draft.x * size) * c = (c * draft.x) * size
      BY SMT, <1>1, <2>1, <2>2
    <3>4. /\ (cut.left * 1000000) * c = 1000000 * (cut.left * c) /\ cut.left * c \in Int
          /\ (1000000 * span.first) * size = 1000000 * (span.first * size) /\ span.first * size \in Int
      <4>1. cut.left \in Int /\ c \in Int /\ span.first \in Int /\ size \in Int
        BY SMT, <1>1, <1>4, <1>6, <2>1
      <4>2. (cut.left * 1000000) * c = 1000000 * (cut.left * c) /\ cut.left * c \in Int
        BY SMT, <4>1, TimesMillion
      <4>3. (1000000 * span.first) * size = 1000000 * (span.first * size) /\ span.first * size \in Int
        BY SMT, <4>1, TimesMillion
      <4> QED BY SMT, <4>2, <4>3
    <3>5. (draft.x * size) * c \in Int
      BY SMT, <1>1, <2>1, <2>2
    <3> QED BY SMT, <3>1, <3>2, <3>3, <3>4, <3>5
  <2>5. 500 * (span.end * size - cut.right * c) <= size * c
    <3>1. span.end * size \in Int /\ cut.right * c \in Int /\ size * c \in Nat
      BY SMT, <1>1, <1>4, <1>6, <2>1
    <3>2. CASE cut.right = size
      <4>1. span.end * size <= c * size
        BY SMT, <1>1, <2>1
      <4>2. cut.right * c = c * size
        BY SMT, <1>1, <2>1, <3>2
      <4> QED BY SMT, <1>1, <2>1, <3>1, <4>1, <4>2
    <3>3. CASE (draft.x + draft.w) * size <= cut.right * 1000000
      <4>1. ((draft.x + draft.w) * size) * c <= (cut.right * 1000000) * c
        <5>1. (draft.x + draft.w) * size \in Int /\ cut.right * 1000000 \in Int /\ c \in Nat
          BY SMT, <1>1, <1>4, <1>6, <2>1, <2>2
        <5> QED BY SMT, <3>3, <5>1, TimesKeeps
      <4>2. (1000000 * span.end) * size <= (c * (draft.x + draft.w) + 1100 * c) * size
        <5>1. 1000000 * span.end \in Int /\ c * (draft.x + draft.w) + 1100 * c \in Int /\ size \in Nat
          BY SMT, <1>1, <2>1, <2>2
        <5> QED BY SMT, <2>3, <5>1, TimesKeeps
      <4>3. (c * (draft.x + draft.w) + 1100 * c) * size = ((draft.x + draft.w) * size) * c + 1100 * (size * c)
        BY SMT, <1>1, <2>1, <2>2
      <4>4. /\ (1000000 * span.end) * size = 1000000 * (span.end * size)
            /\ (cut.right * 1000000) * c = 1000000 * (cut.right * c)
            /\ ((draft.x + draft.w) * size) * c \in Int
        <5>1. cut.right \in Int /\ c \in Int /\ span.end \in Int /\ size \in Int
          BY SMT, <1>1, <1>4, <1>6, <2>1
        <5> QED BY SMT, <2>2, <5>1, TimesMillion
      <4> QED BY SMT, <3>1, <4>1, <4>2, <4>3, <4>4
    <3> QED BY SMT, <1>4, <1>6, <3>2, <3>3
  <2> QED BY SMT, <2>4, <2>5 DEF c
<1>7. Boxes(b)!RegionNotCut
  BY SMT, <1>6 DEF Boxes!RegionNotCut
<1> QED BY <1>2, <1>3, <1>5, <1>7 DEF BoxesFit

(* For every number of cells and pixels along a side and every box typed:    *)
(* what the database accepts is large enough for the worker, is cropped      *)
(* whole, and a proposal confirmed as it was seeded still holds its region.  *)
(*             [propose_parts, valid_part_box, toDraft, toBox, crop]         *)
THEOREM AnyBoxFits == ASSUME NEW b, BoxBounds(b) PROVE Boxes(b)!Spec => []BoxesFit(b)
<1>1. Boxes(b)!Init => BoxInv(b)
  BY BoxStarts
<1>2. BoxInv(b) /\ [Boxes(b)!Next]_(Boxes(b)!vars) => BoxInv(b)'
  <2>1. ASSUME BoxInv(b), UNCHANGED Boxes(b)!vars PROVE BoxInv(b)'
    <3>1. UNCHANGED boxVars
      BY <2>1 DEF Boxes!vars, boxVars
    <3> QED BY <2>1, <3>1, BoxRests
  <2>2. ASSUME BoxInv(b), Boxes(b)!Next PROVE BoxInv(b)'
    BY <2>2, ProposeKeeps, SeedKeeps, TypeBoxKeeps, ChecksKeep, CropKeeps DEF Boxes!Next
  <2> QED BY <2>1, <2>2
<1>3. BoxInv(b) => BoxesFit(b)
  BY BoxGives
<1> QED BY <1>1, <1>2, <1>3, PTL DEF Boxes!Spec

LEMMA SideBounded == BoxBounds(Side)
<1>1. /\ Side.grids = {45} /\ Side.starts = 0..127 /\ Side.scales = {1, 16}
      /\ Side.typed = {0, 15000, 333300, 333400, 666600, 666700, 985000, 1000000}
  BY SMT DEF Side, TypedBoxes
<1>2. \A cells \in {45}, scale \in {1, 16} : cells * scale \in 1..2048
  BY SMT
<1>3. \A x \in {0, 15000, 333300, 333400, 666600, 666700, 985000, 1000000} : x \in Nat /\ x <= 1000000
  BY SMT
<1>4. {45} \subseteq 1..128 /\ 0..127 \subseteq Nat /\ {1, 16} \subseteq Nat
  BY SMT
<1> QED BY SMT, <1>1, <1>2, <1>3, <1>4 DEF BoxBounds

-----------------------------------------------------------------------------
(* All parts: what is repeated is of one part, and rests in the others.      *)
RepeatsInv ==
  /\ IF part = "two photos" THEN DupInv(TwoPhotos) ELSE DupInv(Again)
  /\ IF part = "asked" THEN NearInv(Asked) ELSE NearInv(Resolved)
AnswersHold ==
  /\ IF part = "two photos" THEN Holds(TwoPhotos) ELSE Holds(Again)
  /\ IF part = "asked" THEN Near(Asked)!Stands ELSE Near(Resolved)!Stands

LEMMA RepeatBounds ==
  DupBounds(Again) /\ DupBounds(TwoPhotos) /\ NearBounds(Asked) /\ NearBounds(Resolved)
<1>1. e \notin {p1, p2} /\ Nobody \notin {p1, p2} /\ Nobody # e
  BY PhotosAssumption DEF PhotosAssumption
<1>2. DupBounds(Again)
  BY <1>1 DEF DupBounds, Again
<1>3. DupBounds(TwoPhotos)
  BY <1>1 DEF DupBounds, TwoPhotos
<1>4. NearBounds(Asked) /\ NearBounds(Resolved)
  BY DEF NearBounds, Asked, Resolved
<1> QED BY <1>2, <1>3, <1>4

LEMMA RepeatsMove ==
  ASSUME RepeatsInv, [PhotosNext]_allVars PROVE RepeatsInv' /\ AnswersHold
<1>1. part' = part
  BY DEF PhotosNext, allVars
<1>2. \/ Repeat(Again)!Next /\ part = "again"
      \/ Repeat(TwoPhotos)!Next /\ part = "two photos"
      \/ UNCHANGED againVars
  BY DEF PhotosNext, allVars
<1>3. \/ Near(Asked)!Next /\ part = "asked"
      \/ Near(Resolved)!Next /\ part = "answered"
      \/ UNCHANGED nearVars
  BY DEF PhotosNext, allVars
<1>4. IF part = "two photos" THEN DupInv(TwoPhotos)' /\ Holds(TwoPhotos) ELSE DupInv(Again)' /\ Holds(Again)
  BY <1>2, RepeatBounds, DupNext, DupRests DEF RepeatsInv
<1>5. IF part = "asked"
      THEN NearInv(Asked)' /\ Near(Asked)!Stands
      ELSE NearInv(Resolved)' /\ Near(Resolved)!Stands
  BY <1>3, RepeatBounds, NearNext, NearRests DEF RepeatsInv
<1> QED BY <1>1, <1>4, <1>5 DEF RepeatsInv, AnswersHold

LEMMA RepeatsStart == ASSUME PhotosInit PROVE RepeatsInv
BY RepeatBounds, DupStarts, NearStarts DEF PhotosInit, RepeatsInv

(* The inductive invariant of repeated photos and look-alikes: what a        *)
(* transaction read still stands when it commits, of one photo one at a      *)
(* time, and a page's keys are of its decision.                              *)
(*                          [svc_complete_validation, svc_resolve_duplicate] *)
THEOREM RepeatsInvariance == PhotosSpec => []RepeatsInv
<1>1. RepeatsInv /\ [PhotosNext]_allVars => RepeatsInv'
  BY RepeatsMove
<1> QED BY RepeatsStart, <1>1, PTL DEF PhotosSpec

(* No repeated photo or label is lost or misplaced, a resent answer is not   *)
(* refused, and a look-alike is asked about once, as the newer of two pieces *)
(* of different photos.                                                      *)
(*      [svc_complete_validation, svc_resolve_duplicate, flag_near_duplicate] *)
THEOREM RepeatsStayAccounted == PhotosSpec => []RepeatsAccountedFor
<1>1. RepeatsInv => RepeatsAccountedFor
  <2>1. \A d : DupInv(d) => PhotosKept(d)
    BY DupTypeOK DEF PhotosKept, DupInv
  <2>2. \A n : NearInv(n) => NewerAsked(n)
    BY NearTypeOK DEF NewerAsked, NearInv
  <2> QED BY <2>1, <2>2 DEF RepeatsInv, RepeatsAccountedFor
<1> QED BY <1>1, RepeatsInvariance, PTL

(* A member's answer stands whatever is sent, resent or deleted after it,    *)
(* and a label waits for it.                                                 *)
(*          [svc_resolve_duplicate, svc_complete_validation, svc_delete_item] *)
THEOREM AnswersAlwaysStand == PhotosSpec => AnswersStand
<1>1. RepeatsInv /\ [PhotosNext]_allVars =>
        [/\ part = "again" => Repeat(Again)!Stands /\ Repeat(Again)!LabelWaits
         /\ part = "two photos" => Repeat(TwoPhotos)!Stands /\ Repeat(TwoPhotos)!LabelWaits
         /\ part = "asked" => Near(Asked)!Stands
         /\ part = "answered" => Near(Resolved)!Stands]_allVars
  BY RepeatsMove DEF AnswersHold, Holds
<1> QED BY <1>1, RepeatsInvariance, PTL DEF PhotosSpec, AnswersStand

-----------------------------------------------------------------------------
(* Photos of several pieces (GroupedPhotos).                                 *)
USE GroupedPhotosAssumption DEF GroupedPhotosAssumption

(* What a request asks for, and the window of a photo nobody confirmed.      *)
Asks == \A r \in net : r.body.mode # "none" /\ r.body.parts # {}
Untouched == ~Confirmed => source.expires = Window /\ entry.parts = {}

(* A key is one page's; a page that keeps to one choice has one key, and a   *)
(* receipt of that key is of that choice.                                    *)
KeysOfOnePage ==
  /\ \A t \in Tabs : page[t].keys \subseteq 1..submits
  /\ \A t, u \in Tabs : t # u => page[t].keys \cap page[u].keys = {}
KeptChoice(t) ==
  /\ page[t].keys \subseteq {page[t].key}
  /\ \A k \in page[t].keys : receipt[k] \in {None, page[t].body}
  /\ \A r \in net : r.tab = t => r.body = page[t].body
KeysInv ==
  /\ KeysOfOnePage
  /\ \A r \in net : r.key \in page[r.tab].keys
  /\ \A k \in Keys : receipt[k] # None => Confirmed /\ \E t \in Tabs : k \in page[t].keys
  /\ \A t \in Tabs :
       /\ IF page[t].key = 0 THEN page[t].keys = {} ELSE page[t].key \in page[t].keys
       /\ ~page[t].changed => KeptChoice(t)
       /\ page[t].told = "ALREADY_CONFIRMED" => Confirmed

PartsInv == OneConfirmation /\ DeletedStayEmpty /\ NotKeptWithoutNeed

GroupInv == TypeOK /\ Asks /\ Untouched /\ PartsInv /\ KeysInv /\ AddedIsNotRefused

-----------------------------------------------------------------------------
(* The start.                                                                *)
LEMMA NoneIsBody == None \in Bodies /\ \A b \in Bodies : b.mode # "none" => b # None
BY DEF None, Bodies

LEMMA InitGroup == Init => GroupInv
<1> SUFFICES ASSUME Init PROVE GroupInv
  OBVIOUS
<1>1. TypeOK
  BY NoneIsBody DEF Init, TypeOK, Horizon, Slots, None
<1>2. Asks /\ Untouched /\ KeysInv /\ AddedIsNotRefused
  BY DEF Init, Asks, Untouched, Confirmed, KeysInv, KeysOfOnePage, KeptChoice, AddedIsNotRefused
<1>3. PartsInv
  BY DEF Init, PartsInv, OneConfirmation, DeletedStayEmpty, NotKeptWithoutNeed, Confirmed
<1> QED BY <1>1, <1>2, <1>3 DEF GroupInv

-----------------------------------------------------------------------------
(* Steps that send and confirm nothing: the keys of the pages rest, and a    *)
(* page is told that the pieces were added only if no key of its choice was. *)
Unanswered(t) == ~page[t].changed => \A k \in page[t].keys : receipt[k] = None
PageRests(t) ==
  /\ page'[t].key = page[t].key /\ page'[t].keys = page[t].keys
  /\ page'[t].body = page[t].body /\ page'[t].changed = page[t].changed
  /\ page'[t].told = "ALREADY_CONFIRMED" =>
       page[t].told = "ALREADY_CONFIRMED" \/ (Confirmed /\ Unanswered(t))

LEMMA RestKeepsKeys ==
  ASSUME GroupInv, \A t \in Tabs : PageRests(t), DOMAIN page' = Tabs,
         net' \subseteq net, submits' = submits, receipt' = receipt, Confirmed => Confirmed'
  PROVE  Asks' /\ KeysInv' /\ AddedIsNotRefused'
<1>1. Asks'
  BY DEF GroupInv, Asks
<1>2. KeysOfOnePage'
  BY DEF GroupInv, KeysInv, KeysOfOnePage, PageRests
<1>3. \A t \in Tabs : ~page'[t].changed => KeptChoice(t)'
  BY DEF GroupInv, KeysInv, KeptChoice, PageRests
<1>4. KeysInv'
  <2>1. net \subseteq [tab : Tabs, key : Keys, body : Bodies, serial : Keys]
    BY DEF GroupInv, TypeOK
  <2>2. \A r \in net' : r.key \in page'[r.tab].keys
    BY <2>1 DEF GroupInv, KeysInv, PageRests
  <2>3. \A k \in Keys : receipt'[k] # None => Confirmed' /\ \E t \in Tabs : k \in page'[t].keys
    BY DEF GroupInv, KeysInv, PageRests
  <2>4. \A t \in Tabs :
          /\ IF page'[t].key = 0 THEN page'[t].keys = {} ELSE page'[t].key \in page'[t].keys
          /\ page'[t].told = "ALREADY_CONFIRMED" => Confirmed'
    BY DEF GroupInv, KeysInv, PageRests
  <2> QED BY <1>2, <1>3, <2>2, <2>3, <2>4 DEF KeysInv
<1>5. AddedIsNotRefused'
  <2>1. DOMAIN page = Tabs
    BY DEF GroupInv, TypeOK
  <2> QED BY <2>1 DEF GroupInv, AddedIsNotRefused, PageRests, Unanswered
<1> QED BY <1>1, <1>4, <1>5

(* Steps of the page alone, which change no key.                             *)
Pages ==
  [open : BOOLEAN, waiting : BOOLEAN, mode : {"none", "keep_one", "split"},
   drafts : SUBSET Regions, key : 0..MaxSubmits, body : Bodies, keys : SUBSET Keys,
   changed : BOOLEAN, pending : 0..MaxSubmits,
   told : {"none", "added", "unreachable"} \cup Refusals]

LEMMA PageAlone ==
  ASSUME GroupInv, NEW t \in Tabs, NEW p \in Pages, SetPage(t, p), UNCHANGED <<Server, submits>>,
         p.key = page[t].key, p.keys = page[t].keys, p.body = page[t].body,
         p.changed = page[t].changed, p.told \in {page[t].told, "unreachable"},
         net' \subseteq net, faults' \in 0..MaxFaults
  PROVE  GroupInv'
<1>1. page \in [Tabs -> Pages] /\ page' = [page EXCEPT ![t] = p]
  BY DEF GroupInv, TypeOK, Pages, SetPage
<1>2. page' \in [Tabs -> Pages] /\ \A u \in Tabs : PageRests(u)
  BY <1>1 DEF PageRests
<1>3. TypeOK'
  BY <1>2 DEF GroupInv, TypeOK, Pages, Server
<1>4. Untouched' /\ PartsInv'
  BY DEF GroupInv, Untouched, PartsInv, OneConfirmation, DeletedStayEmpty, NotKeptWithoutNeed, Confirmed,
         Surviving, Server
<1>5. Asks' /\ KeysInv' /\ AddedIsNotRefused'
  BY <1>2, RestKeepsKeys DEF Server, Confirmed
<1> QED BY <1>3, <1>4, <1>5 DEF GroupInv

LEMMA FormKeepsGroup ==
  ASSUME GroupInv, NEW t \in Tabs,
         \/ \E m \in {"keep_one", "split"} : Choose(t, m)
         \/ \E r \in Regions : EditDrafts(t, r)
         \/ GiveUp(t) \/ Leave(t) \/ Refetch(t)
  PROVE  GroupInv'
<1> USE DEF Pages
<1>1. page[t] \in Pages /\ faults \in 0..MaxFaults
  BY DEF GroupInv, TypeOK
<1>2. ASSUME NEW m \in {"keep_one", "split"}, Choose(t, m) PROVE GroupInv'
  BY <1>1, <1>2, PageAlone DEF Choose
<1>3. ASSUME NEW r \in Regions, EditDrafts(t, r) PROVE GroupInv'
  <2>1. PICK d \in SUBSET Regions : d = IF r \in page[t].drafts THEN page[t].drafts \ {r} ELSE page[t].drafts \cup {r}
    BY <1>1
  <2>2. SetPage(t, [page[t] EXCEPT !.drafts = d])
    BY <1>3, <2>1 DEF EditDrafts
  <2> QED BY <1>1, <1>3, <2>2, PageAlone DEF EditDrafts
<1>4. ASSUME GiveUp(t) PROVE GroupInv'
  <2>1. faults + 1 \in 0..MaxFaults
    BY <1>1, <1>4 DEF GiveUp
  <2>2. PICK p : p = [page[t] EXCEPT !.pending = 0, !.told = "unreachable"]
    OBVIOUS
  <2>3. 0 \in 0..MaxSubmits
    OBVIOUS
  <2>4. p \in Pages
    BY <1>1, <2>2, <2>3
  <2>5. /\ p.key = page[t].key /\ p.keys = page[t].keys /\ p.body = page[t].body
        /\ p.changed = page[t].changed /\ p.told = "unreachable"
    BY <1>1, <2>2
  <2>6. SetPage(t, p) /\ net' \subseteq net /\ UNCHANGED <<Server, submits>> /\ faults' = faults + 1
    BY <1>4, <2>2 DEF GiveUp
  <2> HIDE DEF Pages
  <2> QED BY <2>1, <2>4, <2>5, <2>6, PageAlone
<1>5. ASSUME Leave(t) PROVE GroupInv'
  BY <1>1, <1>5, PageAlone DEF Leave
<1>6. ASSUME Refetch(t) PROVE GroupInv'
  <2>1. PICK w \in BOOLEAN : w = ~page[t].waiting
    BY <1>1
  <2>2. SetPage(t, [page[t] EXCEPT !.waiting = w])
    BY <1>6, <2>1 DEF Refetch
  <2> QED BY <1>1, <1>6, <2>2, PageAlone DEF Refetch
<1> QED BY <1>2, <1>3, <1>4, <1>5, <1>6

-----------------------------------------------------------------------------
(* A press of the button: another choice takes a fresh key, which nobody     *)
(* has, and a resend the key of its choice.                                  *)
LEMMA SubmitKeepsGroup ==
  ASSUME GroupInv, NEW t \in Tabs, Submit(t)
  PROVE  GroupInv'
<1>1. PICK body : body = BodyOf(t)
  OBVIOUS
<1>2. PICK key : key = KeyFor(t, body)
  OBVIOUS
<1>3. PICK p : p = [page[t] EXCEPT !.key = key, !.body = body, !.pending = submits + 1, !.told = "none",
                                   !.keys = page[t].keys \cup {key},
                                   !.changed = page[t].changed \/ (page[t].key # 0 /\ page[t].body # body)]
  OBVIOUS
<1>4. PICK q : q = [tab |-> t, key |-> key, body |-> body, serial |-> submits + 1]
  OBVIOUS
<1>5. /\ page[t].mode # "none" /\ body.parts # {} /\ submits < MaxSubmits /\ submits' = submits + 1
      /\ net' = net \cup {q} /\ SetPage(t, p) /\ UNCHANGED <<Server, faults>>
  BY <1>1, <1>2, <1>3, <1>4 DEF Submit
<1>6. page \in [Tabs -> Pages] /\ page' = [page EXCEPT ![t] = p] /\ page[t] \in Pages /\ submits \in 0..MaxSubmits
  BY <1>5 DEF GroupInv, TypeOK, Pages, SetPage
<1>7. body \in Bodies /\ body.mode # "none" /\ body.parts # {}
  <2>1. {Set} \in SUBSET Slots /\ \A d \in SUBSET Regions : {t} \X d \in SUBSET Slots
    BY DEF Slots
  <2> QED BY <1>1, <1>5, <1>6, <2>1 DEF BodyOf, Bodies, Pages
<1>8. key \in 1..(submits + 1) /\ key \in Keys
  BY <1>2, <1>5, <1>6 DEF KeyFor, Keys, GroupInv, KeysInv, KeysOfOnePage
<1>9. submits + 1 \in Keys /\ submits' \in 0..MaxSubmits
  BY <1>5, <1>6 DEF Keys
<1>10. p \in Pages
  <2>1. page[t].keys \cup {key} \in SUBSET Keys
    BY <1>6, <1>8 DEF Pages
  <2>2. PICK c \in BOOLEAN : c = (page[t].changed \/ (page[t].key # 0 /\ page[t].body # body))
    OBVIOUS
  <2>3. p = [page[t] EXCEPT !.key = key, !.body = body, !.pending = submits + 1, !.told = "none",
                            !.keys = page[t].keys \cup {key}, !.changed = c]
    BY <1>3, <2>2
  <2>4. key \in 0..MaxSubmits /\ submits + 1 \in 0..MaxSubmits
    BY <1>8, <1>9 DEF Keys
  <2> QED BY <1>6, <1>7, <2>1, <2>3, <2>4 DEF Pages
<1>11. /\ page'[t] = p /\ p.key = key /\ p.body = body /\ p.told = "none" /\ p.keys = page[t].keys \cup {key}
       /\ ~p.changed => ~page[t].changed /\ (page[t].key # 0 => page[t].body = body)
       /\ \A u \in Tabs \ {t} : page'[u] = page[u]
  BY <1>3, <1>6 DEF Pages
<1>12. page' \in [Tabs -> Pages]
  BY <1>6, <1>10
<1>13. TypeOK'
  <2>1. q \in [tab : Tabs, key : Keys, body : Bodies, serial : Keys]
    BY <1>4, <1>7, <1>8, <1>9
  <2>2. net' \subseteq [tab : Tabs, key : Keys, body : Bodies, serial : Keys]
    BY <1>5, <2>1 DEF GroupInv, TypeOK
  <2> QED BY <1>5, <1>9, <1>12, <2>2 DEF GroupInv, TypeOK, Pages, Server
<1>14. Asks' /\ Untouched' /\ PartsInv'
  <2>1. Asks'
    BY <1>4, <1>5, <1>7 DEF GroupInv, Asks
  <2> QED BY <1>5, <2>1 DEF GroupInv, Untouched, PartsInv, OneConfirmation, DeletedStayEmpty,
             NotKeptWithoutNeed, Confirmed, Surviving, Server
<1>15. /\ key = submits + 1 \/ (key = page[t].key /\ page[t].key # 0 /\ page[t].body = body)
       /\ page[t].key # 0 => page[t].key \in page[t].keys
       /\ page[t].key = 0 => page[t].keys = {}
  BY <1>2 DEF KeyFor, GroupInv, KeysInv
<1>16. \A u \in Tabs : page[u].keys \subseteq 1..submits
  BY DEF GroupInv, KeysInv, KeysOfOnePage
<1>17. KeysOfOnePage'
  <2>1. \A u \in Tabs : page'[u].keys \subseteq 1..submits'
    BY <1>5, <1>6, <1>8, <1>11, <1>16
  <2>2. \A u \in Tabs \ {t} : key \notin page[u].keys
    <3>1. CASE key = submits + 1
      BY <1>6, <1>16, <3>1
    <3>2. CASE key # submits + 1
      BY <1>15, <3>2 DEF GroupInv, KeysInv, KeysOfOnePage
    <3> QED BY <3>1, <3>2
  <2>3. \A u, w \in Tabs : u # w => page'[u].keys \cap page'[w].keys = {}
    BY <1>11, <2>2 DEF GroupInv, KeysInv, KeysOfOnePage
  <2> QED BY <2>1, <2>3 DEF KeysOfOnePage
<1>18. \A u \in Tabs : ~page'[u].changed => KeptChoice(u)'
  <2> SUFFICES ASSUME NEW u \in Tabs, ~page'[u].changed PROVE KeptChoice(u)'
    OBVIOUS
  <2>1. CASE u # t
    BY <1>4, <1>5, <1>11, <2>1 DEF GroupInv, KeysInv, KeptChoice, Server
  <2>2. CASE u = t
    <3>1. ~page[t].changed /\ KeptChoice(t) /\ (page[t].key # 0 => page[t].body = body)
      BY <1>11, <2>2 DEF GroupInv, KeysInv
    <3>2. CASE page[t].key # 0
      <4>1. key = page[t].key
        BY <1>2, <3>1, <3>2 DEF KeyFor
      <4> QED BY <1>4, <1>5, <1>11, <1>15, <2>2, <3>1, <3>2, <4>1 DEF KeptChoice, Server
    <3>3. CASE page[t].key = 0
      <4>1. key = submits + 1 /\ page[t].keys = {}
        BY <1>15, <3>3
      <4>2. receipt[key] = None
        BY <1>6, <1>8, <1>16, <4>1 DEF GroupInv, KeysInv
      <4>3. \A r \in net : r.tab # t
        BY <4>1 DEF GroupInv, KeysInv
      <4> QED BY <1>4, <1>5, <1>11, <2>2, <4>1, <4>2, <4>3 DEF KeptChoice, Server
    <3> QED BY <3>2, <3>3
  <2> QED BY <2>1, <2>2
<1>19. KeysInv'
  <2>1. \A r \in net' : r.key \in page'[r.tab].keys
    <3>1. \A r \in net : r.tab \in Tabs /\ r.key \in page[r.tab].keys
      BY DEF GroupInv, TypeOK, KeysInv
    <3> QED BY <1>4, <1>5, <1>11, <3>1
  <2>2. \A k \in Keys : receipt'[k] # None => Confirmed' /\ \E u \in Tabs : k \in page'[u].keys
    BY <1>5, <1>11 DEF GroupInv, KeysInv, Server, Confirmed
  <2>3. \A u \in Tabs :
          /\ IF page'[u].key = 0 THEN page'[u].keys = {} ELSE page'[u].key \in page'[u].keys
          /\ page'[u].told = "ALREADY_CONFIRMED" => Confirmed'
    BY <1>5, <1>8, <1>11 DEF GroupInv, KeysInv, Server, Confirmed
  <2> QED BY <1>17, <1>18, <2>1, <2>2, <2>3 DEF KeysInv
<1>20. AddedIsNotRefused'
  <2>1. DOMAIN page = Tabs /\ DOMAIN page' = Tabs /\ receipt' = receipt
    BY <1>5, <1>6, <1>12 DEF Server
  <2> QED BY <1>11, <2>1 DEF GroupInv, AddedIsNotRefused
<1> QED BY <1>13, <1>14, <1>19, <1>20 DEF GroupInv

-----------------------------------------------------------------------------
(* svc_confirm_parts.                                                        *)
LEMMA AnswerRests ==
  ASSUME GroupInv, NEW r \in net, NEW told \in {"added", "unreachable"} \cup Refusals,
         told = "ALREADY_CONFIRMED" => Confirmed /\ Unanswered(r.tab),
         page' = Answered(r, told)
  PROVE  page' \in [Tabs -> Pages] /\ \A t \in Tabs : PageRests(t)
<1>1. page \in [Tabs -> Pages] /\ r.tab \in Tabs
  BY DEF GroupInv, TypeOK, Pages
<1>2. CASE page' = page
  BY <1>1, <1>2 DEF PageRests
<1>3. CASE page' # page
  <2>1. PICK o \in BOOLEAN : o = IF told = "added" THEN FALSE ELSE page[r.tab].open
    BY <1>1 DEF Pages
  <2>2. PICK p : p = [page[r.tab] EXCEPT !.pending = 0, !.told = told, !.open = o]
    OBVIOUS
  <2>3. 0 \in 0..MaxSubmits /\ told \in {"none", "added", "unreachable"} \cup Refusals
    OBVIOUS
  <2>4. p \in Pages
    <3>1. PICK x \in Pages : x = page[r.tab]
      BY <1>1
    <3>2. p = [x EXCEPT !.pending = 0, !.told = told, !.open = o]
      BY <2>2, <3>1
    <3> QED BY <2>3, <3>1, <3>2 DEF Pages
  <2>5. /\ p.key = page[r.tab].key /\ p.keys = page[r.tab].keys /\ p.body = page[r.tab].body
        /\ p.changed = page[r.tab].changed /\ p.told = told
    BY <1>1, <2>2 DEF Pages
  <2>6. page' = [page EXCEPT ![r.tab] = p]
    BY <1>1, <1>3, <2>1, <2>2 DEF Answered
  <2> QED BY <1>1, <2>4, <2>5, <2>6 DEF PageRests
<1> QED BY <1>2, <1>3

(* A refused request whose choice its page kept is not one that was carried  *)
(* out under its key.                                                        *)
LEMMA RefusedIsUnanswered ==
  ASSUME GroupInv, NEW r \in net, receipt[r.key] # r.body
  PROVE  Unanswered(r.tab)
<1>1. /\ r.tab \in Tabs /\ r.key \in page[r.tab].keys
      /\ ~page[r.tab].changed => KeptChoice(r.tab)
  BY DEF GroupInv, TypeOK, KeysInv
<1> QED BY <1>1 DEF Unanswered, KeptChoice

LEMMA RefusalTypes ==
  ASSUME NEW b
  PROVE  /\ RefusalOf(b) \in {"none"} \cup Refusals
         /\ RefusalOf(b) = "ALREADY_CONFIRMED" => Confirmed
         /\ RefusalOf(b) = "none" => ~Confirmed /\ ~(source.expires <= now)
BY DEF RefusalOf, Refusals

LEMMA CreateTyped ==
  ASSUME GroupInv, NEW b \in Bodies, ~Confirmed, ~(source.expires <= now), Create(b)
  PROVE  /\ entry' \in [state : {"ready", "canceled"}, mode : {"none", "keep_one", "split"}, parts : SUBSET Slots]
         /\ source' \in [state : {"ready", "deletion_pending"}, expires : 0..Horizon, stored : BOOLEAN]
         /\ piece' \in [Slots -> [life : {"none", "active", "deleted"}, original : BOOLEAN]]
         /\ crop' \in [Slots -> [state : {"none", "queued", "running", "succeeded", "failed", "canceled"},
                                 gen : Nat, attempts : 0..MaxAttempts, manual : 0..MaxRetries]]
<1> DEFINE CropJobs == [state : {"none", "queued", "running", "succeeded", "failed", "canceled"},
                     gen : Nat, attempts : 0..MaxAttempts, manual : 0..MaxRetries]
<1>1. /\ entry \in [state : {"ready", "canceled"}, mode : {"none", "keep_one", "split"}, parts : SUBSET Slots]
      /\ source \in [state : {"ready", "deletion_pending"}, expires : 0..Horizon, stored : BOOLEAN]
      /\ piece \in [Slots -> [life : {"none", "active", "deleted"}, original : BOOLEAN]]
      /\ crop \in [Slots -> CropJobs] /\ now \in 0..Horizon /\ source.expires = Window
  BY DEF GroupInv, TypeOK, Untouched
<1>2. PICK x \in 0..Horizon : x = Extended
  <2>1. now + Window \in 0..Horizon
    BY <1>1 DEF Horizon
  <2> QED BY <1>1, <2>1 DEF Extended, LaterOf, Horizon
<1>3. source' = [source EXCEPT !.expires = x]
  BY <1>2 DEF Create
<1>4. entry' = [entry EXCEPT !.mode = b.mode, !.parts = b.parts] /\ b.mode \in {"none", "keep_one", "split"}
      /\ b.parts \in SUBSET Slots
  BY DEF Create, Bodies
<1>5. \A s \in Slots : [crop[s] EXCEPT !.state = "queued"] \in CropJobs
  BY <1>1
<1>6. crop' \in [Slots -> CropJobs]
  <2> HIDE DEF CropJobs
  <2> QED BY <1>1, <1>5 DEF Create
<1>7. piece' \in [Slots -> [life : {"none", "active", "deleted"}, original : BOOLEAN]]
  BY <1>1 DEF Create
<1> QED BY <1>1, <1>3, <1>4, <1>6, <1>7

LEMMA CreateKeepsParts ==
  ASSUME GroupInv, NEW b \in Bodies, b.mode # "none", b.parts # {}, ~Confirmed,
         ~(source.expires <= now), Create(b)
  PROVE  Confirmed' /\ Untouched' /\ PartsInv'
<1>1. /\ piece \in [Slots -> [life : {"none", "active", "deleted"}, original : BOOLEAN]]
      /\ entry \in [state : {"ready", "canceled"}, mode : {"none", "keep_one", "split"}, parts : SUBSET Slots]
      /\ b.parts \subseteq Slots
  BY DEF GroupInv, TypeOK, Bodies
<1>2. \A s \in Slots : piece[s].life = "none"
  BY <1>1 DEF GroupInv, Untouched, PartsInv, OneConfirmation
<1>3. entry'.mode = b.mode /\ entry'.parts = b.parts
  BY <1>1 DEF Create
<1>4. /\ DOMAIN piece' = Slots
      /\ \A s \in b.parts : piece'[s] = [life |-> "active", original |-> FALSE]
      /\ \A s \in Slots \ b.parts : piece'[s].life = "none"
  BY <1>1, <1>2 DEF Create
<1>5. OneConfirmation' /\ DeletedStayEmpty'
  BY <1>1, <1>3, <1>4 DEF OneConfirmation, DeletedStayEmpty
<1>6. NotKeptWithoutNeed'
  <2>1. PICK s : s \in b.parts
    OBVIOUS
  <2>2. s \in Surviving(piece') /\ ~piece'[s].original
    BY <1>1, <1>4, <2>1 DEF Surviving
  <2> QED BY <2>2 DEF NotKeptWithoutNeed
<1> QED BY <1>3, <1>5, <1>6 DEF PartsInv, Untouched, Confirmed

(* The receipt is of a key of the page that asked, and of nobody else's.     *)
LEMMA CreateKeepsKeys ==
  ASSUME GroupInv, NEW r \in net, ~Confirmed, Confirmed', net' \subseteq net, submits' = submits,
         receipt' = [receipt EXCEPT ![r.key] = r.body],
         DOMAIN page' = Tabs, \A t \in Tabs : PageRests(t)
  PROVE  Asks' /\ KeysInv' /\ AddedIsNotRefused'
<1>1. /\ r.tab \in Tabs /\ r.key \in Keys /\ r.key \in page[r.tab].keys
      /\ receipt \in [Keys -> Bodies]
      /\ \A q \in net : q.tab \in Tabs
  BY DEF GroupInv, TypeOK, KeysInv
<1>2. /\ receipt'[r.key] = r.body
      /\ \A k \in Keys \ {r.key} : receipt'[k] = receipt[k]
  BY <1>1
<1>3. Asks' /\ KeysOfOnePage'
  BY DEF GroupInv, Asks, KeysInv, KeysOfOnePage, PageRests
<1>4. \A t \in Tabs : page'[t].told # "ALREADY_CONFIRMED"
  BY DEF GroupInv, KeysInv, PageRests
<1>5. \A t \in Tabs : ~page'[t].changed => KeptChoice(t)'
  <2> SUFFICES ASSUME NEW t \in Tabs, ~page'[t].changed PROVE KeptChoice(t)'
    OBVIOUS
  <2>1. KeptChoice(t) /\ PageRests(t) /\ page[t].keys \subseteq Keys
    BY DEF GroupInv, TypeOK, KeysInv, PageRests
  <2>2. CASE t = r.tab
    BY <1>2, <2>1, <2>2 DEF KeptChoice, PageRests
  <2>3. CASE t # r.tab
    <3>1. r.key \notin page[t].keys
      BY <1>1, <2>3 DEF GroupInv, KeysInv, KeysOfOnePage
    <3> QED BY <1>2, <2>1, <3>1 DEF KeptChoice, PageRests
  <2> QED BY <2>2, <2>3
<1>6. \A q \in net' : q.key \in page'[q.tab].keys
  BY <1>1 DEF GroupInv, KeysInv, PageRests
<1>7. \A k \in Keys : receipt'[k] # None => Confirmed' /\ \E t \in Tabs : k \in page'[t].keys
  BY <1>1, <1>2 DEF GroupInv, KeysInv, PageRests
<1>8. \A t \in Tabs :
        IF page'[t].key = 0 THEN page'[t].keys = {} ELSE page'[t].key \in page'[t].keys
  BY DEF GroupInv, KeysInv, PageRests
<1>9. KeysInv'
  BY <1>3, <1>4, <1>5, <1>6, <1>7, <1>8 DEF KeysInv
<1> QED BY <1>3, <1>4, <1>9 DEF AddedIsNotRefused

LEMMA ConfirmKeepsGroup ==
  ASSUME GroupInv, NEW r \in net, ConfirmParts(r)
  PROVE  GroupInv'
<1>1. /\ r.body \in Bodies /\ r.body.mode # "none" /\ r.body.parts # {} /\ faults \in 0..MaxFaults
      /\ r.key \in Keys /\ receipt \in [Keys -> Bodies]
  BY DEF GroupInv, TypeOK, Asks
<1>2. PICK refusal : refusal = RefusalOf(r.body)
  OBVIOUS
<1>3. PICK told : told = IF receipt[r.key] = r.body \/ refusal = "none" THEN "added" ELSE refusal
  OBVIOUS
<1>4. told \in {"added", "unreachable"} \cup Refusals
  BY <1>2, <1>3, RefusalTypes
<1>5. told = "ALREADY_CONFIRMED" => Confirmed /\ Unanswered(r.tab)
  <2>1. ASSUME told = "ALREADY_CONFIRMED" PROVE refusal = told /\ receipt[r.key] # r.body
    BY <1>3, <2>1
  <2> QED BY <1>2, <2>1, RefusalTypes, RefusedIsUnanswered
<1>6. net' \subseteq net /\ UNCHANGED <<now, workers, submits>> /\ faults' \in 0..MaxFaults
  BY <1>1 DEF ConfirmParts
<1>7. page' = Answered(r, told) \/ page' = Answered(r, "unreachable")
  BY <1>2, <1>3 DEF ConfirmParts
<1>8. page' \in [Tabs -> Pages] /\ \A t \in Tabs : PageRests(t)
  BY <1>4, <1>5, <1>7, AnswerRests
<1>9. CASE receipt[r.key] = r.body \/ refusal # "none"
  <2>1. UNCHANGED <<entry, source, piece, crop, receipt>>
    BY <1>2, <1>9 DEF ConfirmParts
  <2>2. TypeOK'
    BY <1>6, <1>8, <2>1 DEF GroupInv, TypeOK, Pages
  <2>3. Untouched' /\ PartsInv'
    BY <1>6, <2>1 DEF GroupInv, Untouched, PartsInv, OneConfirmation, DeletedStayEmpty, NotKeptWithoutNeed,
                      Confirmed, Surviving
  <2>4. Asks' /\ KeysInv' /\ AddedIsNotRefused'
    BY <1>6, <1>8, <2>1, RestKeepsKeys DEF Confirmed
  <2> QED BY <2>2, <2>3, <2>4 DEF GroupInv
<1>10. CASE receipt[r.key] # r.body /\ refusal = "none"
  <2>1. Create(r.body) /\ receipt' = [receipt EXCEPT ![r.key] = r.body]
    BY <1>2, <1>10 DEF ConfirmParts
  <2>2. ~Confirmed /\ ~(source.expires <= now)
    BY <1>2, <1>10, RefusalTypes
  <2>3. receipt' \in [Keys -> Bodies]
    BY <1>1, <2>1
  <2>4. Confirmed' /\ Untouched' /\ PartsInv'
    BY <1>1, <2>1, <2>2, CreateKeepsParts
  <2>5. TypeOK'
    BY <1>1, <1>6, <1>8, <2>1, <2>2, <2>3, CreateTyped DEF GroupInv, TypeOK, Pages
  <2>6. Asks' /\ KeysInv' /\ AddedIsNotRefused'
    BY <1>6, <1>8, <2>1, <2>2, <2>4, CreateKeepsKeys
  <2> QED BY <2>4, <2>5, <2>6 DEF GroupInv
<1> QED BY <1>9, <1>10

-----------------------------------------------------------------------------
(* Crops, deletions and expiry: the requests and the pages rest.             *)
LEMMA ServerKeepsKeys ==
  ASSUME GroupInv, UNCHANGED <<receipt, net, page, submits>>, entry'.mode = entry.mode
  PROVE  Asks' /\ KeysInv' /\ AddedIsNotRefused'
<1>1. DOMAIN page' = Tabs /\ \A t \in Tabs : PageRests(t)
  BY DEF GroupInv, TypeOK, PageRests
<1> QED BY <1>1, RestKeepsKeys DEF Confirmed

CropJobs == [state : {"none", "queued", "running", "succeeded", "failed", "canceled"},
          gen : Nat, attempts : 0..MaxAttempts, manual : 0..MaxRetries]
Attempts == [slot : Slots, gen : Nat, read : BOOLEAN]

(* A crop moves, and waits or runs only for a piece that is not deleted.     *)
LEMMA CropAlone ==
  ASSUME GroupInv, NEW s \in Slots, NEW j \in CropJobs, SetCrop(s, j), workers' \subseteq Attempts,
         UNCHANGED <<Idle, source, piece>>,
         j.state \in {"queued", "running"} => piece[s].life # "deleted"
  PROVE  GroupInv'
<1>1. crop \in [Slots -> CropJobs] /\ DOMAIN piece = Slots
  BY DEF GroupInv, TypeOK, CropJobs
<1>2. crop' \in [Slots -> CropJobs] /\ crop'[s] = j /\ \A x \in Slots \ {s} : crop'[x] = crop[x]
  BY <1>1 DEF SetCrop
<1>3. TypeOK'
  BY <1>2 DEF GroupInv, TypeOK, Idle, CropJobs, Attempts
<1>4. Untouched' /\ OneConfirmation' /\ NotKeptWithoutNeed'
  BY DEF GroupInv, Untouched, PartsInv, OneConfirmation, NotKeptWithoutNeed, Confirmed, Surviving, Idle
<1>5. DeletedStayEmpty'
  BY <1>1, <1>2 DEF GroupInv, PartsInv, DeletedStayEmpty
<1>6. Asks' /\ KeysInv' /\ AddedIsNotRefused'
  BY ServerKeepsKeys DEF Idle
<1> QED BY <1>3, <1>4, <1>5, <1>6 DEF GroupInv, PartsInv

LEMMA ClaimKeepsGroup ==
  ASSUME GroupInv, NEW s \in Slots, ClaimCrop(s)
  PROVE  GroupInv'
<1>1. /\ crop[s] \in CropJobs /\ workers \subseteq Attempts /\ piece[s].life # "deleted"
      /\ crop[s].attempts < MaxAttempts /\ UNCHANGED <<Idle, source, piece>>
  BY DEF GroupInv, TypeOK, PartsInv, DeletedStayEmpty, ClaimCrop, CropJobs, Attempts
<1>2. CASE source.state = "ready"
  <2>1. crop[s].gen + 1 \in Nat /\ crop[s].attempts + 1 \in 0..MaxAttempts
    BY <1>1 DEF CropJobs
  <2>2. PICK g \in Nat, a \in 0..MaxAttempts : g = crop[s].gen + 1 /\ a = crop[s].attempts + 1
    BY <2>1
  <2>3. PICK j : j = [crop[s] EXCEPT !.state = "running", !.gen = g, !.attempts = a]
    OBVIOUS
  <2>4. j \in CropJobs
    BY <1>1, <2>3 DEF CropJobs
  <2>5. SetCrop(s, j) /\ workers' = workers \cup {[slot |-> s, gen |-> g, read |-> FALSE]}
    BY <1>2, <2>2, <2>3 DEF ClaimCrop
  <2>6. workers' \subseteq Attempts
    <3>1. [slot |-> s, gen |-> g, read |-> FALSE] \in Attempts
      BY <2>2 DEF Attempts
    <3> QED BY <1>1, <2>5, <3>1
  <2> QED BY <1>1, <2>4, <2>5, <2>6, CropAlone
<1>3. CASE source.state # "ready"
  <2>1. PICK j : j = [crop[s] EXCEPT !.state = "failed"]
    OBVIOUS
  <2>2. j \in CropJobs
    BY <1>1, <2>1 DEF CropJobs
  <2> QED BY <1>1, <1>3, <2>1, <2>2, CropAlone DEF ClaimCrop
<1> QED BY <1>2, <1>3

LEMMA LapseRetryKeepGroup ==
  ASSUME GroupInv, NEW s \in Slots, LapseCrop(s) \/ RetryCrop(s)
  PROVE  GroupInv'
<1>1. crop[s] \in CropJobs /\ workers \subseteq Attempts
  BY DEF GroupInv, TypeOK, CropJobs, Attempts
<1>2. CASE LapseCrop(s)
  <2>1. piece[s].life # "deleted"
    BY <1>2 DEF GroupInv, TypeOK, PartsInv, DeletedStayEmpty, LapseCrop
  <2>2. PICK x \in {"queued", "failed"} : x = AfterLapse(s)
    BY DEF AfterLapse
  <2>3. PICK j : j = [crop[s] EXCEPT !.state = x]
    OBVIOUS
  <2>4. j \in CropJobs
    BY <1>1, <2>3 DEF CropJobs
  <2> QED BY <1>1, <1>2, <2>1, <2>2, <2>3, <2>4, CropAlone DEF LapseCrop
<1>3. CASE RetryCrop(s)
  <2>1. piece[s].life # "deleted" /\ crop[s].manual + 1 \in 0..MaxRetries /\ 0 \in 0..MaxAttempts
    BY <1>1, <1>3 DEF RetryCrop, CropJobs
  <2>2. PICK m \in 0..MaxRetries : m = crop[s].manual + 1
    BY <2>1
  <2>3. PICK j : j = [crop[s] EXCEPT !.state = "queued", !.attempts = 0, !.manual = m]
    OBVIOUS
  <2>4. j \in CropJobs
    BY <1>1, <2>1, <2>3 DEF CropJobs
  <2> QED BY <1>1, <1>3, <2>1, <2>2, <2>3, <2>4, CropAlone DEF RetryCrop
<1> QED BY <1>2, <1>3

LEMMA FetchKeepsGroup ==
  ASSUME GroupInv, NEW w \in workers, Fetch(w)
  PROVE  GroupInv'
<1>1. w \in Attempts /\ workers \subseteq Attempts
  BY DEF GroupInv, TypeOK, Attempts
<1>2. [w EXCEPT !.read = TRUE] \in Attempts
  BY <1>1 DEF Attempts
<1>3. TypeOK'
  BY <1>1, <1>2 DEF GroupInv, TypeOK, Fetch, Attempts, Idle
<1>4. Untouched' /\ PartsInv'
  BY DEF GroupInv, Untouched, PartsInv, OneConfirmation, DeletedStayEmpty, NotKeptWithoutNeed, Confirmed,
         Surviving, Fetch, Idle
<1>5. Asks' /\ KeysInv' /\ AddedIsNotRefused'
  BY ServerKeepsKeys DEF Fetch, Idle
<1> QED BY <1>3, <1>4, <1>5 DEF GroupInv

LEMMA RejectKeepsGroup ==
  ASSUME GroupInv, NEW w \in workers, RejectCrop(w)
  PROVE  GroupInv'
<1>1. /\ w.slot \in Slots /\ crop \in [Slots -> CropJobs] /\ workers \subseteq Attempts
      /\ UNCHANGED <<Idle, source, piece>> /\ workers' \subseteq Attempts
  BY DEF GroupInv, TypeOK, CropJobs, Attempts, RejectCrop
<1>2. CASE Leased(w)
  <2>1. PICK j : j = [crop[w.slot] EXCEPT !.state = "failed"]
    OBVIOUS
  <2>2. j \in CropJobs /\ j.state = "failed"
    BY <1>1, <2>1 DEF CropJobs
  <2> QED BY <1>1, <1>2, <2>1, <2>2, CropAlone DEF RejectCrop
<1>3. CASE ~Leased(w)
  <2>1. crop' = crop /\ SetCrop(w.slot, crop[w.slot])
    BY <1>1, <1>3 DEF RejectCrop, SetCrop
  <2>2. crop[w.slot].state \in {"queued", "running"} => piece[w.slot].life # "deleted"
    BY <1>1 DEF GroupInv, TypeOK, PartsInv, DeletedStayEmpty
  <2> QED BY <1>1, <2>1, <2>2, CropAlone
<1> QED BY <1>2, <1>3

(* release_group_source: what it leaves is needed.                           *)
PieceRecords == [life : {"none", "active", "deleted"}, original : BOOLEAN]
Sources == [state : {"ready", "deletion_pending"}, expires : 0..Horizon, stored : BOOLEAN]

LEMMA ReleaseLeavesNeeded ==
  ASSUME GroupInv, NEW s \in Slots, NEW x \in PieceRecords, NEW j \in CropJobs,
         piece' = [piece EXCEPT ![s] = x], SetCrop(s, j), Release(piece'), workers' \subseteq workers,
         UNCHANGED Idle, x.life = "none" <=> piece[s].life = "none",
         x.life = "deleted" => ~x.original /\ j.state \notin {"queued", "running"}
  PROVE  GroupInv'
<1>1. /\ piece \in [Slots -> PieceRecords] /\ crop \in [Slots -> CropJobs] /\ source \in Sources
      /\ workers \subseteq Attempts
  BY DEF GroupInv, TypeOK, PieceRecords, CropJobs, Sources, Attempts
<1>2. piece' \in [Slots -> PieceRecords] /\ crop' \in [Slots -> CropJobs] /\ workers' \subseteq Attempts
  BY <1>1 DEF SetCrop
<1>3. /\ piece'[s] = x /\ \A y \in Slots \ {s} : piece'[y] = piece[y]
      /\ crop'[s] = j /\ \A y \in Slots \ {s} : crop'[y] = crop[y]
  BY <1>1 DEF SetCrop
<1>4. source' \in Sources /\ source'.expires = source.expires
  BY <1>1 DEF Release, DeleteAsset, Sources
<1>5. TypeOK'
  BY <1>2, <1>4 DEF GroupInv, TypeOK, Idle, PieceRecords, CropJobs, Sources, Attempts
<1>6. Untouched' /\ OneConfirmation'
  BY <1>1, <1>2, <1>3, <1>4 DEF GroupInv, Untouched, PartsInv, OneConfirmation, Confirmed, Idle
<1>7. DeletedStayEmpty'
  BY <1>1, <1>2, <1>3 DEF GroupInv, PartsInv, DeletedStayEmpty
<1>8. NotKeptWithoutNeed'
  <2> SUFFICES ASSUME Confirmed', \A y \in Surviving(piece') : piece'[y].original
      PROVE  source'.state # "ready"
    BY DEF NotKeptWithoutNeed, Surviving
  <2>1. Releasable(piece')
    BY DEF Releasable, Confirmed, Idle
  <2> QED BY <1>1, <2>1 DEF Release, DeleteAsset, Sources
<1>9. Asks' /\ KeysInv' /\ AddedIsNotRefused'
  BY ServerKeepsKeys DEF Idle
<1> QED BY <1>5, <1>6, <1>7, <1>8, <1>9 DEF GroupInv, PartsInv

LEMMA CompleteKeepsGroup ==
  ASSUME GroupInv, NEW w \in workers, CompleteCrop(w)
  PROVE  GroupInv'
<1>1. /\ w.slot \in Slots /\ crop \in [Slots -> CropJobs] /\ piece \in [Slots -> PieceRecords]
      /\ workers' \subseteq workers /\ workers \subseteq Attempts /\ UNCHANGED Idle
  BY DEF GroupInv, TypeOK, CropJobs, PieceRecords, Attempts, CompleteCrop
<1>2. CASE Leased(w)
  <2>1. PICK x : x = [piece[w.slot] EXCEPT !.original = TRUE]
    OBVIOUS
  <2>2. x \in PieceRecords /\ x.life = piece[w.slot].life
    BY <1>1, <2>1 DEF PieceRecords
  <2>3. PICK j : j = [crop[w.slot] EXCEPT !.state = "succeeded"]
    OBVIOUS
  <2>4. j \in CropJobs
    BY <1>1, <2>3 DEF CropJobs
  <2>5. x.life # "deleted"
    BY <1>1, <1>2, <2>2 DEF Leased, GroupInv, PartsInv, DeletedStayEmpty
  <2>6. piece' = [piece EXCEPT ![w.slot] = x]
    BY <1>1, <1>2, <2>1 DEF CompleteCrop
  <2>7. Release(piece') /\ SetCrop(w.slot, j)
    BY <1>2, <2>3 DEF CompleteCrop
  <2> QED BY <1>1, <2>2, <2>4, <2>5, <2>6, <2>7, ReleaseLeavesNeeded
<1>3. CASE ~Leased(w)
  <2>1. UNCHANGED <<piece, crop, source>> /\ SetCrop(w.slot, crop[w.slot])
    BY <1>1, <1>3 DEF CompleteCrop, SetCrop
  <2>2. crop[w.slot].state \in {"queued", "running"} => piece[w.slot].life # "deleted"
    BY <1>1 DEF GroupInv, TypeOK, PartsInv, DeletedStayEmpty
  <2> QED BY <1>1, <2>1, <2>2, CropAlone
<1> QED BY <1>2, <1>3

LEMMA DeleteKeepsGroup ==
  ASSUME GroupInv, NEW s \in Slots, DeletePiece(s)
  PROVE  GroupInv'
<1>1. crop \in [Slots -> CropJobs] /\ piece[s].life = "active" /\ UNCHANGED <<Idle, workers>>
  BY DEF GroupInv, TypeOK, CropJobs, DeletePiece
<1>2. PICK x : x = [life |-> "deleted", original |-> FALSE]
  OBVIOUS
<1>3. x \in PieceRecords /\ x.life = "deleted" /\ ~x.original
  BY <1>2 DEF PieceRecords
<1>4. PICK j : j = Fenced(s)
  OBVIOUS
<1>5. j \in CropJobs /\ j.state \notin {"queued", "running"}
  <2>1. [crop[s] EXCEPT !.state = "canceled"] \in CropJobs
    BY <1>1 DEF CropJobs
  <2>2. [crop[s] EXCEPT !.state = "canceled"].state = "canceled"
    BY <1>1 DEF CropJobs
  <2> QED BY <1>1, <1>4, <2>1, <2>2 DEF Fenced
<1>6. piece' = [piece EXCEPT ![s] = x] /\ Release(piece') /\ SetCrop(s, j)
  BY <1>2, <1>4 DEF DeletePiece
<1> QED BY <1>1, <1>3, <1>5, <1>6, ReleaseLeavesNeeded

(* The source is given up, its bytes go, time passes.                        *)
LEMMA SourceStepsKeepGroup ==
  ASSUME GroupInv, ExpireSource \/ CancelEntry \/ RemoveObject \/ Tick
  PROVE  GroupInv'
<1>1. /\ source \in Sources /\ now \in 0..Horizon
      /\ entry \in [state : {"ready", "canceled"}, mode : {"none", "keep_one", "split"}, parts : SUBSET Slots]
  BY DEF GroupInv, TypeOK, Sources
<1>2. /\ entry' \in [state : {"ready", "canceled"}, mode : {"none", "keep_one", "split"}, parts : SUBSET Slots]
      /\ entry'.mode = entry.mode /\ entry'.parts = entry.parts
  BY <1>1 DEF ExpireSource, CancelEntry, RemoveObject, Tick
<1>3. /\ source' \in Sources /\ source'.expires = source.expires
      /\ source'.state = "ready" => source.state = "ready"
  BY <1>1 DEF ExpireSource, CancelEntry, RemoveObject, Tick, DeleteAsset, Sources
<1>4. now' \in 0..Horizon
  BY <1>1 DEF ExpireSource, CancelEntry, RemoveObject, Tick, Horizon
<1>5. UNCHANGED <<piece, crop, workers, receipt, net, page, faults, submits>>
  BY DEF ExpireSource, CancelEntry, RemoveObject, Tick
<1>6. TypeOK'
  BY <1>2, <1>3, <1>4, <1>5 DEF GroupInv, TypeOK, Sources
<1>7. Untouched' /\ PartsInv'
  BY <1>2, <1>3, <1>5 DEF GroupInv, Untouched, PartsInv, OneConfirmation, DeletedStayEmpty,
                          NotKeptWithoutNeed, Confirmed, Surviving
<1>8. Asks' /\ KeysInv' /\ AddedIsNotRefused'
  BY <1>2, <1>5, ServerKeepsKeys
<1> QED BY <1>6, <1>7, <1>8 DEF GroupInv

-----------------------------------------------------------------------------
(* The inductive invariant: what was confirmed, and which page has which     *)
(* key of which choice. [svc_confirm_parts, svc_complete_item_stage]         *)
THEOREM GroupInvariance == Spec => []GroupInv
<1>1. GroupInv /\ [Next]_vars => GroupInv'
  <2>1. ASSUME GroupInv, UNCHANGED vars PROVE GroupInv'
    <3>1. TypeOK' /\ Asks'
      BY <2>1 DEF vars, GroupInv, TypeOK, Asks
    <3>2. Untouched' /\ PartsInv'
      BY <2>1 DEF vars, GroupInv, Untouched, PartsInv, OneConfirmation, DeletedStayEmpty,
        NotKeptWithoutNeed, Confirmed, Surviving
    <3>3. KeysInv' /\ AddedIsNotRefused'
      BY <2>1 DEF vars, GroupInv, KeysInv, KeysOfOnePage, KeptChoice, AddedIsNotRefused, Confirmed
    <3> QED BY <3>1, <3>2, <3>3 DEF GroupInv
  <2>2. ASSUME GroupInv, Next PROVE GroupInv'
    <3>1. ASSUME NEW t \in Tabs, PageStep(t) PROVE GroupInv'
      BY <2>2, <3>1, FormKeepsGroup, SubmitKeepsGroup DEF PageStep
    <3>2. ASSUME NEW r \in net, ConfirmParts(r) PROVE GroupInv'
      BY <2>2, <3>2, ConfirmKeepsGroup
    <3>3. ASSUME Work PROVE GroupInv'
      BY <2>2, <3>3, ClaimKeepsGroup, FetchKeepsGroup, CompleteKeepsGroup, RejectKeepsGroup DEF Work
    <3>4. ASSUME NEW s \in Slots, LapseCrop(s) \/ RetryCrop(s) \/ DeletePiece(s) PROVE GroupInv'
      BY <2>2, <3>4, LapseRetryKeepGroup, DeleteKeepsGroup
    <3>5. ASSUME ExpireSource \/ CancelEntry \/ RemoveObject \/ Tick PROVE GroupInv'
      BY <2>2, <3>5, SourceStepsKeepGroup
    <3> QED BY <2>2, <3>1, <3>2, <3>3, <3>4, <3>5 DEF Next
  <2> QED BY <2>1, <2>2
<1> QED BY <1>1, InitGroup, PTL DEF Spec

(* Two pages, resends and late arrivals make one lot of pieces, a resend is  *)
(* answered as the first, and neither a late crop nor an unneeded source     *)
(* stays. [svc_confirm_parts, svc_complete_item_stage, discard_item]         *)
THEOREM PiecesConfirmedOnce == Spec => []ConfirmedOnce
<1>1. GroupInv => ConfirmedOnce
  BY DEF GroupInv, PartsInv, ConfirmedOnce
<1> QED BY <1>1, GroupInvariance, PTL

(* The source is not given up while a surviving piece waits for its crop,    *)
(* unless its window ended or the photo was canceled before a choice.        *)
(*      [release_group_source, svc_expire_group_sources, svc_cancel_upload_entry] *)
THEOREM SourceKeptAsNeeded == Spec => SourceAsNeeded
<1>1. GroupInv /\ [Next]_vars =>
        [source.state = "ready" /\ source'.state # "ready" =>
           \/ source.expires <= now
           \/ entry'.state = "canceled"
           \/ \A s \in Surviving(piece') : piece'[s].original]_vars
  <2> SUFFICES ASSUME GroupInv, Next, source.state = "ready", source'.state # "ready"
      PROVE  \/ source.expires <= now
             \/ entry'.state = "canceled"
             \/ \A s \in Surviving(piece') : piece'[s].original
    BY DEF vars
  <2>1. ASSUME NEW t \in Tabs, PageStep(t) PROVE FALSE
    BY <2>1 DEF PageStep, Choose, EditDrafts, Submit, GiveUp, Leave, Refetch, Server
  <2>2. ASSUME NEW r \in net, ConfirmParts(r) PROVE FALSE
    BY <2>2 DEF ConfirmParts, Create, GroupInv, TypeOK
  <2>3. ASSUME NEW s \in Slots, ClaimCrop(s) \/ LapseCrop(s) \/ RetryCrop(s) PROVE FALSE
    BY <2>3 DEF ClaimCrop, LapseCrop, RetryCrop
  <2>4. ASSUME NEW w \in workers, Fetch(w) \/ RejectCrop(w) PROVE FALSE
    BY <2>4 DEF Fetch, RejectCrop
  <2>5. ASSUME Release(piece') PROVE \A s \in Surviving(piece') : piece'[s].original
    BY <2>5 DEF Release, Releasable
  <2>6. ASSUME NEW w \in workers, CompleteCrop(w) PROVE Release(piece')
    BY <2>6 DEF CompleteCrop
  <2>7. ASSUME NEW s \in Slots, DeletePiece(s) PROVE Release(piece')
    BY <2>7 DEF DeletePiece
  <2>8. ASSUME ExpireSource PROVE source.expires <= now
    BY <2>8 DEF ExpireSource
  <2>9. ASSUME CancelEntry PROVE entry'.state = "canceled"
    BY <2>9 DEF CancelEntry, GroupInv, TypeOK
  <2>10. ASSUME RemoveObject \/ Tick PROVE FALSE
    BY <2>10 DEF RemoveObject, Tick
  <2> QED BY <2>1, <2>2, <2>3, <2>4, <2>5, <2>6, <2>7, <2>8, <2>9, <2>10 DEF Next, Work
<1> QED BY <1>1, GroupInvariance, PTL DEF Spec, SourceAsNeeded
=============================================================================

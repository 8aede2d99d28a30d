---------------------------- MODULE ProfileEdits ----------------------------
(***************************************************************************)
(* The profile of one member: the settings form, open in several tabs, and *)
(* the welcome page, which all save through update_profile under a         *)
(* revision and an idempotency key.                                        *)
(*                                                                         *)
(* A form starts from the profile its tab loaded first; later refetches    *)
(* replace the profile it is compared with (view), not its values (draft). *)
(* A request whose sender gave up stays on the wire and may arrive later.  *)
(***************************************************************************)
EXTENDS Integers

CONSTANTS
  Tabs, Fields,
  NewMember,    \* the member has not been welcomed yet
  MaxRevision,  \* bound of the model: accepted saves
  MaxKeys,      \* bound of the model: idempotency keys
  MaxFaults     \* bound of the model: requests a tab gave up on

VARIABLES
  profile,   \* the stored values, their revision, and whether it was welcomed
  done,      \* what each accepted idempotency key was accepted with
  tab,       \* the settings form in each tab
  welcome,   \* the welcome page
  wire,      \* requests sent and not handled yet
  clash,     \* a page was told that its key was used with another body
  unseen,    \* a save replaced a value other than the one its form compared with
  reverted,  \* a save changed a field its member had not touched
  keys, faults

vars == <<profile, done, tab, welcome, wire, clash, unseen, reverted, keys, faults>>

Values(f) == {"first", "own"} \cup (IF f = "timezone" THEN {"unknown"} ELSE {})
NoPatch == [f \in {} |-> "first"]
NoRequest == [key |-> 0, patch |-> NoPatch, rev |-> 0]
Welcomed == [f \in {"onboarding_completed"} |-> "yes"]
View == [val |-> profile.val, rev |-> profile.rev]
Waiting == {"sent", "idle", "failed", "conflict", "refused"}

TypeOK ==
  /\ \A f \in Fields : profile.val[f] \in Values(f) \ {"unknown"}
  /\ profile.rev \in 1..MaxRevision /\ profile.welcomed \in BOOLEAN
  /\ DOMAIN done \subseteq 1..MaxKeys /\ keys \in 0..MaxKeys /\ faults \in 0..MaxFaults
  /\ \A t \in Tabs : /\ tab[t].save \in Waiting
                     /\ tab[t].save = "sent" => tab[t].request.key \in 1..keys
                     /\ tab[t].view.rev <= profile.rev
                     /\ \A f \in Fields : tab[t].draft[f] \in Values(f)
  /\ welcome.save \in Waiting \cup {"left"} /\ welcome.rev <= profile.rev
  /\ \A r \in wire : r.from \in Tabs \cup {"welcome"} /\ r.key \in 1..keys

(* The welcome page makes its one key when it opens.                         *)
Init ==
  /\ profile = [val |-> [f \in Fields |-> "first"], rev |-> 1, welcomed |-> ~NewMember]
  /\ done = [k \in {} |-> NoRequest]
  /\ tab = [t \in Tabs |-> [view |-> View, draft |-> profile.val, touched |-> {},
                            pending |-> NoRequest, request |-> NoRequest, save |-> "idle"]]
  /\ welcome = [rev |-> 1, welcomed |-> ~NewMember, request |-> NoRequest,
                save |-> IF NewMember THEN "idle" ELSE "left"]
  /\ wire = {} /\ clash = FALSE /\ unseen = FALSE /\ reverted = FALSE
  /\ keys = 1 /\ faults = 0

(* A request on its way, with what its page compared with and its member     *)
(* touched.                                                                  *)
Sent(r, from, seen, touched) ==
  [key |-> r.key, patch |-> r.patch, rev |-> r.rev, from |-> from, seen |-> seen, touched |-> touched]
OnlyTabs == UNCHANGED <<profile, done, welcome, wire, clash, unseen, reverted, keys, faults>>

-----------------------------------------------------------------------------
(* The form.  useProfile refetches when the window is focused.               *)
toForm(view) == view.val
Refetch(t) ==
  /\ tab[t].view # View /\ tab' = [tab EXCEPT ![t].view = View] /\ OnlyTabs

Type(t) ==
  /\ \E f \in Fields : \E v \in Values(f) :
       /\ tab[t].draft[f] # v
       /\ tab' = [tab EXCEPT ![t].draft[f] = v, ![t].touched = tab[t].touched \cup {f}]
  /\ OnlyTabs

(* One request identity per save attempt, reused only for the same body.     *)
PatchOf(x) == [f \in {g \in Fields : x.draft[g] # toForm(x.view)[g]} |-> x.draft[f]]
SameBody(x) == x.pending # NoRequest /\ x.pending.patch = PatchOf(x) /\ x.pending.rev = x.view.rev

Submit(t) ==
  LET x == tab[t]
      fresh == ~SameBody(x)
      r == [key |-> IF fresh THEN keys + 1 ELSE x.pending.key, patch |-> PatchOf(x), rev |-> x.view.rev] IN
  /\ x.save # "sent" /\ DOMAIN PatchOf(x) # {}
  /\ IF fresh THEN keys < MaxKeys /\ keys' = keys + 1 ELSE UNCHANGED keys
  /\ tab' = [tab EXCEPT ![t] = [x EXCEPT !.pending = r, !.request = r, !.save = "sent"]]
  /\ wire' = wire \cup {Sent(r, t, x.view.val, x.touched)}
  /\ UNCHANGED <<profile, done, welcome, clash, unseen, reverted, faults>>

(* "Reload settings", offered after a conflict.                              *)
Reload(t) ==
  /\ tab[t].save = "conflict"
  /\ tab' = [tab EXCEPT ![t] = [view |-> View, draft |-> toForm(View), touched |-> {},
                                pending |-> NoRequest, request |-> NoRequest, save |-> "idle"]]
  /\ OnlyTabs

-----------------------------------------------------------------------------
(* The welcome page saves once, at the revision of the bootstrap it holds,   *)
(* and refetches it whenever a save is settled.                              *)
Bootstrap(w) == [w EXCEPT !.rev = profile.rev, !.welcomed = profile.welcomed]
RefetchBootstrap ==
  /\ welcome.save # "left" /\ Bootstrap(welcome) # welcome /\ welcome' = Bootstrap(welcome)
  /\ UNCHANGED <<profile, done, tab, wire, clash, unseen, reverted, keys, faults>>

Finish ==
  LET r == [key |-> 1, patch |-> Welcomed, rev |-> welcome.rev] IN
  /\ welcome.save \notin {"sent", "left"}
  /\ IF welcome.welcomed THEN welcome' = [welcome EXCEPT !.save = "left"] /\ UNCHANGED wire
     ELSE /\ welcome' = [welcome EXCEPT !.save = "sent", !.request = r]
          /\ wire' = wire \cup {Sent(r, "welcome", profile.val, {"onboarding_completed"})}
  /\ UNCHANGED <<profile, done, tab, clash, unseen, reverted, keys, faults>>

OpenAnyway ==
  /\ welcome.save \in {"failed", "conflict", "refused"}
  /\ welcome' = [welcome EXCEPT !.save = "left"]
  /\ UNCHANGED <<profile, done, tab, wire, clash, unseen, reverted, keys, faults>>

-----------------------------------------------------------------------------
(* update_profile: the key first, then the revision, then the values.        *)
Body(r) == [patch |-> r.patch, rev |-> r.rev]
Claimed(r) == r.key \in DOMAIN done
AtRevisionAny(r) == r.rev \in Nat
AtRevision(r) == r.rev = profile.rev
Valid(r) == \A f \in DOMAIN r.patch : r.patch[f] # "unknown"

Answer(r) ==
  CASE Claimed(r) -> IF done[r.key].body = Body(r) THEN "saved" ELSE "refused"
    [] ~Claimed(r) /\ ~AtRevision(r) -> "conflict"
    [] ~Claimed(r) /\ AtRevision(r) /\ ~Valid(r) -> "refused"
    [] OTHER -> "saved"

Merged(r) == [f \in Fields |-> IF f \in DOMAIN r.patch THEN r.patch[f] ELSE profile.val[f]]
Updated(r) ==
  [val |-> Merged(r), rev |-> profile.rev + 1,
   welcomed |-> profile.welcomed \/ "onboarding_completed" \in DOMAIN r.patch]

(* What an answer does to its sender, if it still waits for this request:    *)
(* a saved profile becomes the view and the form, even over a newer view.    *)
Result(r, p) == [view |-> [val |-> p.val, rev |-> p.rev], draft |-> p.val, touched |-> {},
                 pending |-> NoRequest, request |-> NoRequest, save |-> "idle"]
Stored(r) == IF Claimed(r) THEN done[r.key].result ELSE Updated(r)
Sender(r) == IF r.from = "welcome" THEN welcome ELSE tab[r.from]
Waits(x, r) == x.save = "sent" /\ x.request.key = r.key /\ Body(x.request) = Body(r)
Heard(r) ==
  /\ tab' = IF r.from \notin Tabs THEN tab
            ELSE [tab EXCEPT ![r.from] =
                    LET x == tab[r.from] IN
                    CASE ~Waits(x, r) -> x
                      [] Waits(x, r) /\ Answer(r) = "saved" -> Result(r, Stored(r))
                      [] OTHER -> [x EXCEPT !.save = Answer(r), !.pending = NoRequest]]
  /\ welcome' = IF r.from # "welcome" \/ ~Waits(welcome, r) THEN welcome
                ELSE [welcome EXCEPT !.save = IF Answer(r) = "saved" THEN "left" ELSE Answer(r)]

Accepted(r) == Answer(r) = "saved" /\ r.key \notin DOMAIN done
UpdateProfile(r) ==
  /\ wire' = wire \ {r}
  /\ clash' = (clash \/ (Claimed(r) /\ done[r.key].body # Body(r) /\ Waits(Sender(r), r)))
  /\ IF Accepted(r)
     THEN /\ profile.rev < MaxRevision /\ profile' = Updated(r)
          /\ done' = [k \in DOMAIN done \cup {r.key} |->
                         IF k = r.key THEN [body |-> Body(r), result |-> Updated(r)] ELSE done[k]]
          /\ unseen' = (unseen \/ \E f \in DOMAIN r.patch \cap Fields : profile.val[f] # r.seen[f])
          /\ reverted' = (reverted \/ ~(DOMAIN r.patch \subseteq r.touched))
     ELSE UNCHANGED <<profile, done, unseen, reverted>>
  /\ UNCHANGED <<keys, faults>>

Arrive(r) == UpdateProfile(r) /\ Heard(r)

(* The sender gives up: the request may still arrive, or never.              *)
GiveUp(r) ==
  /\ faults < MaxFaults /\ faults' = faults + 1
  /\ \/ r.from \in Tabs /\ Waits(tab[r.from], r) /\ UNCHANGED welcome
        /\ tab' = [tab EXCEPT ![r.from].save = "failed"]
     \/ r.from = "welcome" /\ Waits(welcome, r) /\ UNCHANGED tab
        /\ welcome' = [welcome EXCEPT !.save = "failed"]
  /\ wire' \in {wire, wire \ {r}}
  /\ UNCHANGED <<profile, done, clash, unseen, reverted, keys>>

Next ==
  \/ \E t \in Tabs : Refetch(t) \/ Type(t) \/ Submit(t) \/ Reload(t)
  \/ RefetchBootstrap \/ Finish \/ OpenAnyway
  \/ \E r \in wire : Arrive(r) \/ GiveUp(r)

Spec == Init /\ [][Next]_vars
-----------------------------------------------------------------------------
(* No page is told that its key was used with another body, although the     *)
(* welcome page keeps one key over many revisions: a retry is either the     *)
(* same request or follows a conflict.          [ProfileEditor, Onboarding]  *)
KeyNeverClashes == ~clash

(* A save replaces only values its form was comparing with when it was sent: *)
(* what another tab saved meanwhile is a conflict.          [update_profile] *)
NothingUnseenReplaced == ~unseen

(* A save that was accepted is not reported to its tab as a conflict or a    *)
(* refusal, however late it arrives or however often it is sent.             *)
(*                                          [claim_request, ProfileEditor]   *)
AcceptedIsNotRefused ==
  /\ \A t \in Tabs : tab[t].save \in {"conflict", "refused"} => tab[t].request.key \notin DOMAIN done
  /\ welcome.save \in {"conflict", "refused"} => 1 \notin DOMAIN done

(* A save changes only the fields its member touched: edits are resolved by  *)
(* revision, not silent last-write wins.             [ProfileEditor; docs]   *)
OnlyTouchedChange == ~reverted
=============================================================================

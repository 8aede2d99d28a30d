----------------------------- MODULE Membership -----------------------------
(***************************************************************************)
(* Who may use the installation: invites and their redemption, suspension, *)
(* the transfer of ownership and the deletion of accounts, the last two    *)
(* after a fresh sign-in.                                                  *)
(*                                                                         *)
(* The tabs are those of one browser: each has a session of its own, and   *)
(* they share the pending confirmation in durable storage.  Time is the    *)
(* number of sign-ins so far.  A code admits one person.                   *)
(***************************************************************************)
EXTENDS Integers, Sequences

CONSTANTS
  Users, Tabs, Codes, NoUser,
  Founder,        \* the owner at the start
  Admitted,       \* the members at the start, who have wardrobes
  MaxSignIns,     \* bound of the model: sessions
  MaxChallenges,  \* bound of the model: confirmations started
  MaxFaults       \* bound of the model: lost answers, failed removals, dead runs

ASSUME MembershipAssumption ==
  /\ {MaxSignIns, MaxChallenges, MaxFaults} \subseteq Nat
  /\ NoUser \notin Users /\ Admitted \subseteq Users /\ Founder \in Users

VARIABLES
  member,     \* memberships: state, role, and the reason of a deletion
  rows,       \* where each account has domain rows
  invite,     \* invite codes
  challenge,  \* the reauthentication challenges, oldest first
  pending,    \* the confirmation waiting in this browser: challenge and recipient
  tab,        \* session and page of each tab
  removing,   \* accounts a run has claimed for removal from Auth
  acted,      \* confirmations the server has carried out
  signIns, faults

vars == <<member, rows, invite, challenge, pending, tab, removing, acted, signIns, faults>>

Domain == {"items", "outfits", "uploads"}
Gone == [state |-> "none", role |-> "member", reason |-> "none"]
Active(role) == [state |-> "active", role |-> role, reason |-> "none"]
Deleting(u, reason) == [state |-> "deleting", role |-> member[u].role, reason |-> reason]
NoPending == [ch |-> 0, to |-> NoUser]
SignedOut == [user |-> NoUser, at |-> 0, page |-> "none", shown |-> NoPending]
Actions == {"delete_account", "transfer_ownership"}

TypeOK ==
  /\ \A u \in Users :
       /\ member[u].state \in {"none", "pending", "active", "suspended", "deleting"}
       /\ member[u].role = "owner" => member[u].state \in {"active", "deleting"}
       /\ (member[u].reason # "none") = (member[u].state = "deleting")
       /\ rows[u] \subseteq Domain
  /\ \A c \in Codes : invite[c] \in {"none", "open", "used", "closed"}
  /\ \A i \in DOMAIN challenge :
       challenge[i].user \in Users /\ challenge[i].action \in Actions /\ challenge[i].made \in 1..signIns
  /\ pending.ch \in 0..Len(challenge) /\ signIns \in 0..MaxSignIns /\ faults \in 0..MaxFaults
  /\ \A t \in Tabs :
       /\ tab[t].user \in Users \cup {NoUser} /\ tab[t].at \in 0..signIns
       /\ tab[t].page \in {"none", "confirm", "proof", "failed", "refused"}
       /\ tab[t].page # "none" => tab[t].user # NoUser
  /\ \A u, v \in Users : member[u].role = "owner" /\ member[v].role = "owner" => u = v

Init ==
  /\ member = [u \in Users |-> IF u = Founder THEN Active("owner")
                               ELSE IF u \in Admitted THEN Active("member") ELSE Gone]
  /\ rows = [u \in Users |-> IF u \in Admitted \cup {Founder} THEN Domain ELSE {}]
  /\ invite = [c \in Codes |-> "none"]
  /\ challenge = <<>> /\ pending = NoPending
  /\ tab = [t \in Tabs |-> SignedOut]
  /\ removing = {} /\ acted = {} /\ signIns = 0 /\ faults = 0

Fault == faults < MaxFaults /\ faults' = faults + 1
RequireActive(u) == u # NoUser /\ member[u].state = "active"
RequireOwner(u) == RequireActive(u) /\ member[u].role = "owner"

-----------------------------------------------------------------------------
(* Sign-in and its callback: a pending confirmation is opened first.  A new  *)
(* identity waits for an invite.                                             *)
Waiting == IF pending.ch # 0 /\ challenge[pending.ch].open THEN pending ELSE NoPending
Landing(u) ==
  [user |-> u, at |-> signIns + 1, shown |-> Waiting,
   page |-> IF Waiting = NoPending THEN "none" ELSE "confirm"]

SignIn(t, u) ==
  /\ signIns < MaxSignIns /\ signIns' = signIns + 1
  /\ tab' = [tab EXCEPT ![t] = Landing(u)]
  /\ member' = IF member[u].state = "none" THEN [member EXCEPT ![u].state = "pending"] ELSE member
  /\ UNCHANGED <<rows, invite, challenge, pending, removing, acted, faults>>

(* The confirmation may also be opened again in a session that is older.     *)
OpenConfirm(t) ==
  /\ tab[t].user # NoUser /\ tab[t].page = "none" /\ Waiting # NoPending
  /\ tab' = [tab EXCEPT ![t].page = "confirm", ![t].shown = Waiting]
  /\ UNCHANGED <<member, rows, invite, challenge, pending, removing, acted, signIns, faults>>

SignOut(t) ==
  /\ tab[t].user # NoUser /\ tab' = [tab EXCEPT ![t] = SignedOut]
  /\ UNCHANGED <<member, rows, invite, challenge, pending, removing, acted, signIns, faults>>

-----------------------------------------------------------------------------
(* Invites, and the owner's power over members.                              *)
CreateInvite(t, c) ==
  /\ RequireOwner(tab[t].user) /\ invite[c] = "none" /\ invite' = [invite EXCEPT ![c] = "open"]
  /\ UNCHANGED <<member, rows, challenge, pending, tab, removing, acted, signIns, faults>>

RevokeInvite(t, c) ==
  /\ RequireOwner(tab[t].user) /\ invite[c] = "open" /\ invite' = [invite EXCEPT ![c] = "closed"]
  /\ UNCHANGED <<member, rows, challenge, pending, tab, removing, acted, signIns, faults>>

RedeemableDeleting(u) == member[u].state \in {"pending", "deleting"}
Redeemable(u) == member[u].state = "pending"
RedeemInvite(t, c) ==
  /\ tab[t].user # NoUser /\ Redeemable(tab[t].user) /\ invite[c] = "open"
  /\ invite' = [invite EXCEPT ![c] = "used"]
  /\ member' = [member EXCEPT ![tab[t].user] = Active("member")]
  /\ UNCHANGED <<rows, challenge, pending, tab, removing, acted, signIns, faults>>

SetSuspension(t, u) ==
  /\ RequireOwner(tab[t].user) /\ member[u].role # "owner" /\ member[u].state \in {"active", "suspended"}
  /\ member' = [member EXCEPT ![u].state = IF member[u].state = "active" THEN "suspended" ELSE "active"]
  /\ UNCHANGED <<rows, invite, challenge, pending, tab, removing, acted, signIns, faults>>

(* The operator's command, for an installation without an owner.             *)
BootstrapOwner(u) ==
  /\ \A v \in Users : member[v].role # "owner"
  /\ member[u].state \in {"pending", "active"} /\ member' = [member EXCEPT ![u] = Active("owner")]
  /\ UNCHANGED <<rows, invite, challenge, pending, tab, removing, acted, signIns, faults>>

-----------------------------------------------------------------------------
(* A confirmation: a challenge, kept in this browser with the recipient,     *)
(* then a new sign-in, then its verification, which yields a proof for the   *)
(* one action.                                                               *)
StartReauth(t, action, to) ==
  /\ RequireActive(tab[t].user) /\ Len(challenge) < MaxChallenges
  /\ action = "transfer_ownership" => RequireOwner(tab[t].user) /\ to # tab[t].user
  /\ (action = "delete_account") = (to = NoUser)
  /\ challenge' = Append(challenge, [user |-> tab[t].user, action |-> action, to |-> to, made |-> signIns,
                                     session |-> tab[t].at, verified |-> FALSE, open |-> TRUE])
  /\ pending' = [ch |-> Len(challenge) + 1, to |-> to]
  /\ UNCHANGED <<member, rows, invite, tab, removing, acted, signIns, faults>>

ExpireChallenge(i) ==
  /\ challenge[i].open /\ challenge' = [challenge EXCEPT ![i].open = FALSE]
  /\ UNCHANGED <<member, rows, invite, pending, tab, removing, acted, signIns, faults>>

Cancel(t) ==
  /\ tab[t].page \in {"confirm", "failed", "refused"} /\ pending' = NoPending
  /\ tab' = [tab EXCEPT ![t].page = "none", ![t].shown = NoPending]
  /\ UNCHANGED <<member, rows, invite, challenge, removing, acted, signIns, faults>>

FreshAny(x, c) == x.at \in Nat
Fresh(x, c) == x.at > c.made /\ x.at # c.session
Verifiable(x, c) == x.user = c.user /\ c.open /\ ~c.verified /\ Fresh(x, c)

(* What the page makes of an answer: a refusal of the proof, or a transfer   *)
(* still due, ends the confirmation; anything else may be tried again.       *)
Shows(t, page) == tab' = [tab EXCEPT ![t].page = page]
Refused(t) == Shows(t, "refused") /\ pending' = NoPending
Failed(t) == Shows(t, "failed") /\ UNCHANGED pending

Verify(t) ==
  LET x == tab[t]
      c == challenge[x.shown.ch]
      verified == challenge' = [challenge EXCEPT ![x.shown.ch].verified = TRUE] IN
  /\ x.page \in {"confirm", "failed"}
  /\ \/ Fault /\ Failed(t) /\ UNCHANGED challenge
     \/ /\ RequireActive(x.user) /\ Verifiable(x, c) /\ verified
        /\ \/ Shows(t, "proof") /\ UNCHANGED <<pending, faults>>
           \/ Fault /\ Failed(t)
     \/ /\ RequireActive(x.user) /\ ~Verifiable(x, c) /\ Refused(t) /\ UNCHANGED <<challenge, faults>>
     \/ ~RequireActive(x.user) /\ Failed(t) /\ UNCHANGED <<challenge, faults>>
  /\ UNCHANGED <<member, rows, invite, removing, acted, signIns>>

(* The action, with the proof.  Deleting an account ends its sessions and    *)
(* removes its domain rows; the rest waits for its objects.                  *)
OthersActive(u) == \E v \in Users \ {u} : member[v].state = "active"
Scrubbed(u) == rows[u] \ {"outfits", "uploads"}
DeleteAccount(u) ==
  /\ member' = [member EXCEPT ![u] = Deleting(u, "account_deleted")]
  /\ rows' = [rows EXCEPT ![u] = Scrubbed(u)]

Recipient(x) == x.shown.to
Transfer(u, to) ==
  /\ member' = [member EXCEPT ![u].role = "member", ![to].role = "owner"]
  /\ UNCHANGED rows

CarryOut(t) ==
  LET x == tab[t]
      c == challenge[x.shown.ch]
      done == acted' = acted \cup {x.shown.ch} IN
  CASE c.action = "delete_account" ->
         IF ~c.open \/ (RequireOwner(x.user) /\ OthersActive(x.user))
         THEN Refused(t) /\ UNCHANGED <<member, rows, acted, faults>>
         ELSE /\ DeleteAccount(x.user) /\ done
              /\ \/ tab' = [tab EXCEPT ![t] = SignedOut] /\ pending' = NoPending /\ UNCHANGED faults
                 \/ Failed(t) /\ Fault
    [] OTHER ->
         IF ~RequireOwner(x.user) \/ ~RequireActive(Recipient(x)) \/ Recipient(x) = x.user
         THEN Failed(t) /\ UNCHANGED <<member, rows, acted, faults>>
         ELSE IF ~c.open THEN Refused(t) /\ UNCHANGED <<member, rows, acted, faults>>
         ELSE /\ Transfer(x.user, Recipient(x)) /\ done
              /\ \/ Shows(t, "none") /\ pending' = NoPending /\ UNCHANGED faults
                 \/ Failed(t) /\ Fault

Act(t) ==
  /\ tab[t].page = "proof"
  /\ IF RequireActive(tab[t].user) THEN CarryOut(t)
     ELSE Failed(t) /\ UNCHANGED <<member, rows, acted, faults>>
  /\ UNCHANGED <<invite, challenge, removing, signIns>>

ActUnheard(t) ==
  /\ tab[t].page = "proof" /\ Fault /\ Failed(t)
  /\ UNCHANGED <<member, rows, invite, challenge, removing, acted, signIns>>

-----------------------------------------------------------------------------
(* Accounts without an invite are removed at their own request or after a    *)
(* day; deleted accounts once their objects are gone.  Each is claimed by a  *)
(* run, which then removes the Auth user, and all that hangs on it.          *)
DeletePending(t) ==
  /\ tab[t].user # NoUser /\ member[tab[t].user].state = "pending"
  /\ member' = [member EXCEPT ![tab[t].user] = Deleting(tab[t].user, "pending")]
  /\ removing' = removing \cup {tab[t].user}
  /\ UNCHANGED <<rows, invite, challenge, pending, tab, acted, signIns, faults>>

Expire(u) ==
  /\ member[u].state = "pending" /\ member' = [member EXCEPT ![u] = Deleting(u, "pending")]
  /\ removing' = removing \cup {u}
  /\ UNCHANGED <<rows, invite, challenge, pending, tab, acted, signIns, faults>>

Reclaimable(u) == member[u].state = "deleting"
Reclaim(u) ==
  /\ Reclaimable(u) /\ u \notin removing /\ removing' = removing \cup {u}
  /\ UNCHANGED <<member, rows, invite, challenge, pending, tab, acted, signIns, faults>>

RemoveUser(u) ==
  /\ u \in removing /\ removing' = removing \ {u}
  /\ \/ /\ member' = [member EXCEPT ![u] = Gone] /\ rows' = [rows EXCEPT ![u] = {}]
        /\ challenge' = [i \in DOMAIN challenge |->
                           IF challenge[i].user = u THEN [challenge[i] EXCEPT !.open = FALSE] ELSE challenge[i]]
        /\ tab' = [t \in Tabs |-> IF tab[t].user = u THEN SignedOut ELSE tab[t]]
        /\ UNCHANGED faults
     \/ Fault /\ UNCHANGED <<member, rows, challenge, tab>>
  /\ UNCHANGED <<invite, pending, acted, signIns>>

Owner(t) ==
  \/ \E c \in Codes : CreateInvite(t, c) \/ RevokeInvite(t, c)
  \/ \E u \in Users : SetSuspension(t, u)
Confirmation(t) ==
  \/ \E action \in Actions, to \in Users \cup {NoUser} : StartReauth(t, action, to)
  \/ OpenConfirm(t) \/ Cancel(t) \/ Verify(t) \/ Act(t) \/ ActUnheard(t)
Next ==
  \/ \E t \in Tabs : \/ \E u \in Users : SignIn(t, u)
                     \/ \E c \in Codes : RedeemInvite(t, c)
                     \/ SignOut(t) \/ DeletePending(t)
                     \/ Owner(t) \/ Confirmation(t)
  \/ \E i \in DOMAIN challenge : ExpireChallenge(i)
  \/ \E u \in Users : BootstrapOwner(u) \/ Expire(u) \/ Reclaim(u) \/ RemoveUser(u)

(* The scheduled runs come back, and Auth answers.                           *)
Fairness == \A u \in Users : WF_vars(Reclaim(u)) /\ WF_vars(RemoveUser(u))
Spec == Init /\ [][Next]_vars /\ Fairness

-----------------------------------------------------------------------------
(* An account is deleted, and ownership given, only by its own member in a   *)
(* session signed in after they asked for that action, and to the member     *)
(* chosen then.         [svc_verify_reauth_challenge, ConfirmAction]         *)
Asked(u, action, to) ==
  \E i \in DOMAIN challenge, t \in Tabs :
    /\ challenge[i].user = u /\ challenge[i].action = action /\ challenge[i].to = to
    /\ tab[t].user = u /\ tab[t].at > challenge[i].made
    /\ i \in acted' \ acted
OnlyFreshlyAsked ==
  [][/\ \A u \in Users :
          member[u].reason # "account_deleted" /\ member'[u].reason = "account_deleted" =>
            Asked(u, "delete_account", NoUser)
     /\ \A u, v \in Users :
          u # v /\ member[u].role = "owner" /\ member'[v].role = "owner" =>
            Asked(u, "transfer_ownership", v)]_vars

(* Nobody who is admitted is removed from Auth: a redemption and a cleanup   *)
(* of the same pending account exclude each other.                           *)
(*               [svc_redeem_invite, svc_claim_pending_account_cleanup]      *)
AdmittedAreNotRemoved == \A u \in removing : member[u].state = "deleting"

(* An account that is being deleted is removed in the end, although removals *)
(* fail and runs die.       [pendingAccountCleanup, processAccountDeletions] *)
DeletingEnds == \A u \in Users : member[u].state = "deleting" ~> member[u].state # "deleting"

(* Without an owner the installation is locked: nobody becomes a member but  *)
(* by the operator's bootstrap.     [svc_start_account_deletion; docs]       *)
LockedWithoutOwner ==
  [][(\A u \in Users : ~RequireOwner(u)) =>
       \A u \in Users : member'[u].state = "active" /\ member[u].state # "active" =>
         member'[u].role = "owner"]_vars

(* A deleted account's domain rows are removed at once.                      *)
(*                                        [scrub_account_domain; a comment]  *)
DomainRemovedAtOnce == \A u \in Users : member[u].reason = "account_deleted" => rows[u] = {}

(* When the page says that nothing was changed, nothing was.                 *)
(*                                                      [ConfirmAction]      *)
NothingWasChanged == \A t \in Tabs : tab[t].page = "failed" => tab[t].shown.ch \notin acted

(* What a member keeps in the browser's storage is cleared at sign-out.      *)
(*                                          [clearAccountStorage; docs]      *)
ClearedAtSignOut ==
  [][\A t \in Tabs : tab[t].user # NoUser /\ tab'[t] = SignedOut =>
       pending'.ch = 0 \/ challenge[pending'.ch].user # tab[t].user]_vars
=============================================================================

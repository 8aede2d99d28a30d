-------------------------- MODULE MCBrowser_proofs --------------------------
(* Theorems about what goes on in a member's browser (MCBrowser).  Of        *)
(* Membership: an admitted member is never removed from Auth, and nobody     *)
(* loses their account or their ownership but by a confirmation of their     *)
(* own, made in a session signed in after they asked for it.  Of             *)
(* GatherPhotos: what is gathered is accepted, once.  Of UploadClient: what  *)
(* a tab says of the photos it sends is so.                                  *)
EXTENDS MCBrowser, TLAPS, FiniteSetTheorems

-----------------------------------------------------------------------------
(* Members, invites and confirmations (Membership).                          *)
MemberRecords ==
  [state : {"none", "pending", "active", "suspended", "deleting"}, role : {"owner", "member"},
   reason : {"none", "pending", "account_deleted"}]
ChallengeRecords ==
  [user : Users, action : Actions, to : Users \cup {NoUser}, made : Nat, session : Nat,
   verified : BOOLEAN, open : BOOLEAN]
ShownRecords == [ch : Nat, to : Users \cup {NoUser}]
TabRecords ==
  [user : Users \cup {NoUser}, at : Nat,
   page : {"none", "confirm", "proof", "failed", "refused"}, shown : ShownRecords]

(* The accounts: one owner at most, and what a run removes is being deleted. *)
OneOwner == \A u, v \in Users : member[u].role = "owner" /\ member[v].role = "owner" => u = v
Accounts ==
  /\ member \in [Users -> MemberRecords] /\ removing \subseteq Users
  /\ OneOwner /\ AdmittedAreNotRemoved

(* The confirmations: what a browser and its tabs show is a challenge with   *)
(* the recipient chosen then; a tab with a proof holds it alone, for its own *)
(* user, signed in later, and its challenge is not carried out yet.          *)
Shape ==
  /\ challenge \in Seq(ChallengeRecords) /\ pending \in ShownRecords
  /\ tab \in [Tabs -> TabRecords] /\ signIns \in Nat
ShownRight(s) == s.ch \in DOMAIN challenge /\ challenge[s.ch].to = s.to
DeletionsHaveNoRecipient ==
  \A i \in DOMAIN challenge : challenge[i].action = "delete_account" => challenge[i].to = NoUser
ActedOnce == \A i \in acted : i \in DOMAIN challenge /\ challenge[i].verified
Proven(t) ==
  /\ challenge[tab[t].shown.ch].verified
  /\ challenge[tab[t].shown.ch].user = tab[t].user
  /\ tab[t].at > challenge[tab[t].shown.ch].made
  /\ tab[t].shown.ch \notin acted
ProofsRight == \A t \in Tabs : tab[t].page = "proof" => Proven(t)
OneProof ==
  \A t, s \in Tabs :
    tab[t].page = "proof" /\ tab[s].page = "proof" /\ tab[t].shown.ch = tab[s].shown.ch => t = s
TabsRight == \A t \in Tabs : tab[t].page # "none" => ShownRight(tab[t].shown)
Confirmations ==
  /\ Shape /\ DeletionsHaveNoRecipient /\ ActedOnce
  /\ (pending.ch # 0 => ShownRight(pending))
  /\ TabsRight /\ ProofsRight /\ OneProof

-----------------------------------------------------------------------------
(* What a step may do to the accounts.                                       *)
Rests ==
  /\ member' = member
  /\ removing' \subseteq removing \cup {u \in Users : member[u].state = "deleting"}
Changes(u, r) ==
  /\ member[u].state # "deleting" /\ member' = [member EXCEPT ![u] = r]
  /\ r.role = "owner" =>
       member[u].role = "owner" \/ \A v \in Users : member[v].role # "owner"
  /\ r.reason = "account_deleted" =>
       member[u].reason = "account_deleted" \/ Asked(u, "delete_account", NoUser)
  /\ \/ removing' = removing
     \/ r.state = "deleting" /\ removing' = removing \cup {u}
HandsOver(u, v) ==
  /\ u # v /\ member[u].role = "owner" /\ Asked(u, "transfer_ownership", v)
  /\ member' = [member EXCEPT ![u].role = "member", ![v].role = "owner"]
  /\ removing' = removing
Removes(u) == member' = [member EXCEPT ![u] = Gone] /\ removing' = removing \ {u}
Move ==
  \/ Rests
  \/ \E u \in Users, r \in MemberRecords : Changes(u, r)
  \/ \E u, v \in Users : HandsOver(u, v)
  \/ \E u \in Users : Removes(u)

(* The accounts stay as they must whatever the move.                         *)
LEMMA MoveKeepsAccounts ==
  ASSUME Accounts, Move PROVE Accounts'
<1>1. CASE Rests
  BY <1>1 DEF Accounts, Rests, OneOwner, AdmittedAreNotRemoved
<1>2. ASSUME NEW u \in Users, NEW r \in MemberRecords, Changes(u, r) PROVE Accounts'
  BY <1>2 DEF Accounts, Changes, OneOwner, AdmittedAreNotRemoved
<1>3. ASSUME NEW u \in Users, NEW v \in Users, HandsOver(u, v) PROVE Accounts'
  <2>1. /\ member' \in [Users -> MemberRecords] /\ removing' \subseteq Users
        /\ \A w \in Users : member'[w].state = member[w].state
    BY <1>3 DEF Accounts, HandsOver, MemberRecords
  <2>2. \A w \in Users : member'[w].role = "owner" => w = v
    BY <1>3 DEF Accounts, HandsOver, MemberRecords, OneOwner
  <2> QED BY <1>3, <2>1, <2>2 DEF Accounts, HandsOver, OneOwner, AdmittedAreNotRemoved
<1>4. ASSUME NEW u \in Users, Removes(u) PROVE Accounts'
  <2>1. Gone \in MemberRecords /\ Gone.role = "member"
    BY DEF Gone, MemberRecords
  <2> QED BY <1>4, <2>1 DEF Accounts, Removes, OneOwner, AdmittedAreNotRemoved
<1> QED BY <1>1, <1>2, <1>3, <1>4 DEF Move

(* Nor does a move delete an account or give ownership unasked.              *)
LEMMA MoveIsAsked ==
  ASSUME Accounts, Move
  PROVE  /\ \A u \in Users :
              member[u].reason # "account_deleted" /\ member'[u].reason = "account_deleted" =>
                Asked(u, "delete_account", NoUser)
         /\ \A u, v \in Users :
              u # v /\ member[u].role = "owner" /\ member'[v].role = "owner" =>
                Asked(u, "transfer_ownership", v)
<1> DEFINE Deleted == \A u \in Users :
      member[u].reason # "account_deleted" /\ member'[u].reason = "account_deleted" =>
        Asked(u, "delete_account", NoUser)
<1> DEFINE Given == \A u, v \in Users :
      u # v /\ member[u].role = "owner" /\ member'[v].role = "owner" =>
        Asked(u, "transfer_ownership", v)
<1> SUFFICES Deleted /\ Given OBVIOUS
<1>1. CASE Rests
  BY <1>1 DEF Accounts, Rests, OneOwner
<1>2. ASSUME NEW u \in Users, NEW r \in MemberRecords, Changes(u, r) PROVE Deleted /\ Given
  BY <1>2 DEF Accounts, Changes, OneOwner
<1>3. ASSUME NEW u \in Users, NEW v \in Users, HandsOver(u, v) PROVE Deleted /\ Given
  <2>1. \A w \in Users : member'[w].reason = member[w].reason
    BY <1>3 DEF Accounts, HandsOver, MemberRecords
  <2>2. \A w \in Users : member'[w].role = "owner" => w = v
    BY <1>3 DEF Accounts, HandsOver, MemberRecords, OneOwner
  <2>3. \A w \in Users : member[w].role = "owner" => w = u
    BY <1>3 DEF Accounts, HandsOver, OneOwner
  <2> QED BY <1>3, <2>1, <2>2, <2>3 DEF HandsOver
<1>4. ASSUME NEW u \in Users, Removes(u) PROVE Deleted /\ Given
  <2>1. Gone.role = "member" /\ Gone.reason = "none"
    BY DEF Gone
  <2> QED BY <1>4, <2>1 DEF Accounts, Removes, OneOwner
<1> QED BY <1>1, <1>2, <1>3, <1>4 DEF Move

(* A confirmation that is carried out was asked for by its member.           *)
LEMMA CarriedOutIsAsked ==
  ASSUME Confirmations, NEW t \in Tabs, tab[t].page = "proof", RequireActive(tab[t].user),
         acted' = acted \cup {tab[t].shown.ch}
  PROVE  /\ tab[t].user \in Users /\ tab[t].shown.to \in Users \cup {NoUser}
         /\ challenge[tab[t].shown.ch] \in ChallengeRecords
         /\ Asked(tab[t].user, challenge[tab[t].shown.ch].action, tab[t].shown.to)
<1>1. tab[t] \in TabRecords /\ tab[t].user # NoUser
  BY DEF Confirmations, Shape, RequireActive
<1>2. tab[t].user \in Users /\ tab[t].shown.to \in Users \cup {NoUser}
  BY <1>1 DEF TabRecords, ShownRecords
<1>3. ShownRight(tab[t].shown) /\ Proven(t)
  BY DEF Confirmations, TabsRight, ProofsRight
<1>4. challenge[tab[t].shown.ch] \in ChallengeRecords
  BY <1>3 DEF Confirmations, Shape, ShownRight
<1> QED BY <1>2, <1>3, <1>4 DEF Asked, ShownRight, Proven

(* Every step moves the accounts in one of those ways.                       *)
LEMMA ActMoves ==
  ASSUME Accounts, Confirmations, NEW t \in Tabs, Act(t) PROVE Move
<1> DEFINE u == tab[t].user
           c == challenge[tab[t].shown.ch]
           Carried == acted' = acted \cup {tab[t].shown.ch}
<1>1. CASE ~RequireActive(u)
  BY <1>1 DEF Act, Move, Rests
<1>2. CASE RequireActive(u)
  <2>1. CarryOut(t) /\ tab[t].page = "proof" /\ removing' = removing
    BY <1>2 DEF Act
  <2>2. \/ member' = member
        \/ c.action = "delete_account" /\ DeleteAccount(u) /\ Carried
        \/ /\ c.action # "delete_account" /\ RequireOwner(u) /\ RequireActive(tab[t].shown.to)
           /\ tab[t].shown.to # u /\ Transfer(u, tab[t].shown.to) /\ Carried
    BY <2>1 DEF CarryOut, Recipient
  <2>3. CASE member' = member
    BY <2>1, <2>3 DEF Move, Rests
  <2>4. CASE c.action = "delete_account" /\ DeleteAccount(u) /\ Carried
    <3>1. u \in Users /\ ShownRight(tab[t].shown) /\ c.to = NoUser
      BY <1>2, <2>1, <2>4, CarriedOutIsAsked
         DEF Confirmations, TabsRight, ShownRight, DeletionsHaveNoRecipient
    <3>2. Asked(u, "delete_account", NoUser)
      BY <1>2, <2>1, <2>4, <3>1, CarriedOutIsAsked DEF ShownRight
    <3>3. member[u] \in MemberRecords /\ member[u].state = "active"
      BY <1>2, <3>1 DEF Accounts, RequireActive
    <3>4. Deleting(u, "account_deleted") \in MemberRecords
      BY <3>3 DEF Deleting, MemberRecords
    <3>5. Changes(u, Deleting(u, "account_deleted"))
      BY <2>1, <2>4, <3>2, <3>3 DEF Changes, DeleteAccount, Deleting
    <3> QED BY <3>1, <3>4, <3>5 DEF Move
  <2>5. CASE /\ c.action # "delete_account" /\ RequireOwner(u) /\ RequireActive(tab[t].shown.to)
             /\ tab[t].shown.to # u /\ Transfer(u, tab[t].shown.to) /\ Carried
    <3> DEFINE v == tab[t].shown.to
    <3>1. u \in Users /\ v \in Users /\ c \in ChallengeRecords /\ Asked(u, c.action, v)
      BY <1>2, <2>1, <2>5, CarriedOutIsAsked DEF RequireActive
    <3>2. c.action = "transfer_ownership"
      BY <2>5, <3>1 DEF ChallengeRecords, Actions
    <3>3. HandsOver(u, v)
      BY <2>1, <2>5, <3>1, <3>2 DEF HandsOver, Transfer, RequireOwner
    <3> QED BY <3>1, <3>3 DEF Move
  <2> QED BY <2>2, <2>3, <2>4, <2>5
<1> QED BY <1>1, <1>2

LEMMA StepMoves ==
  ASSUME Accounts, Confirmations, Next PROVE Move
<1>1. ASSUME NEW t \in Tabs, NEW u \in Users, SignIn(t, u) PROVE Move
  <2>1. CASE member[u].state = "none"
    <3> DEFINE r == [member[u] EXCEPT !.state = "pending"]
    <3>1. member[u] \in MemberRecords
      BY DEF Accounts
    <3>2. r \in MemberRecords /\ r.role = member[u].role /\ r.reason = member[u].reason
      BY <3>1 DEF MemberRecords
    <3>3. member' = [member EXCEPT ![u] = r]
      BY <1>1, <2>1 DEF SignIn
    <3>4. removing' = removing
      BY <1>1 DEF SignIn
    <3>5. Changes(u, r)
      BY <2>1, <3>2, <3>3, <3>4 DEF Changes
    <3> QED BY <3>2, <3>5 DEF Move
  <2>2. CASE member[u].state # "none"
    BY <1>1, <2>2 DEF SignIn, Move, Rests
  <2> QED BY <2>1, <2>2
<1>2. ASSUME NEW t \in Tabs, NEW c \in Codes, RedeemInvite(t, c) PROVE Move
  <2>1. tab[t].user \in Users /\ member[tab[t].user].state = "pending"
    BY <1>2 DEF RedeemInvite, Redeemable, Confirmations, Shape, TabRecords
  <2>2. Active("member") \in MemberRecords
    BY DEF Active, MemberRecords
  <2>3. Changes(tab[t].user, Active("member"))
    BY <1>2, <2>1 DEF RedeemInvite, Changes, Active
  <2> QED BY <2>1, <2>2, <2>3 DEF Move
<1>3. ASSUME NEW t \in Tabs, SignOut(t) \/ OpenConfirm(t) \/ Cancel(t) \/ Verify(t) \/ ActUnheard(t)
      PROVE  Move
  BY <1>3 DEF SignOut, OpenConfirm, Cancel, Verify, ActUnheard, Move, Rests
<1>4. ASSUME NEW t \in Tabs, DeletePending(t) PROVE Move
  <2> DEFINE u == tab[t].user
  <2>1. u \in Users /\ member[u].state = "pending"
    BY <1>4 DEF DeletePending, Confirmations, Shape, TabRecords
  <2>2. member[u] \in MemberRecords
    BY <2>1 DEF Accounts
  <2>3. Deleting(u, "pending") \in MemberRecords
    BY <2>2 DEF Deleting, MemberRecords
  <2>4. Changes(u, Deleting(u, "pending"))
    BY <1>4, <2>1 DEF DeletePending, Changes, Deleting
  <2> QED BY <2>1, <2>3, <2>4 DEF Move
<1>5. ASSUME NEW t \in Tabs, Owner(t) PROVE Move
  <2>1. ASSUME NEW c \in Codes, CreateInvite(t, c) \/ RevokeInvite(t, c) PROVE Move
    BY <2>1 DEF CreateInvite, RevokeInvite, Move, Rests
  <2>2. ASSUME NEW u \in Users, SetSuspension(t, u) PROVE Move
    <3> DEFINE r == [member[u] EXCEPT !.state = IF member[u].state = "active" THEN "suspended" ELSE "active"]
    <3>1. member[u] \in MemberRecords
      BY DEF Accounts
    <3>2. r \in MemberRecords /\ r.role = member[u].role /\ r.reason = member[u].reason
      BY <3>1 DEF MemberRecords
    <3>3. member[u].state \in {"active", "suspended"} /\ removing' = removing
      BY <2>2 DEF SetSuspension
    <3>4. member' = [member EXCEPT ![u] = r]
      BY <2>2 DEF SetSuspension
    <3>5. Changes(u, r)
      BY <3>2, <3>3, <3>4 DEF Changes
    <3> QED BY <3>2, <3>5 DEF Move
  <2> QED BY <1>5, <2>1, <2>2 DEF Owner
<1>6. ASSUME NEW t \in Tabs, NEW action \in Actions, NEW to \in Users \cup {NoUser},
             StartReauth(t, action, to)
      PROVE  Move
  BY <1>6 DEF StartReauth, Move, Rests
<1>7. ASSUME NEW i \in DOMAIN challenge, ExpireChallenge(i) PROVE Move
  BY <1>7 DEF ExpireChallenge, Move, Rests
<1>8. ASSUME NEW u \in Users, BootstrapOwner(u) PROVE Move
  <2>1. Active("owner") \in MemberRecords
    BY DEF Active, MemberRecords
  <2>2. Changes(u, Active("owner"))
    BY <1>8 DEF BootstrapOwner, Changes, Active
  <2> QED BY <2>1, <2>2 DEF Move
<1>9. ASSUME NEW u \in Users, Expire(u) PROVE Move
  <2>1. member[u] \in MemberRecords
    BY DEF Accounts
  <2>2. Deleting(u, "pending") \in MemberRecords
    BY <2>1 DEF Deleting, MemberRecords
  <2>3. Changes(u, Deleting(u, "pending"))
    BY <1>9 DEF Expire, Changes, Deleting
  <2> QED BY <2>2, <2>3 DEF Move
<1>10. ASSUME NEW u \in Users, Reclaim(u) PROVE Move
  BY <1>10 DEF Reclaim, Reclaimable, Move, Rests
<1>11. ASSUME NEW u \in Users, RemoveUser(u) PROVE Move
  BY <1>11 DEF RemoveUser, Move, Rests, Removes
<1> QED
  BY <1>1, <1>2, <1>3, <1>4, <1>5, <1>6, <1>7, <1>8, <1>9, <1>10, <1>11, ActMoves
     DEF Next, Confirmation
-----------------------------------------------------------------------------
(* What a step may do to the confirmations: the challenges are only added    *)
(* to, verified and closed, and a tab keeps what it shows or shows what is   *)
(* pending, without a proof.                                                 *)
Grows ==
  /\ DOMAIN challenge \subseteq DOMAIN challenge'
  /\ \A i \in DOMAIN challenge :
       /\ challenge'[i].user = challenge[i].user /\ challenge'[i].action = challenge[i].action
       /\ challenge'[i].to = challenge[i].to /\ challenge'[i].made = challenge[i].made
       /\ challenge[i].verified => challenge'[i].verified
Keeps(t) == tab'[t] = tab[t] /\ (tab[t].page = "proof" => tab[t].shown.ch \notin acted')
Leaves(t) ==
  /\ tab'[t].page # "proof"
  /\ tab'[t].page # "none" =>
       /\ tab'[t].shown.ch \in DOMAIN challenge'
       /\ challenge'[tab'[t].shown.ch].to = tab'[t].shown.to
Proves(t) ==
  /\ tab[t].page # "proof" /\ tab'[t].page = "proof"
  /\ ShownRight(tab[t].shown) /\ tab'[t].shown = tab[t].shown
  /\ ~challenge[tab[t].shown.ch].verified /\ Proven(t)'

LEMMA ConfirmationsKept ==
  ASSUME Confirmations, Shape', DeletionsHaveNoRecipient', ActedOnce', Grows,
         (pending.ch # 0 => ShownRight(pending))',
         \A t \in Tabs : Keeps(t) \/ Leaves(t) \/ Proves(t),
         \A t, s \in Tabs : Proves(t) /\ Proves(s) => t = s
  PROVE  Confirmations'
<1>1. TabsRight'
  BY DEF Confirmations, TabsRight, ShownRight, Grows, Keeps, Leaves, Proves
<1>2. ProofsRight'
  BY DEF Confirmations, TabsRight, ProofsRight, Proven, ShownRight, Grows, Keeps, Leaves, Proves
<1>3. OneProof'
  BY DEF Confirmations, ProofsRight, Proven, OneProof, Keeps, Leaves, Proves
<1> QED BY <1>1, <1>2, <1>3 DEF Confirmations

(* A tab turns to a page without a proof, if need be because its proof was   *)
(* used.                                                                     *)
LEMMA TabTurns ==
  ASSUME Confirmations, NEW t \in Tabs, NEW r \in TabRecords,
         challenge' = challenge, signIns' \in Nat, pending' = pending \/ pending' = NoPending,
         tab' = [tab EXCEPT ![t] = r], r.page # "proof", r.page # "none" => ShownRight(r.shown),
         acted' = acted \/ (tab[t].page = "proof" /\ acted' = acted \cup {tab[t].shown.ch})
  PROVE  Confirmations'
<1>1. NoPending \in ShownRecords /\ NoPending.ch = 0
  BY DEF NoPending, ShownRecords
<1>2. Shape' /\ (pending.ch # 0 => ShownRight(pending))' /\ DeletionsHaveNoRecipient'
  BY <1>1 DEF Confirmations, Shape, ShownRight, DeletionsHaveNoRecipient
<1>3. ActedOnce'
  BY DEF Confirmations, ActedOnce, TabsRight, ShownRight, ProofsRight, Proven
<1>4. Grows
  BY DEF Grows
<1>5. Leaves(t)
  BY DEF Confirmations, Shape, Leaves, ShownRight
<1>6. ASSUME NEW s \in Tabs, s # t PROVE Keeps(s)
  <2>1. tab'[s] = tab[s]
    BY <1>6 DEF Confirmations, Shape
  <2>2. tab[s].page = "proof" => tab[s].shown.ch \notin acted'
    BY <1>6 DEF Confirmations, ProofsRight, Proven, OneProof
  <2> QED BY <2>1, <2>2 DEF Keeps
<1>7. \A s \in Tabs : ~Proves(s)
  BY <1>5, <1>6 DEF Confirmations, Shape, Proves, Keeps, Leaves
<1> QED BY <1>2, <1>3, <1>4, <1>5, <1>6, <1>7, ConfirmationsKept

(* A step that changes no tab.                                               *)
LEMMA TabsRest ==
  ASSUME Confirmations, Shape', Grows, DeletionsHaveNoRecipient', UNCHANGED <<tab, acted>>,
         (pending.ch # 0 => ShownRight(pending))'
  PROVE  Confirmations'
<1>1. ActedOnce'
  BY DEF Confirmations, ActedOnce, Grows
<1>2. ASSUME NEW t \in Tabs PROVE Keeps(t) /\ ~Proves(t)
  BY DEF Confirmations, ProofsRight, Proven, Keeps, Proves
<1> QED BY <1>1, <1>2, ConfirmationsKept

LEMMA StartKeeps ==
  ASSUME Confirmations, NEW t \in Tabs, NEW action \in Actions, NEW to \in Users \cup {NoUser},
         StartReauth(t, action, to)
  PROVE  Confirmations'
<1> DEFINE r == [user |-> tab[t].user, action |-> action, to |-> to, made |-> signIns,
                 session |-> tab[t].at, verified |-> FALSE, open |-> TRUE]
           n == Len(challenge) + 1
<1>1. tab[t] \in TabRecords /\ tab[t].user # NoUser /\ signIns \in Nat
  BY DEF Confirmations, Shape, StartReauth, RequireActive
<1>2. r \in ChallengeRecords
  BY <1>1 DEF ChallengeRecords, TabRecords
<1>3. challenge \in Seq(ChallengeRecords) /\ challenge' = Append(challenge, r)
  BY DEF Confirmations, Shape, StartReauth
<1>4. /\ challenge' \in Seq(ChallengeRecords) /\ Len(challenge') = n /\ n \in Nat
      /\ DOMAIN challenge = 1..Len(challenge) /\ DOMAIN challenge' = 1..n
      /\ challenge'[n] = r /\ \A i \in DOMAIN challenge : challenge'[i] = challenge[i]
  BY <1>2, <1>3
<1>5. pending' = [ch |-> n, to |-> to] /\ UNCHANGED <<tab, signIns, acted>>
  BY DEF StartReauth
<1>6. Shape'
  BY <1>4, <1>5 DEF Confirmations, Shape, ShownRecords
<1>7. (pending.ch # 0 => ShownRight(pending))'
  BY <1>4, <1>5 DEF ShownRight
<1>8. Grows
  BY <1>4 DEF Grows
<1>9. DeletionsHaveNoRecipient'
  <2>1. action = "delete_account" => to = NoUser
    BY DEF StartReauth
  <2>2. \A i \in DOMAIN challenge' : i \in DOMAIN challenge \/ i = n
    BY <1>4
  <2> QED BY <1>4, <2>1, <2>2 DEF DeletionsHaveNoRecipient, Confirmations
<1> QED BY <1>5, <1>6, <1>7, <1>8, <1>9, TabsRest

(* Challenges are closed: by the clock, or with the account.                 *)
Closed == \A i \in DOMAIN challenge : challenge'[i] \in {challenge[i], [challenge[i] EXCEPT !.open = FALSE]}
LEMMA ClosedGrows ==
  ASSUME Confirmations, DOMAIN challenge' = DOMAIN challenge, Closed, challenge' \in Seq(ChallengeRecords),
         UNCHANGED pending
  PROVE  /\ Grows /\ DeletionsHaveNoRecipient' /\ (pending.ch # 0 => ShownRight(pending))'
<1>1. \A i \in DOMAIN challenge : challenge[i] \in ChallengeRecords
  BY DEF Confirmations, Shape
<1>2. ASSUME NEW i \in DOMAIN challenge
      PROVE  /\ challenge'[i].user = challenge[i].user /\ challenge'[i].action = challenge[i].action
             /\ challenge'[i].to = challenge[i].to /\ challenge'[i].made = challenge[i].made
             /\ challenge'[i].verified = challenge[i].verified
  BY <1>1 DEF Closed, ChallengeRecords
<1>3. Grows
  BY <1>2 DEF Grows
<1> QED BY <1>2, <1>3 DEF Confirmations, DeletionsHaveNoRecipient, ShownRight

LEMMA ExpiryKeeps ==
  ASSUME Confirmations, NEW i \in DOMAIN challenge, ExpireChallenge(i)
  PROVE  Confirmations'
<1>1. /\ challenge' = [challenge EXCEPT ![i].open = FALSE]
      /\ UNCHANGED <<pending, tab, signIns, acted>> /\ challenge \in Seq(ChallengeRecords)
  BY DEF ExpireChallenge, Confirmations, Shape
<1>2. challenge[i] \in ChallengeRecords
  BY <1>1
<1>3. [challenge[i] EXCEPT !.open = FALSE] \in ChallengeRecords
  BY <1>2 DEF ChallengeRecords
<1>4. challenge' \in Seq(ChallengeRecords) /\ DOMAIN challenge' = DOMAIN challenge /\ Closed
  <2>1. challenge' = [challenge EXCEPT ![i] = [challenge[i] EXCEPT !.open = FALSE]]
    BY <1>1
  <2>2. challenge' \in Seq(ChallengeRecords)
    BY <1>1, <1>3, <2>1
  <2>3. DOMAIN challenge' = DOMAIN challenge
    BY <2>1
  <2>4. Closed
    BY <1>1, <2>1 DEF Closed
  <2> QED BY <2>2, <2>3, <2>4
<1>5. Shape'
  BY <1>1, <1>4 DEF Confirmations, Shape
<1> QED BY <1>1, <1>4, <1>5, ClosedGrows, TabsRest

LEMMA IsASeq ==
  ASSUME NEW S, NEW n \in Nat, NEW f \in [1..n -> S] PROVE f \in Seq(S)
OBVIOUS

LEMMA RemovalKeeps ==
  ASSUME Confirmations, NEW u \in Users, RemoveUser(u)
  PROVE  Confirmations'
<1>1. CASE UNCHANGED <<challenge, pending, tab, signIns, acted>>
  BY <1>1 DEF Confirmations, Shape, DeletionsHaveNoRecipient, ActedOnce, ShownRight, TabsRight,
              ProofsRight, Proven, OneProof
<1>2. CASE /\ challenge' = [i \in DOMAIN challenge |->
                              IF challenge[i].user = u THEN [challenge[i] EXCEPT !.open = FALSE] ELSE challenge[i]]
           /\ tab' = [t \in Tabs |-> IF tab[t].user = u THEN SignedOut ELSE tab[t]]
           /\ UNCHANGED <<pending, signIns, acted>>
  <2>1. challenge \in Seq(ChallengeRecords) /\ tab \in [Tabs -> TabRecords]
    BY DEF Confirmations, Shape
  <2>2. /\ \A i \in DOMAIN challenge : challenge[i] \in ChallengeRecords
        /\ DOMAIN challenge = 1..Len(challenge) /\ Len(challenge) \in Nat
    BY <2>1
  <2>3. \A i \in DOMAIN challenge : [challenge[i] EXCEPT !.open = FALSE] \in ChallengeRecords
    BY <2>2 DEF ChallengeRecords
  <2>4. challenge' \in [1..Len(challenge) -> ChallengeRecords] /\ DOMAIN challenge' = DOMAIN challenge
    BY <1>2, <2>2, <2>3
  <2>5. challenge' \in Seq(ChallengeRecords)
    <3>1. PICK f \in [1..Len(challenge) -> ChallengeRecords] : f = challenge'
      BY <2>4
    <3>2. f \in Seq(ChallengeRecords)
      BY <2>2, IsASeq
    <3> QED BY <3>1, <3>2
  <2>6. Closed
    BY <1>2 DEF Closed
  <2>7. SignedOut \in TabRecords /\ SignedOut.page = "none"
    BY DEF SignedOut, NoPending, TabRecords, ShownRecords
  <2>8. Shape'
    BY <1>2, <2>1, <2>5, <2>7 DEF Confirmations, Shape
  <2>9. \A t \in Tabs : (Keeps(t) \/ Leaves(t)) /\ ~Proves(t)
    BY <1>2, <2>7 DEF Confirmations, ProofsRight, Proven, Keeps, Leaves, Proves
  <2>10. Grows /\ DeletionsHaveNoRecipient' /\ (pending.ch # 0 => ShownRight(pending))'
    BY <1>2, <2>4, <2>5, <2>6, ClosedGrows
  <2>11. ActedOnce'
    BY <1>2, <2>10 DEF Confirmations, ActedOnce, Grows
  <2> QED BY <2>8, <2>9, <2>10, <2>11, ConfirmationsKept
<1> QED BY <1>1, <1>2 DEF RemoveUser

(* A page without a proof: a sign-in, a confirmation opened, a refusal.      *)
LEMMA ShowKeeps ==
  ASSUME Confirmations, NEW t \in Tabs, NEW page \in {"none", "failed", "refused"},
         tab[t].page # "none", Shows(t, page),
         UNCHANGED <<challenge, signIns>>, pending' = pending \/ pending' = NoPending,
         acted' = acted \/ (tab[t].page = "proof" /\ acted' = acted \cup {tab[t].shown.ch})
  PROVE  Confirmations'
<1> DEFINE r == [tab[t] EXCEPT !.page = page]
<1>1. tab[t] \in TabRecords /\ signIns' \in Nat /\ ShownRight(tab[t].shown)
  BY DEF Confirmations, Shape, TabsRight
<1>2. r \in TabRecords /\ r.page = page /\ r.shown = tab[t].shown
  BY <1>1 DEF TabRecords
<1>3. tab' = [tab EXCEPT ![t] = r]
  BY DEF Shows
<1> QED BY <1>1, <1>2, <1>3, TabTurns

LEMMA SignedOutKeeps ==
  ASSUME Confirmations, NEW t \in Tabs, tab' = [tab EXCEPT ![t] = SignedOut],
         UNCHANGED <<challenge, signIns>>, pending' = pending \/ pending' = NoPending,
         acted' = acted \/ (tab[t].page = "proof" /\ acted' = acted \cup {tab[t].shown.ch})
  PROVE  Confirmations'
<1>1. SignedOut \in TabRecords /\ SignedOut.page = "none" /\ signIns' \in Nat
  BY DEF SignedOut, NoPending, TabRecords, ShownRecords, Confirmations, Shape
<1> QED BY <1>1, TabTurns

LEMMA WaitingRight ==
  ASSUME Confirmations
  PROVE  Waiting \in ShownRecords /\ (Waiting # NoPending => ShownRight(Waiting))
<1>1. NoPending \in ShownRecords
  BY DEF NoPending, ShownRecords
<1> QED BY <1>1 DEF Waiting, Confirmations, Shape

LEMMA SignInKeeps ==
  ASSUME Confirmations, NEW t \in Tabs, NEW u \in Users, SignIn(t, u)
  PROVE  Confirmations'
<1>1. /\ signIns \in Nat /\ signIns' = signIns + 1 /\ tab' = [tab EXCEPT ![t] = Landing(u)]
      /\ UNCHANGED <<challenge, pending, acted>>
  BY DEF Confirmations, Shape, SignIn
<1>2. /\ Landing(u) \in TabRecords /\ Landing(u).page # "proof"
      /\ Landing(u).page # "none" => ShownRight(Landing(u).shown)
  BY <1>1, WaitingRight DEF Landing, TabRecords
<1>3. PICK r \in TabRecords : r = Landing(u)
  BY <1>2
<1>4. signIns' \in Nat
  BY <1>1
<1> QED BY <1>1, <1>2, <1>3, <1>4, TabTurns

LEMMA OpenKeeps ==
  ASSUME Confirmations, NEW t \in Tabs, OpenConfirm(t) \/ Cancel(t)
  PROVE  Confirmations'
<1>1. tab[t] \in TabRecords /\ signIns \in Nat
  BY DEF Confirmations, Shape
<1>2. CASE OpenConfirm(t)
  <2> DEFINE r == [tab[t] EXCEPT !.page = "confirm", !.shown = Waiting]
  <2>1. r \in TabRecords /\ r.page = "confirm" /\ r.shown = Waiting
    BY <1>1, WaitingRight DEF TabRecords
  <2>2. tab' = [tab EXCEPT ![t] = r] /\ UNCHANGED <<challenge, pending, acted, signIns>> /\ ShownRight(Waiting)
    BY <1>2, WaitingRight DEF OpenConfirm
  <2> QED BY <1>1, <2>1, <2>2, TabTurns
<1>3. CASE Cancel(t)
  <2> DEFINE r == [tab[t] EXCEPT !.page = "none", !.shown = NoPending]
  <2>1. r \in TabRecords /\ r.page = "none"
    BY <1>1 DEF TabRecords, NoPending, ShownRecords
  <2>2. tab' = [tab EXCEPT ![t] = r] /\ UNCHANGED <<challenge, acted, signIns>> /\ pending' = NoPending
    BY <1>3 DEF Cancel
  <2> QED BY <1>1, <2>1, <2>2, TabTurns
<1> QED BY <1>2, <1>3

(* A proof is given for a challenge that had none.                           *)
LEMMA VerifyKeeps ==
  ASSUME Confirmations, NEW t \in Tabs, Verify(t)
  PROVE  Confirmations'
<1> DEFINE i == tab[t].shown.ch
           Verified == challenge' = [challenge EXCEPT ![i].verified = TRUE]
<1>1. tab[t].page \in {"confirm", "failed"} /\ UNCHANGED <<signIns, acted>>
  BY DEF Verify
<1>2. CASE UNCHANGED challenge /\ (Failed(t) \/ Refused(t))
  <2>1. PICK page \in {"none", "failed", "refused"} : Shows(t, page)
    BY <1>2 DEF Failed, Refused
  <2> QED BY <1>1, <1>2, <2>1, ShowKeeps DEF Failed, Refused
<1>3. CASE Verifiable(tab[t], challenge[i]) /\ Verified /\ UNCHANGED pending /\ (Shows(t, "proof") \/ Shows(t, "failed"))
  <2>1. /\ i \in DOMAIN challenge /\ ShownRight(tab[t].shown) /\ challenge \in Seq(ChallengeRecords)
        /\ tab \in [Tabs -> TabRecords]
    BY <1>1 DEF Confirmations, Shape, TabsRight, ShownRight
  <2>2. challenge[i] \in ChallengeRecords
    BY <2>1
  <2>3. /\ [challenge[i] EXCEPT !.verified = TRUE] \in ChallengeRecords
        /\ challenge' = [challenge EXCEPT ![i] = [challenge[i] EXCEPT !.verified = TRUE]]
    BY <1>3, <2>2 DEF ChallengeRecords
  <2>4. challenge' \in Seq(ChallengeRecords)
    BY <2>1, <2>3
  <2>5. DOMAIN challenge' = DOMAIN challenge
    BY <2>3
  <2>6. /\ \A j \in DOMAIN challenge : j # i => challenge'[j] = challenge[j]
        /\ challenge'[i].user = challenge[i].user /\ challenge'[i].action = challenge[i].action
        /\ challenge'[i].to = challenge[i].to /\ challenge'[i].made = challenge[i].made
        /\ challenge'[i].verified
    BY <2>1, <2>2, <2>3 DEF ChallengeRecords
  <2>7. Grows
    BY <2>5, <2>6 DEF Grows
  <2>8. PICK page \in {"proof", "failed"} : tab' = [tab EXCEPT ![t].page = page]
    BY <1>3 DEF Shows
  <2>9. /\ tab' \in [Tabs -> TabRecords] /\ tab'[t].page = page /\ tab'[t].shown = tab[t].shown
        /\ tab'[t].user = tab[t].user /\ tab'[t].at = tab[t].at
        /\ \A s \in Tabs : s # t => tab'[s] = tab[s]
    BY <2>1, <2>8 DEF TabRecords
  <2>10. Shape'
    BY <1>1, <1>3, <2>4, <2>9 DEF Confirmations, Shape
  <2>11. DeletionsHaveNoRecipient' /\ (pending.ch # 0 => ShownRight(pending))'
    BY <1>3, <2>5, <2>7 DEF Grows, Confirmations, DeletionsHaveNoRecipient, ShownRight
  <2>12. ActedOnce'
    BY <1>1, <2>7 DEF Grows, Confirmations, ActedOnce
  <2>13. /\ ~challenge[i].verified /\ challenge[i].user = tab[t].user
         /\ tab[t].at > challenge[i].made /\ i \notin acted
    BY <1>3 DEF Verifiable, Fresh, Confirmations, ActedOnce
  <2>14. Proves(t) \/ Leaves(t)
    <3>1. CASE page = "proof"
      BY <1>1, <2>1, <2>6, <2>9, <2>13, <3>1 DEF Proves, Proven
    <3>2. CASE page = "failed"
      BY <2>1, <2>5, <2>6, <2>9, <3>2 DEF Leaves, ShownRight
    <3> QED BY <3>1, <3>2
  <2>15. \A s \in Tabs : s # t => Keeps(s) /\ ~Proves(s)
    BY <1>1, <2>9 DEF Keeps, Proves, Confirmations, ProofsRight, Proven
  <2> QED BY <2>7, <2>10, <2>11, <2>12, <2>14, <2>15, ConfirmationsKept
<1> QED BY <1>2, <1>3 DEF Verify, Failed

LEMMA ActKeeps ==
  ASSUME Confirmations, NEW t \in Tabs, Act(t) \/ ActUnheard(t)
  PROVE  Confirmations'
<1>1. tab[t].page = "proof" /\ UNCHANGED <<challenge, signIns>>
  BY DEF Act, ActUnheard
<1>2. acted' = acted \/ acted' = acted \cup {tab[t].shown.ch}
  BY DEF Act, ActUnheard, CarryOut
<1>3. \/ Failed(t) \/ Refused(t) \/ (Shows(t, "none") /\ pending' = NoPending)
      \/ tab' = [tab EXCEPT ![t] = SignedOut] /\ pending' = NoPending
  BY DEF Act, ActUnheard, CarryOut
<1>4. CASE tab' = [tab EXCEPT ![t] = SignedOut] /\ pending' = NoPending
  BY <1>1, <1>2, <1>4, SignedOutKeeps
<1>5. CASE Failed(t) \/ Refused(t) \/ (Shows(t, "none") /\ pending' = NoPending)
  <2>1. PICK page \in {"none", "failed", "refused"} : Shows(t, page)
    BY <1>5 DEF Failed, Refused
  <2> QED BY <1>1, <1>2, <1>5, <2>1, ShowKeeps DEF Failed, Refused
<1> QED BY <1>3, <1>4, <1>5

(* Every other step leaves the confirmations alone.                          *)
LEMMA StillKeeps ==
  ASSUME Confirmations, UNCHANGED <<challenge, pending, tab, signIns, acted>>
  PROVE  Confirmations'
BY DEF Confirmations, Shape, DeletionsHaveNoRecipient, ActedOnce, ShownRight, TabsRight,
       ProofsRight, Proven, OneProof

LEMMA StepKeeps ==
  ASSUME Confirmations, Next PROVE Confirmations'
<1>1. ASSUME NEW t \in Tabs, NEW u \in Users, SignIn(t, u) PROVE Confirmations'
  BY <1>1, SignInKeeps
<1>2. ASSUME NEW t \in Tabs, (\E c \in Codes : RedeemInvite(t, c)) \/ DeletePending(t) \/ Owner(t)
      PROVE  Confirmations'
  BY <1>2, StillKeeps DEF RedeemInvite, DeletePending, Owner, CreateInvite, RevokeInvite, SetSuspension
<1>3. ASSUME NEW t \in Tabs, SignOut(t) PROVE Confirmations'
  BY <1>3, SignedOutKeeps DEF SignOut
<1>4. ASSUME NEW t \in Tabs, Confirmation(t) PROVE Confirmations'
  BY <1>4, StartKeeps, OpenKeeps, VerifyKeeps, ActKeeps DEF Confirmation
<1>5. ASSUME NEW i \in DOMAIN challenge, ExpireChallenge(i) PROVE Confirmations'
  BY <1>5, ExpiryKeeps
<1>6. ASSUME NEW u \in Users, BootstrapOwner(u) \/ Expire(u) \/ Reclaim(u) PROVE Confirmations'
  BY <1>6, StillKeeps DEF BootstrapOwner, Expire, Reclaim
<1>7. ASSUME NEW u \in Users, RemoveUser(u) PROVE Confirmations'
  BY <1>7, RemovalKeeps
<1> QED BY <1>1, <1>2, <1>3, <1>4, <1>5, <1>6, <1>7 DEF Next

-----------------------------------------------------------------------------
(* Both hold at the start, and so for ever.                                  *)
LEMMA StartsRight == Init => Accounts /\ Confirmations
<1> SUFFICES ASSUME Init PROVE Accounts /\ Confirmations
  OBVIOUS
<1>1. Gone \in MemberRecords /\ \A r \in {"owner", "member"} : Active(r) \in MemberRecords
  BY DEF Gone, Active, MemberRecords
<1>2. member \in [Users -> MemberRecords] /\ \A u \in Users : member[u].role = "owner" => u = Founder
  BY <1>1 DEF Init, Active, Gone
<1>3. Accounts
  BY <1>2 DEF Init, Accounts, OneOwner, AdmittedAreNotRemoved
<1>4. NoPending \in ShownRecords /\ NoPending.ch = 0 /\ SignedOut \in TabRecords /\ SignedOut.page = "none"
  BY DEF NoPending, ShownRecords, SignedOut, TabRecords
<1>5. Shape
  BY <1>4 DEF Init, Shape
<1>6. \A t \in Tabs : tab[t] = SignedOut
  BY DEF Init
<1>7. DOMAIN challenge = {} /\ acted = {} /\ pending.ch = 0
  BY <1>4 DEF Init
<1> QED
  BY <1>3, <1>4, <1>5, <1>6, <1>7
     DEF Confirmations, DeletionsHaveNoRecipient, ActedOnce, TabsRight, ProofsRight, OneProof

LEMMA Stutters ==
  ASSUME Accounts, Confirmations, UNCHANGED vars PROVE Accounts' /\ Confirmations'
BY StillKeeps DEF vars, Accounts, OneOwner, AdmittedAreNotRemoved

LEMMA AlwaysRight == Spec => [](Accounts /\ Confirmations)
<1>1. Accounts /\ Confirmations /\ [Next]_vars => (Accounts /\ Confirmations)'
  BY StepMoves, MoveKeepsAccounts, StepKeeps, Stutters
<1> QED BY StartsRight, <1>1, PTL DEF Spec

(* Nobody who is admitted is removed from Auth: an account is claimed for    *)
(* removal only while it is being deleted, which no redemption, suspension,  *)
(* transfer or sign-in undoes.                                               *)
(*               [svc_redeem_invite, svc_claim_pending_account_cleanup]      *)
THEOREM AdmittedStay == Spec => []AdmittedAreNotRemoved
<1>1. Accounts => AdmittedAreNotRemoved
  BY DEF Accounts
<1> QED BY AlwaysRight, <1>1, PTL

(* No step deletes an account or gives ownership away but one that carries   *)
(* out a confirmation of that member, for that action and recipient, in a    *)
(* session of theirs that is younger than the confirmation; whichever tabs   *)
(* share it.                   [svc_verify_reauth_challenge, ConfirmAction]  *)
THEOREM NothingUnasked == Spec => OnlyFreshlyAsked
<1> DEFINE Kept ==
      /\ \A u \in Users :
           member[u].reason # "account_deleted" /\ member'[u].reason = "account_deleted" =>
             Asked(u, "delete_account", NoUser)
      /\ \A u, v \in Users :
           u # v /\ member[u].role = "owner" /\ member'[v].role = "owner" =>
             Asked(u, "transfer_ownership", v)
<1>1. Accounts /\ Confirmations /\ [Next]_vars => [Kept]_vars
  BY StepMoves, MoveIsAsked
<1>2. [][Kept]_vars => OnlyFreshlyAsked
  BY PTL DEF OnlyFreshlyAsked
<1> QED BY AlwaysRight, <1>1, <1>2, PTL DEF Spec
-----------------------------------------------------------------------------
(* Gathering photos (GatherPhotos): the photos listed and how they are       *)
(* marked, the request that is kept to be sent again, and what the server    *)
(* has made of the requests before it.                                       *)
GatherBounds(g) ==
  /\ g.mode \in {"gather", "label", "replace"} /\ g.files \in Nat \ {0}
  /\ g.keys \in Nat /\ g.faults \in Nat

(* The module's count is the count of sets.                                  *)
LEMMA GatherCounts ==
  ASSUME NEW g, NEW S PROVE Gathering(g)!Cardinality(S) = Cardinality(S)
BY DEF Gathering!Cardinality, Cardinality

FileKinds == {"garment", "group", "label"}
FileRecords ==
  [photo : Both, purpose : {"garment", "grouped", "care_label", "replacement"},
   label_for : Both \cup {"none"}, target : BOOLEAN]
GatherTyped(g) ==
  /\ unusable \subseteq selected /\ selected \subseteq Both
  /\ kind \in [Both -> FileKinds] /\ labelFor \in [Both -> Both \cup {"none"}]
  /\ request \in [key : 0..g.keys, files : SUBSET FileRecords]
  /\ create \in [at : {"idle", "sent", "created", "error"}, key : 0..g.keys, files : SUBSET FileRecords]
  /\ keys \in 0..g.keys /\ batch \in [1..g.keys -> SUBSET FileRecords]
  /\ started \in [Both -> SUBSET (1..g.keys)] /\ losses \in 0..g.faults
  /\ refused \in BOOLEAN

(* The list is as long as it may be; a care label with a garment has one     *)
(* that is listed.                                                           *)
ListRight(g) ==
  /\ IsFiniteSet(selected) /\ Cardinality(selected) <= Gathering(g)!Limit
  /\ g.mode = "label" => \A p \in selected : kind[p] = "label"
  /\ \A p \in Both : labelFor[p] # "none" =>
       p \in Gathering(g)!Usable /\ kind[p] = "label" /\ labelFor[p] \in Gathering(g)!Garments

(* The request under way is the one that is kept, which is acceptable and    *)
(* the last that was made: the server has its files for the key, or nothing. *)
RequestRight(g) ==
  /\ request.key \in {0, keys}
  /\ request.key # 0 => Gathering(g)!Acceptable(request.files) /\ batch[request.key] \in {{}, request.files}
  /\ IF create.at = "idle" THEN create.key = 0 /\ create.files = {}
     ELSE create.key = request.key /\ create.files = request.files /\ request.key # 0
  /\ create.at = "created" => batch[create.key] = create.files

(* With no request kept, no listed photo was sent; a request kept is not for *)
(* the files of the batch before it.                                         *)
BatchesRight(g) ==
  /\ \A k \in 1..g.keys : batch[k] # {} => k <= keys
  /\ request.key = 0 => \A k \in 1..g.keys : \A f \in batch[k] : f.photo \notin selected
  /\ request.key > 1 => batch[request.key - 1] # request.files
  /\ Gathering(g)!NoSecondBatch

(* A photo handed to the upload manager is in a batch, and no longer listed. *)
HandedRight(g) ==
  \A p \in Both : started[p] # {} =>
    /\ p \notin selected
    /\ \E k \in 1..g.keys : started[p] = {k} /\ \E f \in batch[k] : f.photo = p

GatherInv(g) ==
  /\ GatherTyped(g) /\ ListRight(g) /\ RequestRight(g) /\ BatchesRight(g) /\ HandedRight(g)
  /\ Gathering(g)!NeverRefused

LEMMA GatherStarts ==
  ASSUME NEW g, GatherBounds(g), Gathering(g)!Init PROVE GatherInv(g)
<1> USE DEF GatherBounds, Gathering!Init, Gathering!None
<1>1. GatherTyped(g)
  <2>1. 0 \in 0..g.keys /\ 0 \in 0..g.faults
    OBVIOUS
  <2> QED BY <2>1 DEF GatherTyped, FileKinds
<1>2. ListRight(g)
  BY FS_EmptySet DEF ListRight, Gathering!Limit
<1>3. RequestRight(g) /\ BatchesRight(g) /\ HandedRight(g) /\ Gathering(g)!NeverRefused
  <2>1. \A k \in 1..g.keys - 1 : k \in 1..g.keys
    OBVIOUS
  <2> QED BY <2>1 DEF RequestRight, BatchesRight, HandedRight, Gathering!NeverRefused, Gathering!NoSecondBatch
<1> QED BY <1>1, <1>2, <1>3 DEF GatherInv

LEMMA GatherGives ==
  ASSUME NEW g, GatherBounds(g), GatherInv(g) PROVE Gathered(g)
<1>1. Gathering(g)!TypeOK
  <2> USE DEF GatherInv, GatherTyped, Gathering!None
  <2>1. /\ unusable \subseteq selected /\ selected \subseteq Both /\ kind \in [Both -> Gathering(g)!Kinds]
        /\ labelFor \in [Both -> Both \cup {"none"}]
    BY DEF FileKinds, Gathering!Kinds
  <2>2. \A p \in Both : labelFor[p] # "none" =>
          p \in Gathering(g)!Usable /\ labelFor[p] \in Gathering(g)!Garments
    BY DEF ListRight
  <2>3. FileRecords = Gathering(g)!Files
    BY DEF FileRecords, Gathering!Files, Gathering!Purposes
  <2>4. /\ request.key \in 0..g.keys /\ request.files \in SUBSET FileRecords
        /\ create.at \in {"idle", "sent", "created", "error"} /\ create.key \in 0..g.keys
        /\ create.files \subseteq FileRecords
    OBVIOUS
  <2>5. refused \in BOOLEAN
    OBVIOUS
  <2>6. \A k \in 1..g.keys : batch[k] \subseteq FileRecords
    OBVIOUS
  <2> QED BY <2>1, <2>2, <2>3, <2>4, <2>5, <2>6 DEF Gathering!TypeOK
<1>2. Gathering(g)!PhotoSentOnce
  <2> SUFFICES ASSUME NEW p \in Both PROVE Cardinality(started[p]) <= 1
    BY GatherCounts DEF Gathering!PhotoSentOnce
  <2>1. started[p] = {} \/ \E k : started[p] = {k}
    BY DEF GatherInv, HandedRight
  <2>2. CASE started[p] = {}
    BY <2>2, FS_EmptySet
  <2>3. CASE \E k : started[p] = {k}
    <3>1. Cardinality(started[p]) = 1
      BY <2>3, FS_Singleton, Zenon
    <3> QED BY <3>1
  <2> QED BY <2>1, <2>2, <2>3
<1> QED BY <1>1, <1>2 DEF GatherInv, BatchesRight, Gathered

(* What was sent, as long as neither the requests nor the batches change.    *)
LEMMA RequestsRest ==
  ASSUME NEW g, GatherBounds(g), GatherInv(g), UNCHANGED <<request, create, keys, batch>>,
         \A p \in selected' \ selected : Gathering(g)!Fresh(p)
  PROVE  RequestRight(g)' /\ BatchesRight(g)'
<1>1. RequestRight(g)'
  BY DEF GatherInv, RequestRight, Gathering!Acceptable, Gathering!None
<1>2. BatchesRight(g)'
  BY DEF GatherInv, BatchesRight, Gathering!NoSecondBatch, Gathering!Fresh
<1> QED BY <1>1, <1>2

LEMMA HandedRest ==
  ASSUME NEW g, GatherBounds(g), GatherInv(g), UNCHANGED <<batch, started>>,
         \A p \in selected' \ selected : Gathering(g)!Fresh(p)
  PROVE  HandedRight(g)'
BY DEF GatherInv, HandedRight, Gathering!Fresh

LEMMA AddKeeps ==
  ASSUME NEW g, GatherBounds(g), GatherInv(g), NEW p \in Both, Gathering(g)!Add(p) PROVE GatherInv(g)'
<1> USE DEF Gathering!Add
<1>1. \A q \in selected' \ selected : Gathering(g)!Fresh(q)
  OBVIOUS
<1>2. RequestRight(g)' /\ BatchesRight(g)' /\ HandedRight(g)'
  BY <1>1, RequestsRest, HandedRest
<1>3. GatherTyped(g)'
  BY DEF GatherInv, GatherTyped, FileKinds
<1>4. ListRight(g)'
  <2>1. IsFiniteSet(selected) /\ Cardinality(selected) < Gathering(g)!Limit
    BY GatherCounts DEF GatherInv, ListRight
  <2>2. IsFiniteSet(selected') /\ Cardinality(selected') <= Gathering(g)!Limit'
    <3>1. Cardinality(selected) \in Nat /\ Gathering(g)!Limit \in Nat /\ Gathering(g)!Limit' = Gathering(g)!Limit
      BY <2>1, FS_CardinalityType DEF Gathering!Limit, GatherBounds
    <3>2. IsFiniteSet(selected') /\ Cardinality(selected') = Cardinality(selected) + 1
      BY <2>1, FS_AddElement
    <3> QED BY <2>1, <3>1, <3>2
  <2>3. g.mode = "label" => \A q \in selected' : kind'[q] = "label"
    BY DEF GatherInv, GatherTyped, ListRight
  <2>4. \A q \in Both : labelFor'[q] # "none" =>
          p # q /\ p # labelFor[q] /\ q \in Gathering(g)!Usable' /\ kind'[q] = "label"
          /\ labelFor'[q] \in Gathering(g)!Garments'
    BY DEF GatherInv, GatherTyped, ListRight, Gathering!Usable, Gathering!Garments
  <2> QED BY <2>2, <2>3, <2>4 DEF ListRight
<1> QED BY <1>2, <1>3, <1>4 DEF GatherInv, Gathering!NeverRefused

(* The marks change, or a photo leaves the list: a label without its garment *)
(* is given none.                                                            *)
LEMMA MarksKeep ==
  ASSUME NEW g, GatherBounds(g), GatherInv(g), NEW p \in Both,
         \/ \E k \in FileKinds : Gathering(g)!SetKind(p, k)
         \/ \E h \in Both : Gathering(g)!SetLabelFor(p, h)
         \/ Gathering(g)!Remove(p)
  PROVE  GatherInv(g)'
<1> USE DEF Gathering!SetKind, Gathering!SetLabelFor, Gathering!Remove, Gathering!Unlabeled, Gathering!None
<1>1. UNCHANGED <<request, create, keys, batch, refused, started, losses>> /\ selected' \subseteq selected
  OBVIOUS
<1>2. RequestRight(g)' /\ BatchesRight(g)' /\ HandedRight(g)'
  BY <1>1, RequestsRest, HandedRest
<1>3. GatherTyped(g)'
  <2>1. unusable' \subseteq selected' /\ selected' \subseteq Both
    BY DEF GatherInv, GatherTyped
  <2>2. kind' \in [Both -> FileKinds]
    BY DEF GatherInv, GatherTyped
  <2>3. labelFor' \in [Both -> Both \cup {"none"}]
    BY DEF GatherInv, GatherTyped
  <2> QED BY <1>1, <2>1, <2>2, <2>3 DEF GatherInv, GatherTyped
<1>4. ListRight(g)'
  <2>1. IsFiniteSet(selected') /\ Cardinality(selected') <= Gathering(g)!Limit'
    <3>1. IsFiniteSet(selected) /\ Cardinality(selected) <= Gathering(g)!Limit
      BY DEF GatherInv, ListRight
    <3>2. Cardinality(selected) \in Nat /\ Gathering(g)!Limit \in Nat /\ Gathering(g)!Limit' = Gathering(g)!Limit
      BY <3>1, FS_CardinalityType DEF Gathering!Limit, GatherBounds
    <3>3. IsFiniteSet(selected') /\ Cardinality(selected') <= Cardinality(selected) /\ Cardinality(selected') \in Nat
      BY <1>1, <3>1, FS_Subset, FS_CardinalityType
    <3> QED BY <3>1, <3>2, <3>3
  <2>2. g.mode = "label" => \A q \in selected' : kind'[q] = "label"
    BY DEF GatherInv, ListRight, Gathering!Targeted
  <2>3. ASSUME NEW q \in Both, labelFor'[q] # "none"
        PROVE  q \in Gathering(g)!Usable' /\ kind'[q] = "label" /\ labelFor'[q] \in Gathering(g)!Garments'
    <3> USE DEF GatherInv, GatherTyped, ListRight, Gathering!Usable, Gathering!Garments
    <3>1. CASE \E k \in FileKinds : Gathering(g)!SetKind(p, k)
      BY <2>3, <3>1
    <3>2. CASE \E h \in Both : Gathering(g)!SetLabelFor(p, h)
      BY <2>3, <3>2
    <3>3. CASE Gathering(g)!Remove(p)
      BY <2>3, <3>3
    <3> QED BY <3>1, <3>2, <3>3
  <2> QED BY <2>1, <2>2, <2>3 DEF ListRight
<1> QED BY <1>1, <1>2, <1>3, <1>4 DEF GatherInv, Gathering!NeverRefused

(* What is sent is acceptable: as many files as may be listed, each for what *)
(* it was opened for, each label with its garment.                           *)
LEMMA SentIsAcceptable ==
  ASSUME NEW g, GatherBounds(g), GatherInv(g), Gathering(g)!Usable # {}, Gathering(g)!Unassigned = {}
  PROVE  /\ {Gathering(g)!Described(p) : p \in Gathering(g)!Usable} \in SUBSET FileRecords
         /\ Gathering(g)!Acceptable({Gathering(g)!Described(p) : p \in Gathering(g)!Usable})
<1> DEFINE D == {Gathering(g)!Described(p) : p \in Gathering(g)!Usable}
<1> USE DEF Gathering!None, Gathering!Targeted
<1>1. Gathering(g)!Usable \subseteq selected /\ selected \subseteq Both
  BY DEF GatherInv, GatherTyped, Gathering!Usable
<1>2. \A p \in Both : kind[p] \in FileKinds /\ labelFor[p] \in Both \cup {"none"}
  BY DEF GatherInv, GatherTyped
<1>3. \A p \in Both : Gathering(g)!Purpose(p) \in {"garment", "grouped", "care_label", "replacement"}
  BY <1>2 DEF Gathering!Purpose, FileKinds
<1>4. \A p \in Both : Gathering(g)!Described(p) \in FileRecords
  BY <1>2, <1>3 DEF Gathering!Described, FileRecords
<1>5. IsFiniteSet(D) /\ Cardinality(D) <= g.files
  <2>1. /\ IsFiniteSet(selected) /\ Cardinality(selected) <= g.files /\ g.files \in Nat
        /\ Cardinality(selected) \in Nat
    <3>1. IsFiniteSet(selected) /\ Cardinality(selected) <= Gathering(g)!Limit
      BY DEF GatherInv, ListRight
    <3>2. Cardinality(selected) \in Nat
      BY <3>1, FS_CardinalityType
    <3> QED BY <3>1, <3>2 DEF Gathering!Limit, GatherBounds
  <2>2. /\ IsFiniteSet(Gathering(g)!Usable) /\ Cardinality(Gathering(g)!Usable) <= Cardinality(selected)
        /\ Cardinality(Gathering(g)!Usable) \in Nat
    BY <1>1, <2>1, FS_Subset, FS_CardinalityType
  <2> DEFINE f == [p \in Gathering(g)!Usable |-> Gathering(g)!Described(p)]
  <2>3. f \in Surjection(Gathering(g)!Usable, D)
    BY DEF Surjection
  <2> HIDE DEF f
  <2>4. IsFiniteSet(D) /\ Cardinality(D) <= Cardinality(Gathering(g)!Usable)
    BY <2>2, <2>3, FS_Surjection
  <2>5. Cardinality(D) \in Nat
    BY <2>4, FS_CardinalityType
  <2> QED BY <2>1, <2>2, <2>4, <2>5
<1>6. \A p \in Gathering(g)!Usable : Gathering(g)!Described(p).purpose = "care_label" =>
        /\ kind[p] = "label"
        /\ (Gathering(g)!Described(p).label_for # "none") # Gathering(g)!Described(p).target
        /\ Gathering(g)!Described(p).label_for # "none" =>
             \E q \in Gathering(g)!Usable : /\ Gathering(g)!Described(q).photo = Gathering(g)!Described(p).label_for
                                            /\ Gathering(g)!Described(q).purpose = "garment"
  <2> SUFFICES ASSUME NEW p \in Gathering(g)!Usable, Gathering(g)!Described(p).purpose = "care_label"
               PROVE  /\ kind[p] = "label"
                      /\ (Gathering(g)!Described(p).label_for # "none") # Gathering(g)!Described(p).target
                      /\ Gathering(g)!Described(p).label_for # "none" =>
                           \E q \in Gathering(g)!Usable :
                             /\ Gathering(g)!Described(q).photo = Gathering(g)!Described(p).label_for
                             /\ Gathering(g)!Described(q).purpose = "garment"
    OBVIOUS
  <2>1. kind[p] = "label" /\ g.mode # "replace"
    BY <1>1, <1>2 DEF Gathering!Described, Gathering!Purpose, FileKinds
  <2>2. CASE g.mode # "gather"
    BY <2>1, <2>2 DEF Gathering!Described
  <2>3. CASE g.mode = "gather"
    <3>1. labelFor[p] \in Gathering(g)!Garments
      BY <2>1, <2>3 DEF Gathering!Unassigned
    <3>2. labelFor[p] \in Both /\ labelFor[p] # "none" /\ labelFor[p] \in Gathering(g)!Usable /\ kind[labelFor[p]] = "garment"
      BY <1>1, <3>1, BrowserAssumption DEF Gathering!Garments, Both
    <3>3. Gathering(g)!Described(p).label_for = labelFor[p] /\ Gathering(g)!Described(p).target = FALSE
      BY <2>1, <2>3 DEF Gathering!Described
    <3>4. Gathering(g)!Described(labelFor[p]).photo = labelFor[p]
          /\ Gathering(g)!Described(labelFor[p]).purpose = "garment"
      BY <2>3, <3>2 DEF Gathering!Described, Gathering!Purpose
    <3> QED BY <2>1, <3>2, <3>3, <3>4
  <2> QED BY <2>2, <2>3
<1>7. \A p \in Gathering(g)!Usable :
        /\ Gathering(g)!Described(p).purpose = "replacement" =>
             Gathering(g)!Described(p).target /\ Gathering(g)!Described(p).label_for = "none"
        /\ Gathering(g)!Described(p).purpose \in {"garment", "grouped"} =>
             ~Gathering(g)!Described(p).target /\ Gathering(g)!Described(p).label_for = "none"
  <2> SUFFICES ASSUME NEW p \in Gathering(g)!Usable
      PROVE
        /\ Gathering(g)!Described(p).purpose = "replacement" =>
             Gathering(g)!Described(p).target /\ Gathering(g)!Described(p).label_for = "none"
        /\ Gathering(g)!Described(p).purpose \in {"garment", "grouped"} =>
             ~Gathering(g)!Described(p).target /\ Gathering(g)!Described(p).label_for = "none"
    OBVIOUS
  <2>1. kind[p] \in FileKinds /\ (g.mode = "label" => kind[p] = "label")
    BY <1>1, <1>2 DEF GatherInv, ListRight
  <2>2. CASE g.mode = "replace"
    BY <2>2 DEF Gathering!Described, Gathering!Purpose
  <2>3. CASE g.mode # "replace"
    BY <2>1, <2>3 DEF Gathering!Described, Gathering!Purpose, FileKinds, GatherBounds
  <2> QED BY <2>2, <2>3
<1>8. D # {} /\ D \in SUBSET FileRecords
  BY <1>1, <1>4
<1>9. Gathering(g)!Acceptable(D)
  <2>1. \A f \in D : \E p \in Gathering(g)!Usable : f = Gathering(g)!Described(p)
    OBVIOUS
  <2>2. \A p \in Gathering(g)!Usable : Gathering(g)!Described(p) \in D
    OBVIOUS
  <2> HIDE DEF D
  <2>3. ASSUME NEW f \in D
        PROVE  CASE f.purpose = "care_label" ->
                 /\ (f.label_for # "none") # f.target
                 /\ f.label_for # "none" => \E h \in D : h.photo = f.label_for /\ h.purpose = "garment"
               [] f.purpose = "replacement" -> f.target /\ f.label_for = "none"
               [] OTHER -> f.label_for = "none" /\ ~f.target
    <3>1. PICK p \in Gathering(g)!Usable : f = Gathering(g)!Described(p)
      BY <2>1
    <3>2. CASE f.purpose = "care_label"
      BY <1>6, <2>2, <3>1, <3>2
    <3>3. CASE f.purpose = "replacement"
      BY <1>7, <3>1, <3>3
    <3>4. CASE f.purpose \in {"garment", "grouped"}
      BY <1>7, <3>1, <3>4
    <3>5. f.purpose \in {"garment", "grouped", "care_label", "replacement"}
      BY <1>8 DEF FileRecords
    <3> QED BY <3>2, <3>3, <3>4, <3>5
  <2>4. Gathering(g)!Cardinality(D) <= g.files
    BY <1>5, GatherCounts
  <2> QED BY <1>8, <2>3, <2>4 DEF Gathering!Acceptable
<1> QED BY <1>8, <1>9

(* The key is kept for the files of the request kept; a new one is made for  *)
(* files that are not those of the batch before it.                          *)
LEMMA PressKeeps ==
  ASSUME NEW g, GatherBounds(g), GatherInv(g), Gathering(g)!Start PROVE GatherInv(g)'
<1> DEFINE files == {Gathering(g)!Described(p) : p \in Gathering(g)!Usable}
           key == IF Gathering(g)!KeepsKey(files) THEN request.key ELSE keys + 1
<1>1. /\ create.at = "idle" /\ Gathering(g)!Usable # {} /\ Gathering(g)!Unassigned = {} /\ key <= g.keys
      /\ keys' = (IF key > keys THEN key ELSE keys)
      /\ request' = [key |-> key, files |-> files]
      /\ create' = [at |-> "sent", key |-> key, files |-> files]
      /\ UNCHANGED <<selected, unusable, kind, labelFor, batch, refused, started, losses>>
  BY DEF Gathering!Start
<1>2. files \in SUBSET FileRecords /\ Gathering(g)!Acceptable(files)
  BY <1>1, SentIsAcceptable
<1>3. files # {} /\ \A f \in files : f.photo \in selected
  <2>1. \A p : Gathering(g)!Described(p).photo = p
    BY DEF Gathering!Described
  <2> QED BY <1>1, <2>1 DEF Gathering!Usable
<1>4. \/ key = request.key /\ request.key # 0 /\ request.files = files
      \/ key = keys + 1 /\ ~(request.key # 0 /\ request.files = files)
  BY DEF Gathering!KeepsKey
<1> HIDE DEF files, key
<1>5. keys \in 0..g.keys /\ request.key \in {0, keys} /\ g.keys \in Nat
  BY DEF GatherInv, GatherTyped, RequestRight, GatherBounds
<1>6. key \in 1..g.keys /\ keys' = key /\ (key = keys \/ key = keys + 1)
  BY <1>1, <1>4, <1>5
<1>7. request'.key = key /\ request'.files = files /\ create'.at = "sent" /\ create'.key = key /\ create'.files = files
  BY <1>1
<1>8. GatherTyped(g)'
  <2>1. key \in 0..g.keys
    BY <1>5, <1>6
  <2>2. request' \in [key : 0..g.keys, files : SUBSET FileRecords]
    BY <1>1, <1>2, <2>1
  <2>3. create' \in [at : {"idle", "sent", "created", "error"}, key : 0..g.keys, files : SUBSET FileRecords]
    BY <1>1, <1>2, <2>1
  <2>4. keys' \in 0..g.keys
    BY <1>6, <2>1
  <2> QED BY <1>1, <2>2, <2>3, <2>4 DEF GatherInv, GatherTyped
<1>9. ListRight(g)' /\ HandedRight(g)' /\ Gathering(g)!NeverRefused'
  BY <1>1 DEF GatherInv, ListRight, HandedRight, Gathering!NeverRefused, Gathering!Limit, Gathering!Usable, Gathering!Garments
<1>10. batch' = batch /\ batch \in [1..g.keys -> SUBSET FileRecords]
  BY <1>1 DEF GatherInv, GatherTyped
<1>11. RequestRight(g)'
  <2>1. batch[key] \in {{}, files}
    <3>1. CASE key = request.key /\ request.key # 0 /\ request.files = files
      BY <3>1 DEF GatherInv, RequestRight
    <3>2. CASE key = keys + 1
      BY <1>5, <1>6, <3>2 DEF GatherInv, BatchesRight
    <3> QED BY <1>4, <3>1, <3>2
  <2>3. Gathering(g)!Acceptable(request.files)'
    BY <1>2, <1>7 DEF Gathering!Acceptable, Gathering!None
  <2> QED BY <1>6, <1>7, <1>10, <2>1, <2>3 DEF RequestRight
<1>12. BatchesRight(g)'
  <2>1. \A k \in 1..g.keys : batch'[k] # {} => k <= keys'
    <3>1. keys <= keys'
      BY <1>5, <1>6
    <3>2. \A k \in 1..g.keys : batch[k] # {} => k <= keys
      BY DEF GatherInv, BatchesRight
    <3> QED BY <1>5, <1>6, <1>10, <3>1, <3>2
  <2>2. request'.key > 1 => batch'[request'.key - 1] # request'.files
    <3> SUFFICES ASSUME key > 1 PROVE batch[key - 1] # files
      BY <1>7, <1>10
    <3>1. CASE key = request.key /\ request.key # 0 /\ request.files = files
      BY <3>1 DEF GatherInv, BatchesRight
    <3>2. CASE key = keys + 1 /\ ~(request.key # 0 /\ request.files = files)
      <4>1. key - 1 = keys /\ keys \in 1..g.keys
        BY <1>5, <1>6, <3>2
      <4>2. CASE request.key = 0
        <5>1. \A f \in batch[keys] : f.photo \notin selected
          BY <4>1, <4>2 DEF GatherInv, BatchesRight
        <5> QED BY <1>3, <4>1, <5>1
      <4>3. CASE request.key # 0
        <5>1. request.key = keys /\ batch[keys] \in {{}, request.files} /\ request.files # files
          BY <1>5, <3>2, <4>3 DEF GatherInv, RequestRight
        <5> QED BY <1>3, <4>1, <5>1
      <4> QED BY <4>2, <4>3
    <3> QED BY <1>4, <3>1, <3>2
  <2>3. Gathering(g)!NoSecondBatch'
    BY <1>10 DEF GatherInv, BatchesRight, Gathering!NoSecondBatch
  <2>4. request'.key # 0
    BY <1>6, <1>7
  <2> QED BY <2>1, <2>2, <2>3, <2>4 DEF BatchesRight
<1> QED BY <1>8, <1>9, <1>11, <1>12 DEF GatherInv

(* The server makes a batch of the request, or has made it before.           *)
LEMMA HandleKeeps ==
  ASSUME NEW g, GatherBounds(g), GatherInv(g), Gathering(g)!HandleCreate PROVE GatherInv(g)'
<1> USE DEF Gathering!HandleCreate
<1>1. /\ create.at = "sent" /\ create.key = request.key /\ create.files = request.files /\ request.key # 0
      /\ Gathering(g)!Acceptable(request.files) /\ batch[request.key] \in {{}, request.files}
  BY DEF GatherInv, RequestRight
<1>2. UNCHANGED <<selected, unusable, kind, labelFor, request, keys, started>>
  OBVIOUS
<1>3. request.key \in 1..g.keys /\ request.key = keys /\ g.keys \in Nat /\ keys \in Nat
      /\ request.files \in SUBSET FileRecords /\ create.files \in SUBSET FileRecords /\ create.key \in 0..g.keys
      /\ batch \in [1..g.keys -> SUBSET FileRecords]
      /\ create \in [at : {"idle", "sent", "created", "error"}, key : 0..g.keys, files : SUBSET FileRecords]
  <2>1. request.key \in {0, keys} /\ keys \in 0..g.keys /\ g.keys \in Nat
    BY DEF GatherInv, GatherTyped, RequestRight, GatherBounds
  <2> QED BY <1>1, <2>1 DEF GatherInv, GatherTyped
<1>4. refused' = refused
  BY <1>1
<1>5. /\ create' \in [at : {"created", "error"}, key : 0..g.keys, files : SUBSET FileRecords]
      /\ create'.key = request.key /\ create'.files = request.files
  <2>1. create' = [create EXCEPT !.at = "created"] \/ create' = [create EXCEPT !.at = "error"]
    OBVIOUS
  <2> QED BY <1>1, <1>3, <2>1
<1>6. batch' = batch \/ (batch[request.key] = {} /\ batch' = [batch EXCEPT ![request.key] = request.files])
  BY <1>1
<1>7. create'.at = "created" => batch'[request.key] = request.files
  BY <1>1, <1>3
<1>8. losses' \in 0..g.faults
  <2>1. losses' = losses \/ (losses < g.faults /\ losses' = losses + 1)
    OBVIOUS
  <2> QED BY <2>1 DEF GatherInv, GatherTyped, GatherBounds
<1>9. /\ batch' \in [1..g.keys -> SUBSET FileRecords]
      /\ \A k \in 1..g.keys : k # request.key => batch'[k] = batch[k]
      /\ batch'[request.key] \in {{}, request.files}
      /\ \A k \in 1..g.keys : batch[k] # {} => batch'[k] = batch[k]
  BY <1>1, <1>3, <1>6
<1>10. GatherTyped(g)'
  BY <1>2, <1>4, <1>5, <1>8, <1>9 DEF GatherInv, GatherTyped
<1>11. ListRight(g)' /\ Gathering(g)!NeverRefused'
  BY <1>2, <1>4 DEF GatherInv, ListRight, Gathering!NeverRefused, Gathering!Limit, Gathering!Usable, Gathering!Garments
<1>12. HandedRight(g)'
  BY <1>2, <1>9 DEF GatherInv, HandedRight
<1>13. RequestRight(g)'
  <2>1. Gathering(g)!Acceptable(request.files)'
    BY <1>1, <1>2 DEF Gathering!Acceptable, Gathering!None
  <2> QED BY <1>1, <1>2, <1>3, <1>5, <1>7, <1>9, <2>1 DEF RequestRight
<1>14. BatchesRight(g)'
  <2>1. \A k \in 1..g.keys : batch'[k] # {} => k <= keys'
    <3>1. \A k \in 1..g.keys : batch[k] # {} => k <= keys
      BY DEF GatherInv, BatchesRight
    <3> QED BY <1>2, <1>3, <1>9, <3>1
  <2>2. request'.key > 1 => batch'[request'.key - 1] # request'.files
    <3> SUFFICES ASSUME request.key > 1 PROVE batch'[request.key - 1] # request.files
      BY <1>2
    <3>1. request.key - 1 \in 1..g.keys /\ request.key - 1 # request.key
      BY <1>3
    <3>2. batch[request.key - 1] # request.files
      BY DEF GatherInv, BatchesRight
    <3> QED BY <1>9, <3>1, <3>2
  <2>3. ASSUME NEW k \in 1..g.keys - 1, batch'[k] # {} PROVE batch'[k + 1] # batch'[k]
    <3>1. k \in 1..g.keys /\ k + 1 \in 1..g.keys /\ k + 1 - 1 = k /\ k \in Nat /\ k + 1 # k
      BY <1>3
    <3>2. \A j \in 1..g.keys : batch[j] # {} => j <= keys
      BY DEF GatherInv, BatchesRight
    <3>3. CASE k + 1 = request.key
      <4>1. batch[k] # {} /\ batch'[k] = batch[k]
        BY <1>9, <2>3, <3>1, <3>3
      <4>2. batch[k] # request.files
        <5>1. request.key > 1 => batch[request.key - 1] # request.files
          BY DEF GatherInv, BatchesRight
        <5> QED BY <3>1, <3>3, <5>1
      <4> QED BY <1>9, <2>3, <3>3, <4>1, <4>2
    <3>4. CASE k = request.key
      <4>1. batch'[k + 1] = {}
        BY <1>3, <1>9, <3>1, <3>2, <3>4
      <4> QED BY <2>3, <4>1
    <3>5. CASE k # request.key /\ k + 1 # request.key
      <4>1. batch'[k] = batch[k] /\ batch'[k + 1] = batch[k + 1]
        BY <1>9, <3>1, <3>5
      <4> QED BY <2>3, <4>1 DEF GatherInv, BatchesRight, Gathering!NoSecondBatch
    <3> QED BY <3>3, <3>4, <3>5
  <2> QED BY <1>1, <1>2, <2>1, <2>2, <2>3 DEF BatchesRight, Gathering!NoSecondBatch
<1> QED BY <1>10, <1>11, <1>12, <1>13, <1>14 DEF GatherInv

(* With the batch made the list is emptied, and its photos are handed over.  *)
LEMMA AnswerKeeps ==
  ASSUME NEW g, GatherBounds(g), GatherInv(g), Gathering(g)!CreateAnswered PROVE GatherInv(g)'
<1> USE DEF Gathering!CreateAnswered, Gathering!ListAfter, Gathering!None
<1>1. /\ create.key = request.key /\ create.files = request.files /\ request.key # 0
      /\ create' = [at |-> "idle", key |-> 0, files |-> {}]
      /\ UNCHANGED <<kind, keys, batch, refused, losses>>
  BY DEF GatherInv, RequestRight
<1>2. create' \in [at : {"idle", "sent", "created", "error"}, key : 0..g.keys, files : SUBSET FileRecords]
      /\ create'.at = "idle" /\ create'.key = 0 /\ create'.files = {} /\ 0 \in 0..g.keys
  <2>1. 0 \in 0..g.keys
    BY DEF GatherBounds
  <2> QED BY <1>1, <2>1
<1>3. CASE create.at = "created"
  <2>1. /\ request' = [key |-> 0, files |-> {}] /\ selected' = {} /\ unusable' = {}
        /\ labelFor' = [p \in Both |-> "none"]
        /\ started' = [p \in Both |->
             IF p \in Gathering(g)!Usable /\ \E f \in create.files : f.photo = p
             THEN started[p] \cup {create.key} ELSE started[p]]
    BY <1>3
  <2>2. create.key \in 1..g.keys /\ batch[create.key] = create.files
    BY <1>1, <1>3 DEF GatherInv, GatherTyped, RequestRight, GatherBounds
  <2>3. \A p \in Both : \/ started'[p] = started[p]
                         \/ /\ started[p] = {} /\ started'[p] = {create.key}
                            /\ \E f \in batch[create.key] : f.photo = p
    BY <2>1, <2>2 DEF GatherInv, HandedRight, GatherTyped, Gathering!Usable
  <2>4. started' \in [Both -> SUBSET (1..g.keys)]
    BY <2>1, <2>2 DEF GatherInv, GatherTyped
  <2>5. GatherTyped(g)'
    <3>1. request' \in [key : 0..g.keys, files : SUBSET FileRecords]
      BY <1>2, <2>1
    <3> QED BY <1>1, <1>2, <2>1, <2>4, <3>1 DEF GatherInv, GatherTyped
  <2>6. ListRight(g)'
    <3>1. IsFiniteSet(selected') /\ Cardinality(selected') = 0
      BY <2>1, FS_EmptySet
    <3> QED BY <2>1, <3>1 DEF ListRight, Gathering!Limit, GatherBounds
  <2>7. RequestRight(g)'
    BY <1>2, <2>1 DEF RequestRight
  <2>8. BatchesRight(g)'
    <3>1. request'.key = 0
      BY <2>1
    <3> QED BY <1>1, <2>1, <3>1 DEF GatherInv, BatchesRight, Gathering!NoSecondBatch
  <2>9. HandedRight(g)'
    <3> SUFFICES ASSUME NEW p \in Both, started'[p] # {}
                 PROVE  \E k \in 1..g.keys : started'[p] = {k} /\ \E f \in batch[k] : f.photo = p
      BY <1>1, <2>1 DEF HandedRight
    <3>1. CASE started'[p] = started[p]
      BY <3>1 DEF GatherInv, HandedRight
    <3>2. CASE started'[p] = {create.key} /\ \E f \in batch[create.key] : f.photo = p
      BY <2>2, <3>2
    <3> QED BY <2>3, <3>1, <3>2
  <2> QED BY <1>1, <2>5, <2>6, <2>7, <2>8, <2>9 DEF GatherInv, Gathering!NeverRefused
<1>4. CASE create.at = "error"
  <2>1. UNCHANGED <<request, started, selected, unusable, labelFor>>
    BY <1>4
  <2>2. GatherTyped(g)'
    BY <1>1, <1>2, <2>1 DEF GatherInv, GatherTyped
  <2>3. ListRight(g)' /\ HandedRight(g)' /\ Gathering(g)!NeverRefused'
    BY <1>1, <2>1 DEF GatherInv, ListRight, HandedRight, Gathering!NeverRefused, Gathering!Limit, Gathering!Usable,
       Gathering!Garments
  <2>4. RequestRight(g)'
    BY <1>1, <1>2, <2>1 DEF GatherInv, RequestRight, Gathering!Acceptable
  <2>5. BatchesRight(g)'
    BY <1>1, <2>1 DEF GatherInv, BatchesRight, Gathering!NoSecondBatch
  <2> QED BY <2>2, <2>3, <2>4, <2>5 DEF GatherInv
<1> QED BY <1>3, <1>4

LEMMA GatherStutters ==
  ASSUME NEW g, GatherInv(g), UNCHANGED gatherVars PROVE GatherInv(g)'
<1> USE DEF gatherVars, GatherInv
<1>1. GatherTyped(g)'
  BY DEF GatherTyped
<1>2. ListRight(g)'
  BY DEF ListRight, Gathering!Limit, Gathering!Usable, Gathering!Garments
<1>3. RequestRight(g)'
  BY DEF RequestRight, Gathering!Acceptable, Gathering!None
<1>4. BatchesRight(g)' /\ HandedRight(g)' /\ Gathering(g)!NeverRefused'
  BY DEF BatchesRight, HandedRight, Gathering!NeverRefused, Gathering!NoSecondBatch
<1> QED BY <1>1, <1>2, <1>3, <1>4

LEMMA GatherStep ==
  ASSUME NEW g, GatherBounds(g), GatherInv(g), Gathering(g)!Next PROVE GatherInv(g)'
<1>1. CASE \E p \in Both : Gathering(g)!Add(p)
  BY <1>1, AddKeeps
<1>2. CASE \E p \in Both : \/ Gathering(g)!Remove(p)
                          \/ \E k \in FileKinds : Gathering(g)!SetKind(p, k)
                          \/ \E h \in Both : Gathering(g)!SetLabelFor(p, h)
  BY <1>2, MarksKeep
<1>3. CASE Gathering(g)!Start
  BY <1>3, PressKeeps
<1>4. CASE Gathering(g)!HandleCreate
  BY <1>4, HandleKeeps
<1>5. CASE Gathering(g)!CreateAnswered
  BY <1>5, AnswerKeeps
<1> QED BY <1>1, <1>2, <1>3, <1>4, <1>5 DEF Gathering!Next, Gathering!Kinds, FileKinds
-----------------------------------------------------------------------------
(* Sending photos (UploadClient).  A step moves a tab's map and the runs, or *)
(* the server's entries and what a tab has seen of them: what must agree is  *)
(* stated of any such values, so that it can be shown of each part of a step.*)
SendBounds(c) ==
  /\ IsFiniteSet(c.entries) /\ c.concurrent \in Nat /\ c.files \in Nat \ {0}
  /\ c.faults \in Nat /\ c.signouts \in Nat

(* The module's count is the count of sets.                                  *)
LEMMA SendCounts ==
  ASSUME NEW c, NEW S PROVE Sends(c)!Cardinality(S) = Cardinality(S)
BY DEF Sends!Cardinality, Cardinality

EntryStates == {"awaiting_upload", "uploaded", "ready", "failed", "canceled"}
Tasks(c) ==
  {k \in [status : {"none", "queued", "uploading", "completing", "done", "failed"},
          file : 0..c.files, url : BOOLEAN] : k.file = 0 <=> k.status = "none"}
Works(c) ==
  [at : {"put", "stored", "renew", "renewed", "complete", "completed", "fail"}, tab : c.tabs,
   entry : c.entries, file : 1..c.files, own : BOOLEAN, ok : BOOLEAN]
Maps(c) == [c.entries -> Tasks(c)]
Pools(c) == [Both -> Works(c) \cup {[at |-> "free"]}]

SendTyped(c) ==
  /\ entry \in [c.entries -> EntryStates]
  /\ object \in [c.entries -> 0..c.files] /\ accepted \in [c.entries -> 0..c.files]
  /\ user \in [c.tabs -> {"member", "other", "none"}] /\ leaving \in [c.tabs -> BOOLEAN]
  /\ task \in [c.tabs -> Maps(c)] /\ run \in Pools(c) /\ begun \in BOOLEAN
  /\ seen \in [c.tabs -> [c.entries -> EntryStates \cup {"none"}]]
  /\ picking \in [c.tabs -> SUBSET c.entries]
  /\ cancel \in [c.tabs -> [c.entries -> {"no", "sent", "done", "refused"}]]
  /\ failures \in 0..c.faults /\ signOuts \in 0..c.signouts

(* A task that is done and a run that was told so: the server has the file.  *)
TasksTrue(c, T, en) ==
  \A t \in c.tabs, e \in c.entries : T[t][e].status = "done" => en[e] # "awaiting_upload"
RunsTrue(R, en) ==
  \A r \in Both : R[r].at = "completed" /\ R[r].ok => en[R[r].entry] # "awaiting_upload"

(* What a receipt shows was so: it is awaited as long as it is.              *)
SeenTrue(c, sn, en) ==
  \A t \in c.tabs : sn[t] # [e \in c.entries |-> "none"] =>
    \A e \in c.entries : sn[t][e] # "none" /\ (en[e] = "awaiting_upload" => sn[t][e] = "awaiting_upload")

(* A run under way is the one of its active task, or its task was canceled;  *)
(* a file is picked for a photo that has neither.                            *)
Is(R, r, t, e) == R[r].at # "free" /\ R[r].tab = t /\ R[r].entry = e
RunsFit(T, R, sn, en) ==
  \A r \in Both : R[r].at # "free" =>
    \/ R[r].own /\ T[R[r].tab][R[r].entry].status \in {"uploading", "completing"}
    \/ /\ ~R[r].own /\ T[R[r].tab][R[r].entry].status = "none"
       /\ sn[R[r].tab][R[r].entry] = "canceled" /\ en[R[r].entry] = "canceled"
OneRun(R) ==
  \A r, q \in Both : R[r].at # "free" /\ R[r].own /\ R[q].own /\ Is(R, q, R[r].tab, R[r].entry) => r = q
PicksFit(c, T, R, pk) ==
  \A t \in c.tabs : \A e \in pk[t] : T[t][e].status = "none" /\ \A r \in Both : ~Is(R, r, t, e)
Bounded(c, T) == \A t \in c.tabs : Cardinality(Sends(c)!ActiveTasks(T[t])) <= c.concurrent
Fits(c, T, R, sn, en, pk) == RunsFit(T, R, sn, en) /\ OneRun(R) /\ PicksFit(c, T, R, pk) /\ Bounded(c, T)

NotBegun(c) ==
  ~begun =>
    /\ \A t \in c.tabs : picking[t] = {}
    /\ \A t \in c.tabs, e \in c.entries :
         task[t][e].status = "none" /\ seen[t][e] = "none" /\ cancel[t][e] = "no"
    /\ \A r \in Both : run[r].at = "free"
CancelsTrue(c) == \A t \in c.tabs, e \in c.entries : cancel[t][e] = "done" => entry[e] = "canceled"
Stays(c) == c.signouts = 0 => \A t \in c.tabs : ~leaving[t]

SendInv(c) ==
  /\ SendTyped(c) /\ NotBegun(c) /\ CancelsTrue(c) /\ Stays(c)
  /\ TasksTrue(c, task, entry) /\ RunsTrue(run, entry) /\ SeenTrue(c, seen, entry)
  /\ c.signouts = 0 => Fits(c, task, run, seen, entry, picking)

LEMMA SendStarts ==
  ASSUME NEW c, SendBounds(c), Sends(c)!Init PROVE SendInv(c)
<1> USE DEF SendBounds, Sends!Init
<1>1. 0 \in 0..c.files /\ 0 \in 0..c.faults /\ 0 \in 0..c.signouts
  OBVIOUS
<1>2. Sends(c)!NoTask \in Tasks(c) /\ Sends(c)!NoTask.status = "none"
  BY <1>1 DEF Sends!NoTask, Tasks
<1>3. SendTyped(c)
  BY <1>1, <1>2 DEF SendTyped, Maps, Pools, EntryStates, Sends!FreeRun
<1>4. NotBegun(c) /\ CancelsTrue(c) /\ Stays(c) /\ TasksTrue(c, task, entry) /\ RunsTrue(run, entry)
      /\ SeenTrue(c, seen, entry)
  BY <1>2 DEF NotBegun, CancelsTrue, Stays, TasksTrue, RunsTrue, SeenTrue, Sends!FreeRun
<1>5. Fits(c, task, run, seen, entry, picking)
  <2>1. RunsFit(task, run, seen, entry) /\ OneRun(run) /\ PicksFit(c, task, run, picking)
    BY DEF RunsFit, OneRun, PicksFit, Sends!FreeRun
  <2>2. \A t \in c.tabs : Sends(c)!ActiveTasks(task[t]) = {}
    BY <1>2 DEF Sends!ActiveTasks, Sends!Active
  <2>3. Bounded(c, task)
    <3>1. Cardinality({}) = 0
      BY FS_EmptySet
    <3>2. \A t \in c.tabs : Cardinality(Sends(c)!ActiveTasks(task[t])) = 0
      BY <2>2, <3>1
    <3> QED BY <3>2 DEF Bounded
  <2> QED BY <2>1, <2>3 DEF Fits
<1> QED BY <1>3, <1>4, <1>5 DEF SendInv

LEMMA SendGives ==
  ASSUME NEW c, SendBounds(c), SendInv(c)
  PROVE  Truthful(c) /\ (c.signouts = 0 => Sends(c)!TransfersBounded)
<1>1. Sends(c)!TypeOK
  <2> USE DEF SendInv, SendTyped
  <2>1. \A t \in c.tabs, e \in c.entries : task[t][e].file = 0 <=> task[t][e].status = "none"
    BY DEF Maps, Tasks
  <2>2. task \in [c.tabs -> [c.entries ->
          [status : Sends(c)!Active \cup {"none", "queued", "done", "failed"}, file : 0..c.files, url : BOOLEAN]]]
    BY DEF Maps, Tasks, Sends!Active
  <2>3. \A r \in Both : Sends(c)!Busy(r) =>
       /\ run[r].at \in Sends(c)!Sending \cup {"renew", "renewed", "complete", "completed", "fail"}
       /\ run[r].tab \in c.tabs /\ run[r].entry \in c.entries /\ run[r].file \in 1..c.files
       /\ run[r].own \in BOOLEAN /\ run[r].ok \in BOOLEAN
    BY DEF Pools, Works, Sends!Busy, Sends!Sending
  <2>4. /\ entry \in [c.entries -> Sends(c)!States]
        /\ seen \in [c.tabs -> [c.entries -> Sends(c)!States \cup {"none"}]]
    BY DEF EntryStates, Sends!States
  <2> QED BY <2>1, <2>2, <2>3, <2>4 DEF Sends!TypeOK
<1>2. Sends(c)!DoneMeansAccepted
  BY DEF SendInv, TasksTrue, Sends!DoneMeansAccepted
<1>3. Sends(c)!KeepOpenShown
  <2> SUFFICES ASSUME NEW t \in c.tabs, NEW e \in c.entries, Sends(c)!Showing(t), entry[e] = "awaiting_upload",
                      task[t][e].status \in Sends(c)!Active \cup {"queued"}
               PROVE  Sends(c)!Summary(t) = "keep_open"
    BY DEF Sends!KeepOpenShown
  <2>1. seen[t][e] = "awaiting_upload"
    BY DEF SendInv, SeenTrue, Sends!Showing
  <2>2. Sends(c)!MovingHere(t, e)
    BY <2>1 DEF Sends!MovingHere, Sends!Active
  <2> QED BY <2>2 DEF Sends!Summary
<1>4. c.signouts = 0 => Sends(c)!TransfersBounded
  BY SendCounts DEF SendInv, Fits, Bounded, Sends!TransfersBounded
<1> QED BY <1>1, <1>2, <1>3, <1>4 DEF Truthful

-----------------------------------------------------------------------------
(* What pump() does to a map T and runs R of a tab: queued tasks are active  *)
(* then, no more than there is room for, with runs of their own.             *)
LEMMA PumpGives ==
  ASSUME NEW c, SendBounds(c), NEW t \in c.tabs, NEW T \in Maps(c), NEW R \in Pools(c), Sends(c)!Pump(t, T, R)
  PROVE  \E S \in SUBSET {e \in c.entries : T[e].status = "queued"} :
           /\ IsFiniteSet(S) /\ Cardinality(S) \in Nat
           /\ Cardinality(S) <= Sends(c)!Room(T)
           /\ task' = [task EXCEPT ![t] = Sends(c)!Started(T, S)]
           /\ run' \in [Both -> {R[r] : r \in Both} \cup {Sends(c)!NewRun(t, e, T) : e \in S}]
           /\ \A r \in Both : run'[r] = R[r] \/ \E e \in S : run'[r] = Sends(c)!NewRun(t, e, T)
           /\ \A r, q \in Both, e \in S :
                run'[r] = Sends(c)!NewRun(t, e, T) /\ run'[q] = Sends(c)!NewRun(t, e, T)
                  => r = q \/ run'[r] = R[r] \/ run'[q] = R[q]
<1> DEFINE queued == {e \in c.entries : T[e].status = "queued"}
           free == {r \in Both : R[r].at = "free"}
<1>1. PICK S \in SUBSET queued :
        /\ Sends(c)!Chosen(S, queued, Sends(c)!Room(T))
        /\ \E id :
           /\ task' = [task EXCEPT ![t] = Sends(c)!Started(T, S)]
           /\ run' = [r \in Both |-> IF \E e \in S : id[e] = r
                                     THEN Sends(c)!NewRun(t, CHOOSE e \in S : id[e] = r, T) ELSE R[r]]
  <2> DEFINE id(S) == CHOOSE f \in [S -> free] : \A d, e \in S : f[d] = f[e] => d = e
  <2>1. PICK S \in SUBSET queued :
        /\ Sends(c)!Chosen(S, queued, Sends(c)!Room(T))
        /\ task' = [task EXCEPT ![t] = Sends(c)!Started(T, S)]
        /\ run' = [r \in Both |-> IF \E e \in S : id(S)[e] = r
                                  THEN Sends(c)!NewRun(t, CHOOSE e \in S : id(S)[e] = r, T) ELSE R[r]]
    BY DEF Sends!Pump
  <2> HIDE DEF id, queued, free
  <2> QED BY <2>1
<1>2. PICK id :
           /\ task' = [task EXCEPT ![t] = Sends(c)!Started(T, S)]
           /\ run' = [r \in Both |-> IF \E e \in S : id[e] = r
                                     THEN Sends(c)!NewRun(t, CHOOSE e \in S : id[e] = r, T) ELSE R[r]]
  BY <1>1
<1>3. IsFiniteSet(queued) /\ IsFiniteSet(S) /\ Cardinality(queued) \in Nat /\ Cardinality(S) \in Nat
      /\ Cardinality(S) <= Cardinality(queued)
  BY FS_Subset, FS_CardinalityType DEF SendBounds
<1>4. Sends(c)!Room(T) \in Nat
  <2>1. IsFiniteSet(Sends(c)!ActiveTasks(T))
    BY FS_Subset DEF SendBounds, Sends!ActiveTasks
  <2>2. Cardinality(Sends(c)!ActiveTasks(T)) \in Nat
    BY <2>1, FS_CardinalityType
  <2> QED BY <2>2, SendCounts DEF Sends!Room, SendBounds
<1>5. Cardinality(S) <= Sends(c)!Room(T)
  <2>1. Sends(c)!Cardinality(S) = Cardinality(S) /\ Sends(c)!Cardinality(queued) = Cardinality(queued)
    BY SendCounts
  <2> HIDE DEF queued
  <2> QED BY <1>1, <1>3, <1>4, <2>1 DEF Sends!Chosen
<1>6. \A r \in Both : \/ run'[r] = R[r]
                      \/ \E e \in S : id[e] = r /\ run'[r] = Sends(c)!NewRun(t, e, T)
  BY <1>2
<1>7. \A r, q \in Both, e \in S :
         run'[r] = Sends(c)!NewRun(t, e, T) /\ run'[q] = Sends(c)!NewRun(t, e, T)
           => r = q \/ run'[r] = R[r] \/ run'[q] = R[q]
  <2> SUFFICES ASSUME NEW r \in Both, NEW q \in Both, NEW e \in S, run'[r] = Sends(c)!NewRun(t, e, T),
                      run'[q] = Sends(c)!NewRun(t, e, T), run'[r] # R[r], run'[q] # R[q]
               PROVE  r = q
    OBVIOUS
  <2>1. PICK d \in S : id[d] = r /\ run'[r] = Sends(c)!NewRun(t, d, T)
    BY <1>6
  <2>2. PICK f \in S : id[f] = q /\ run'[q] = Sends(c)!NewRun(t, f, T)
    BY <1>6
  <2>3. \A h : Sends(c)!NewRun(t, h, T).entry = h
    BY DEF Sends!NewRun
  <2>4. run'[r].entry = d /\ run'[r].entry = e /\ run'[q].entry = f /\ run'[q].entry = e
    BY <2>1, <2>2, <2>3
  <2> QED BY <2>1, <2>2, <2>4
<1>8. run' \in [Both -> {R[r] : r \in Both} \cup {Sends(c)!NewRun(t, e, T) : e \in S}]
  BY <1>2
<1> QED BY <1>2, <1>3, <1>5, <1>6, <1>7, <1>8

(* Whatever a map and runs agree on, they agree on when pump() was called.   *)
Moves(c, t, T, R) == Sends(c)!Pump(t, T, R) \/ Sends(c)!NoPump(t, T, R)

LEMMA MovesTyped ==
  ASSUME NEW c, SendBounds(c), NEW t \in c.tabs, NEW T \in Maps(c), NEW R \in Pools(c), Moves(c, t, T, R),
         task \in [c.tabs -> Maps(c)]
  PROVE  task' \in [c.tabs -> Maps(c)] /\ run' \in Pools(c)
<1>1. CASE Sends(c)!NoPump(t, T, R)
  BY <1>1 DEF Sends!NoPump
<1>2. CASE Sends(c)!Pump(t, T, R)
  <2>1. PICK S \in SUBSET {e \in c.entries : T[e].status = "queued"} :
           /\ task' = [task EXCEPT ![t] = Sends(c)!Started(T, S)]
           /\ run' \in [Both -> {R[r] : r \in Both} \cup {Sends(c)!NewRun(t, e, T) : e \in S}]
    BY <1>2, PumpGives
  <2>2. ASSUME NEW e \in S
        PROVE  [T[e] EXCEPT !.status = "uploading"] \in Tasks(c) /\ Sends(c)!NewRun(t, e, T) \in Works(c)
    <3>1. T[e] \in Tasks(c) /\ T[e].status = "queued" /\ e \in c.entries
      BY <2>2 DEF Maps
    <3>2. T[e].file \in 1..c.files /\ T[e].url \in BOOLEAN
      BY <3>1 DEF Tasks, SendBounds
    <3>3. [T[e] EXCEPT !.status = "uploading"] \in Tasks(c)
      BY <3>1, <3>2 DEF Tasks
    <3> QED BY <3>1, <3>2, <3>3 DEF Sends!NewRun, Works
  <2>3. Sends(c)!Started(T, S) \in Maps(c)
    BY <2>2 DEF Maps, Sends!Started
  <2>4. run' \in Pools(c)
    <3>1. {R[r] : r \in Both} \cup {Sends(c)!NewRun(t, e, T) : e \in S} \subseteq Works(c) \cup {[at |-> "free"]}
      BY <2>2 DEF Pools
    <3> QED BY <2>1, <3>1 DEF Pools
  <2> QED BY <2>1, <2>3, <2>4
<1> QED BY <1>1, <1>2 DEF Moves

LEMMA MovesTrue ==
  ASSUME NEW c, SendBounds(c), NEW t \in c.tabs, NEW T \in Maps(c), NEW R \in Pools(c), Moves(c, t, T, R),
         task \in [c.tabs -> Maps(c)], NEW en,
         TasksTrue(c, [task EXCEPT ![t] = T], en), RunsTrue(R, en)
  PROVE  TasksTrue(c, task', en) /\ RunsTrue(run', en)
<1>1. CASE Sends(c)!NoPump(t, T, R)
  BY <1>1 DEF Sends!NoPump
<1>2. CASE Sends(c)!Pump(t, T, R)
  <2>1. PICK S \in SUBSET {e \in c.entries : T[e].status = "queued"} :
           /\ task' = [task EXCEPT ![t] = Sends(c)!Started(T, S)]
           /\ \A r \in Both : run'[r] = R[r] \/ \E e \in S : run'[r] = Sends(c)!NewRun(t, e, T)
    BY <1>2, PumpGives
  <2>2. ASSUME NEW s \in c.tabs, NEW e \in c.entries, task'[s][e].status = "done"
        PROVE  en[e] # "awaiting_upload"
    <3>1. [task EXCEPT ![t] = T][s][e].status = "done"
      <4>1. T[e] \in Tasks(c)
        BY DEF Maps
      <4>2. [T[e] EXCEPT !.status = "uploading"].status # "done"
        BY <4>1 DEF Tasks
      <4>3. CASE s = t
        <5>1. task'[s][e] = IF e \in S THEN [T[e] EXCEPT !.status = "uploading"] ELSE T[e]
          BY <2>1, <4>3 DEF Sends!Started
        <5> QED BY <2>2, <4>2, <4>3, <5>1
      <4>4. CASE s # t
        BY <2>1, <2>2, <4>4
      <4> QED BY <4>3, <4>4
    <3> QED BY <3>1 DEF TasksTrue
  <2>3. RunsTrue(run', en)
    <3>1. \A e : Sends(c)!NewRun(t, e, T).at # "completed"
      BY DEF Sends!NewRun
    <3> QED BY <2>1, <3>1 DEF RunsTrue
  <2> QED BY <2>2, <2>3 DEF TasksTrue
<1> QED BY <1>1, <1>2 DEF Moves

LEMMA MovesFit ==
  ASSUME NEW c, SendBounds(c), NEW t \in c.tabs, NEW T \in Maps(c), NEW R \in Pools(c), Moves(c, t, T, R),
         task \in [c.tabs -> Maps(c)], NEW sn, NEW en, NEW pk \in [c.tabs -> SUBSET c.entries],
         Fits(c, [task EXCEPT ![t] = T], R, sn, en, pk)
  PROVE  Fits(c, task', run', sn, en, pk)
<1>1. CASE Sends(c)!NoPump(t, T, R)
  BY <1>1 DEF Sends!NoPump
<1>2. CASE Sends(c)!Pump(t, T, R)
  <2> DEFINE M == [task EXCEPT ![t] = T]
  <2>1. PICK S \in SUBSET {e \in c.entries : T[e].status = "queued"} :
           /\ IsFiniteSet(S) /\ Cardinality(S) \in Nat
           /\ Cardinality(S) <= Sends(c)!Room(T)
           /\ task' = [task EXCEPT ![t] = Sends(c)!Started(T, S)]
           /\ \A r \in Both : run'[r] = R[r] \/ \E e \in S : run'[r] = Sends(c)!NewRun(t, e, T)
           /\ \A r, q \in Both, e \in S :
                run'[r] = Sends(c)!NewRun(t, e, T) /\ run'[q] = Sends(c)!NewRun(t, e, T)
                  => r = q \/ run'[r] = R[r] \/ run'[q] = R[q]
    BY <1>2, PumpGives
  <2>2. M[t] = T /\ \A s \in c.tabs : s # t => M[s] = task[s] /\ task'[s] = task[s]
    BY <2>1
  <2>3. \A e \in c.entries : task'[t][e] = IF e \in S THEN [T[e] EXCEPT !.status = "uploading"] ELSE T[e]
    BY <2>1 DEF Sends!Started
  <2>4. \A e \in S : task'[t][e].status = "uploading" /\ M[t][e].status = "queued"
    BY <2>2, <2>3 DEF Maps, Tasks
  <2>5. \A s \in c.tabs, e \in c.entries : task'[s][e] = M[s][e] \/ (s = t /\ e \in S)
    BY <2>2, <2>3
  <2>6. \A e : /\ Sends(c)!NewRun(t, e, T).at # "free" /\ Sends(c)!NewRun(t, e, T).own = TRUE
              /\ Sends(c)!NewRun(t, e, T).tab = t /\ Sends(c)!NewRun(t, e, T).entry = e
    BY DEF Sends!NewRun
  <2>7. \A r \in Both : R[r].at # "free" => R[r].tab \in c.tabs /\ R[r].entry \in c.entries
    BY DEF Pools, Works
  <2> HIDE DEF M
  <2>8. RunsFit(M, R, sn, en) /\ OneRun(R) /\ PicksFit(c, M, R, pk) /\ Bounded(c, M)
    BY DEF Fits, M
  <2>9. RunsFit(task', run', sn, en)
    <3> SUFFICES ASSUME NEW r \in Both, run'[r].at # "free"
                 PROVE  \/ run'[r].own /\ task'[run'[r].tab][run'[r].entry].status \in {"uploading", "completing"}
                        \/ /\ ~run'[r].own /\ task'[run'[r].tab][run'[r].entry].status = "none"
                           /\ sn[run'[r].tab][run'[r].entry] = "canceled" /\ en[run'[r].entry] = "canceled"
      BY DEF RunsFit
    <3>1. CASE run'[r] = R[r]
      <4>1. \/ R[r].own /\ M[R[r].tab][R[r].entry].status \in {"uploading", "completing"}
            \/ /\ ~R[r].own /\ M[R[r].tab][R[r].entry].status = "none"
               /\ sn[R[r].tab][R[r].entry] = "canceled" /\ en[R[r].entry] = "canceled"
        BY <2>8, <3>1 DEF RunsFit
      <4>2. task'[R[r].tab][R[r].entry] = M[R[r].tab][R[r].entry]
        BY <2>4, <2>5, <2>7, <3>1, <4>1
      <4> QED BY <3>1, <4>1, <4>2
    <3>2. CASE \E e \in S : run'[r] = Sends(c)!NewRun(t, e, T)
      BY <2>4, <2>6, <3>2
    <3> QED BY <2>1, <3>1, <3>2
  <2>10. OneRun(run')
    <3> SUFFICES ASSUME NEW r \in Both, NEW q \in Both, run'[r].at # "free", run'[q].at # "free", run'[r].own,
                        run'[q].own, run'[q].tab = run'[r].tab, run'[q].entry = run'[r].entry
                 PROVE  r = q
      BY DEF OneRun, Is
    <3>1. ASSUME NEW a \in Both, NEW e \in S, run'[a] = Sends(c)!NewRun(t, e, T) PROVE run'[a] # R[a]
      <4>1. SUFFICES ASSUME run'[a] = R[a] PROVE FALSE
        OBVIOUS
      <4>2. R[a].at # "free" /\ R[a].tab = t /\ R[a].entry = e /\ R[a].own = TRUE
        <5>1. R[a] = Sends(c)!NewRun(t, e, T)
          BY <3>1, <4>1
        <5> QED BY <2>6, <5>1
      <4>3. M[t][e].status \in {"uploading", "completing"}
        BY <2>8, <4>2 DEF RunsFit
      <4> QED BY <2>4, <4>3
    <3>2. ASSUME NEW a \in Both, NEW b \in Both, NEW e \in S, run'[a] = Sends(c)!NewRun(t, e, T), run'[b] = R[b],
                 run'[b].at # "free", run'[b].own, run'[b].tab = run'[a].tab, run'[b].entry = run'[a].entry
          PROVE  FALSE
      <4>1. run'[a].tab = t /\ run'[a].entry = e
        BY <2>6, <3>2
      <4>2. M[t][e].status \in {"uploading", "completing"}
        BY <2>8, <3>2, <4>1 DEF RunsFit
      <4> QED BY <2>4, <4>2
    <3>3. CASE run'[r] = R[r] /\ run'[q] = R[q]
      BY <2>8, <3>3 DEF OneRun, Is
    <3>4. CASE run'[r] # R[r]
      <4>1. PICK e \in S : run'[r] = Sends(c)!NewRun(t, e, T)
        BY <2>1, <3>4
      <4>2. run'[q] # R[q]
        BY <3>2, <4>1
      <4>3. PICK d \in S : run'[q] = Sends(c)!NewRun(t, d, T)
        BY <2>1, <4>2
      <4>4. run'[r].entry = e /\ run'[q].entry = d
        BY <2>6, <4>1, <4>3
      <4>5. run'[q] = Sends(c)!NewRun(t, e, T)
        BY <4>3, <4>4
      <4> QED BY <2>1, <3>4, <4>1, <4>2, <4>5
    <3>5. CASE run'[q] # R[q] /\ run'[r] = R[r]
      <4>1. PICK e \in S : run'[q] = Sends(c)!NewRun(t, e, T)
        BY <2>1, <3>5
      <4> QED BY <3>2, <3>5, <4>1
    <3> QED BY <3>3, <3>4, <3>5
  <2>11. PicksFit(c, task', run', pk)
    <3> SUFFICES ASSUME NEW s \in c.tabs, NEW e \in pk[s]
                 PROVE  task'[s][e].status = "none" /\ \A r \in Both : ~Is(run', r, s, e)
      BY DEF PicksFit
    <3>1. M[s][e].status = "none" /\ e \in c.entries /\ \A r \in Both : ~Is(R, r, s, e)
      BY <2>8 DEF PicksFit
    <3>2. ~(s = t /\ e \in S)
      BY <2>4, <3>1
    <3>3. task'[s][e].status = "none"
      BY <2>5, <3>1, <3>2
    <3>4. ASSUME NEW r \in Both, Is(run', r, s, e) PROVE FALSE
      <4>1. CASE run'[r] = R[r]
        BY <3>1, <3>4, <4>1 DEF Is
      <4>2. CASE \E d \in S : run'[r] = Sends(c)!NewRun(t, d, T)
        BY <2>6, <3>2, <3>4, <4>2 DEF Is
      <4> QED BY <2>1, <4>1, <4>2
    <3> QED BY <3>3, <3>4
  <2>12. Bounded(c, task')
    <3> SUFFICES ASSUME NEW s \in c.tabs PROVE Cardinality(Sends(c)!ActiveTasks(task'[s])) <= c.concurrent
      BY DEF Bounded
    <3>1. CASE s # t
      BY <2>2, <2>8, <3>1 DEF Bounded
    <3>2. CASE s = t
      <4>1. Sends(c)!ActiveTasks(task'[t]) = Sends(c)!ActiveTasks(T) \cup S
        BY <2>2, <2>3, <2>4 DEF Sends!ActiveTasks, Sends!Active
      <4>2. IsFiniteSet(Sends(c)!ActiveTasks(T)) /\ Cardinality(Sends(c)!ActiveTasks(T)) \in Nat
        <5>1. IsFiniteSet(Sends(c)!ActiveTasks(T))
          BY FS_Subset DEF SendBounds, Sends!ActiveTasks
        <5> QED BY <5>1, FS_CardinalityType
      <4>3. Cardinality(Sends(c)!ActiveTasks(T)) <= c.concurrent
        BY <2>2, <2>8 DEF Bounded
      <4>4. Sends(c)!Room(T) = c.concurrent - Cardinality(Sends(c)!ActiveTasks(T))
        BY <4>2, <4>3, SendCounts DEF Sends!Room, SendBounds
      <4>5. Sends(c)!ActiveTasks(T) \cap S = {}
        BY DEF Sends!ActiveTasks, Sends!Active
      <4>6. Cardinality(Sends(c)!ActiveTasks(T) \cup S) = Cardinality(Sends(c)!ActiveTasks(T)) + Cardinality(S)
        <5>1. Cardinality(Sends(c)!ActiveTasks(T) \cup S)
                = Cardinality(Sends(c)!ActiveTasks(T)) + Cardinality(S) - Cardinality(Sends(c)!ActiveTasks(T) \cap S)
          BY <2>1, <4>2, FS_Union
        <5>2. Cardinality(Sends(c)!ActiveTasks(T) \cap S) = 0
          BY <4>5, FS_EmptySet
        <5> QED BY <2>1, <4>2, <5>1, <5>2
      <4>7. Cardinality(Sends(c)!ActiveTasks(T)) + Cardinality(S) <= c.concurrent
        BY <2>1, <4>2, <4>3, <4>4 DEF SendBounds
      <4>8. Cardinality(Sends(c)!ActiveTasks(task'[t])) <= c.concurrent
        BY <4>1, <4>6, <4>7
      <4> QED BY <3>2, <4>8
    <3> QED BY <3>1, <3>2
  <2> QED BY <2>9, <2>10, <2>11, <2>12 DEF Fits
<1> QED BY <1>1, <1>2 DEF Moves

-----------------------------------------------------------------------------
(* What a step may do to the map of tab t, to the runs and to the server for *)
(* all to agree afterwards: runs end, or lose their task; those of t fit the *)
(* map of t; no more of it is active than before.                            *)
Onward(c) ==
  \A e \in c.entries :
    /\ entry[e] # "awaiting_upload" => entry'[e] # "awaiting_upload"
    /\ entry[e] = "canceled" => entry'[e] = "canceled"
RunsShrink(t, R) ==
  \A q \in Both : R[q].at # "free" =>
    /\ run[q].at # "free" /\ R[q].tab = run[q].tab /\ R[q].entry = run[q].entry
    /\ (R[q].own => run[q].own) /\ (R[q].tab # t => R[q].own = run[q].own)
RunsOfTabFit(t, T, R) ==
  \A q \in Both : R[q].at # "free" /\ R[q].tab = t =>
    \/ R[q].own /\ T[R[q].entry].status \in {"uploading", "completing"}
    \/ /\ ~R[q].own /\ T[R[q].entry].status = "none"
       /\ seen'[t][R[q].entry] = "canceled" /\ entry'[R[q].entry] = "canceled"
PicksOfTabFit(t, T, R) == \A e \in picking'[t] : T[e].status = "none" /\ \A q \in Both : ~Is(R, q, t, e)
Becomes(c, t, T, R) ==
  /\ RunsShrink(t, R) /\ RunsOfTabFit(t, T, R) /\ PicksOfTabFit(t, T, R)
  /\ \A s \in c.tabs : s # t => seen'[s] = seen[s] /\ picking'[s] = picking[s]
  /\ Sends(c)!ActiveTasks(T) \subseteq Sends(c)!ActiveTasks(task[t])

LEMMA ActiveBounded ==
  ASSUME NEW c, SendBounds(c), NEW T, NEW U, Sends(c)!ActiveTasks(U) \subseteq Sends(c)!ActiveTasks(T),
         Cardinality(Sends(c)!ActiveTasks(T)) <= c.concurrent
  PROVE  Cardinality(Sends(c)!ActiveTasks(U)) <= c.concurrent
<1>1. IsFiniteSet(Sends(c)!ActiveTasks(T))
  BY FS_Subset DEF SendBounds, Sends!ActiveTasks
<1>2. /\ IsFiniteSet(Sends(c)!ActiveTasks(U))
      /\ Cardinality(Sends(c)!ActiveTasks(U)) <= Cardinality(Sends(c)!ActiveTasks(T))
  BY <1>1, FS_Subset
<1>3. Cardinality(Sends(c)!ActiveTasks(T)) \in Nat /\ Cardinality(Sends(c)!ActiveTasks(U)) \in Nat
  BY <1>1, <1>2, FS_CardinalityType
<1> QED BY <1>2, <1>3 DEF SendBounds

LEMMA FitsAfter ==
  ASSUME NEW c, SendBounds(c), SendTyped(c), Fits(c, task, run, seen, entry, picking), Onward(c),
         NEW t \in c.tabs, NEW T \in Maps(c), NEW R \in Pools(c), Becomes(c, t, T, R)
  PROVE  Fits(c, [task EXCEPT ![t] = T], R, seen', entry', picking')
<1> DEFINE M == [task EXCEPT ![t] = T]
<1>1. M[t] = T /\ \A s \in c.tabs : s # t => M[s] = task[s]
  BY DEF SendTyped
<1> HIDE DEF M
<1>2. \A q \in Both : R[q].at # "free" => R[q].tab \in c.tabs /\ R[q].entry \in c.entries
  BY DEF Pools, Works
<1>3. RunsFit(M, R, seen', entry')
  <2> SUFFICES ASSUME NEW q \in Both, R[q].at # "free"
               PROVE  \/ R[q].own /\ M[R[q].tab][R[q].entry].status \in {"uploading", "completing"}
                      \/ /\ ~R[q].own /\ M[R[q].tab][R[q].entry].status = "none"
                         /\ seen'[R[q].tab][R[q].entry] = "canceled" /\ entry'[R[q].entry] = "canceled"
    BY DEF RunsFit
  <2>1. CASE R[q].tab = t
    BY <1>1, <2>1 DEF Becomes, RunsOfTabFit
  <2>2. CASE R[q].tab # t
    <3>1. /\ run[q].at # "free" /\ R[q].tab = run[q].tab /\ R[q].entry = run[q].entry /\ R[q].own = run[q].own
          /\ M[R[q].tab] = task[run[q].tab] /\ seen'[R[q].tab] = seen[run[q].tab]
      BY <1>1, <1>2, <2>2 DEF Becomes, RunsShrink
    <3>2. entry[R[q].entry] = "canceled" => entry'[R[q].entry] = "canceled"
      BY <1>2 DEF Onward
    <3> QED BY <3>1, <3>2 DEF Fits, RunsFit
  <2> QED BY <2>1, <2>2
<1>4. OneRun(R)
  BY DEF Fits, OneRun, Is, Becomes, RunsShrink
<1>5. PicksFit(c, M, R, picking')
  <2> SUFFICES ASSUME NEW s \in c.tabs, NEW e \in picking'[s]
               PROVE  M[s][e].status = "none" /\ \A q \in Both : ~Is(R, q, s, e)
    BY DEF PicksFit
  <2>1. CASE s = t
    BY <1>1, <2>1 DEF Becomes, PicksOfTabFit
  <2>2. CASE s # t
    BY <1>1, <2>2 DEF Becomes, RunsShrink, Is, Fits, PicksFit
  <2> QED BY <2>1, <2>2
<1>6. Bounded(c, M)
  <2> SUFFICES ASSUME NEW s \in c.tabs PROVE Cardinality(Sends(c)!ActiveTasks(M[s])) <= c.concurrent
    BY DEF Bounded
  <2>1. Cardinality(Sends(c)!ActiveTasks(task[s])) <= c.concurrent
    BY DEF Fits, Bounded
  <2>2. CASE s # t
    BY <1>1, <2>1, <2>2
  <2>3. CASE s = t
    <3>1. Cardinality(Sends(c)!ActiveTasks(T)) <= c.concurrent
      BY <2>1, <2>3, ActiveBounded DEF Becomes
    <3> QED BY <1>1, <2>3, <3>1
  <2> QED BY <2>2, <2>3
<1> QED BY <1>3, <1>4, <1>5, <1>6 DEF Fits, M

(* A step that moves the map and the runs of a tab.                          *)
LEMMA MoveKeeps ==
  ASSUME NEW c, SendBounds(c), SendInv(c), Onward(c),
         NEW t \in c.tabs, NEW T \in Maps(c), NEW R \in Pools(c), Moves(c, t, T, R),
         \A e \in c.entries : T[e].status = "done" => entry'[e] # "awaiting_upload", RunsTrue(R, entry'),
         SeenTrue(c, seen', entry'), picking' \in [c.tabs -> SUBSET c.entries],
         c.signouts = 0 => Becomes(c, t, T, R)
  PROVE  /\ task' \in [c.tabs -> Maps(c)] /\ run' \in Pools(c)
         /\ TasksTrue(c, task, entry)' /\ RunsTrue(run, entry)' /\ SeenTrue(c, seen, entry)'
         /\ (c.signouts = 0 => Fits(c, task, run, seen, entry, picking)')
<1>1. task \in [c.tabs -> Maps(c)] /\ SendTyped(c)
  BY DEF SendInv, SendTyped
<1>2. TasksTrue(c, [task EXCEPT ![t] = T], entry')
  <2>1. TasksTrue(c, task, entry)
    BY DEF SendInv
  <2> QED BY <1>1, <2>1 DEF TasksTrue, Onward
<1>3. task' \in [c.tabs -> Maps(c)] /\ run' \in Pools(c)
  BY <1>1, MovesTyped
<1>4. TasksTrue(c, task', entry') /\ RunsTrue(run', entry')
  BY <1>1, <1>2, MovesTrue
<1>5. c.signouts = 0 => Fits(c, task', run', seen', entry', picking')
  <2> SUFFICES ASSUME c.signouts = 0 PROVE Fits(c, task', run', seen', entry', picking')
    OBVIOUS
  <2>1. Fits(c, [task EXCEPT ![t] = T], R, seen', entry', picking')
    BY <1>1, FitsAfter DEF SendInv
  <2> QED BY <1>1, <2>1, MovesFit
<1>6. TasksTrue(c, task, entry)' /\ RunsTrue(run, entry)' /\ SeenTrue(c, seen, entry)'
  BY <1>4 DEF TasksTrue, RunsTrue, SeenTrue
<1>7. c.signouts = 0 => Fits(c, task, run, seen, entry, picking)'
  BY <1>5 DEF Fits, RunsFit, OneRun, PicksFit, Bounded, Is, Sends!ActiveTasks
<1> QED BY <1>3, <1>6, <1>7

(* A step that leaves the maps and runs alone.                               *)
LEMMA OthersKeep ==
  ASSUME NEW c, SendBounds(c), SendInv(c), Onward(c), UNCHANGED <<task, run>>, SeenTrue(c, seen', entry'),
         \A t \in c.tabs, e \in c.entries :
           entry[e] = "canceled" /\ seen[t][e] = "canceled" => seen'[t][e] = "canceled",
         c.signouts = 0 => PicksFit(c, task, run, picking')
  PROVE  /\ task' \in [c.tabs -> Maps(c)] /\ run' \in Pools(c)
         /\ TasksTrue(c, task, entry)' /\ RunsTrue(run, entry)' /\ SeenTrue(c, seen, entry)'
         /\ (c.signouts = 0 => Fits(c, task, run, seen, entry, picking)')
<1>1. \A r \in Both : run[r].at # "free" => run[r].tab \in c.tabs /\ run[r].entry \in c.entries
  BY DEF SendInv, SendTyped, Pools, Works
<1>2. task' \in [c.tabs -> Maps(c)] /\ run' \in Pools(c)
  BY DEF SendInv, SendTyped
<1>3. TasksTrue(c, task, entry)'
  BY DEF SendInv, TasksTrue, Onward
<1>4. RunsTrue(run, entry)'
  <2> SUFFICES ASSUME NEW r \in Both, run[r].at = "completed", run[r].ok PROVE entry'[run[r].entry] # "awaiting_upload"
    BY DEF RunsTrue
  <2>1. run[r].entry \in c.entries /\ entry[run[r].entry] # "awaiting_upload"
    BY <1>1 DEF SendInv, RunsTrue
  <2> QED BY <2>1 DEF Onward
<1>5. SeenTrue(c, seen, entry)'
  BY DEF SeenTrue
<1>6. ASSUME c.signouts = 0 PROVE Fits(c, task, run, seen, entry, picking)'
  <2>1. Fits(c, task, run, seen, entry, picking)
    BY <1>6 DEF SendInv
  <2>2. RunsFit(task, run, seen, entry)'
    BY <1>1, <2>1 DEF Fits, RunsFit, Onward
  <2>3. OneRun(run)' /\ Bounded(c, task)'
    BY <2>1 DEF Fits, OneRun, Bounded, Is, Sends!ActiveTasks
  <2>4. PicksFit(c, task, run, picking)'
    BY <1>6 DEF PicksFit, Is
  <2> QED BY <2>2, <2>3, <2>4 DEF Fits
<1> QED BY <1>2, <1>3, <1>4, <1>5, <1>6

-----------------------------------------------------------------------------
(* A receipt that fetches shows what the server has; one that is left shows  *)
(* nothing.                                                                  *)
Fetches(c) ==
  \/ seen' = seen
  \/ \E t \in c.tabs : seen' = [seen EXCEPT ![t] = entry'] \/ seen' = [seen EXCEPT ![t] = [e \in c.entries |-> "none"]]

LEMMA SeenAfter ==
  ASSUME NEW c, SendInv(c), Onward(c), entry' \in [c.entries -> EntryStates], Fetches(c)
  PROVE  SeenTrue(c, seen', entry') /\ seen' \in [c.tabs -> [c.entries -> EntryStates \cup {"none"}]]
<1>1. seen \in [c.tabs -> [c.entries -> EntryStates \cup {"none"}]] /\ SeenTrue(c, seen, entry)
  BY DEF SendInv, SendTyped
<1>2. CASE seen' = seen
  BY <1>1, <1>2 DEF SeenTrue, Onward
<1>3. ASSUME NEW t \in c.tabs, seen' = [seen EXCEPT ![t] = entry']
      PROVE  SeenTrue(c, seen', entry') /\ seen' \in [c.tabs -> [c.entries -> EntryStates \cup {"none"}]]
  <2>1. seen' \in [c.tabs -> [c.entries -> EntryStates \cup {"none"}]]
    BY <1>1, <1>3
  <2>2. \A e \in c.entries : entry'[e] # "none"
    BY DEF EntryStates
  <2> QED BY <1>1, <1>3, <2>1, <2>2 DEF SeenTrue, Onward
<1>4. ASSUME NEW t \in c.tabs, seen' = [seen EXCEPT ![t] = [e \in c.entries |-> "none"]]
      PROVE  SeenTrue(c, seen', entry') /\ seen' \in [c.tabs -> [c.entries -> EntryStates \cup {"none"}]]
  <2>1. seen' \in [c.tabs -> [c.entries -> EntryStates \cup {"none"}]]
    BY <1>1, <1>4
  <2> QED BY <1>1, <1>4, <2>1 DEF SeenTrue, Onward
<1> QED BY <1>2, <1>3, <1>4 DEF Fetches

(* A run goes on with its request: its task, if it still has one, is active. *)
LEMMA RunEdited ==
  ASSUME NEW c, SendBounds(c), SendInv(c), Onward(c), NEW r \in Both, run[r].at # "free", NEW w \in Works(c),
         w.tab = run[r].tab, w.entry = run[r].entry, w.own = run[r].own,
         NEW T \in Maps(c), task' = [task EXCEPT ![run[r].tab] = T], run' = [run EXCEPT ![r] = w],
         \A e \in c.entries :
           \/ T[e].status = task[run[r].tab][e].status
           \/ e = run[r].entry /\ task[run[r].tab][e].status # "none" /\ T[e].status = "completing",
         w.at = "completed" /\ w.ok => entry'[w.entry] # "awaiting_upload",
         entry' \in [c.entries -> EntryStates], object' \in [c.entries -> 0..c.files],
         accepted' \in [c.entries -> 0..c.files], failures' \in 0..c.faults,
         (UNCHANGED <<user, leaving, begun, seen, picking, cancel, signOuts>>)
  PROVE  SendInv(c)'
<1> DEFINE t == run[r].tab
           R == [run EXCEPT ![r] = w]
<1>1. /\ t \in c.tabs /\ run[r].entry \in c.entries /\ run \in Pools(c) /\ R \in Pools(c) /\ R[r] = w
      /\ \A q \in Both : q # r => R[q] = run[q]
  BY DEF SendInv, SendTyped, Pools, Works
<1>2. SendTyped(c) /\ task \in [c.tabs -> Maps(c)]
  BY DEF SendInv, SendTyped
<1>3. Moves(c, t, T, R)
  BY DEF Moves, Sends!NoPump
<1> HIDE DEF R, t
<1>4. \A e \in c.entries : T[e].status = "done" => entry'[e] # "awaiting_upload"
  BY <1>1 DEF SendInv, TasksTrue, Onward, t
<1>5. RunsTrue(R, entry')
  <2> SUFFICES ASSUME NEW q \in Both, R[q].at = "completed", R[q].ok PROVE entry'[R[q].entry] # "awaiting_upload"
    BY DEF RunsTrue
  <2>1. CASE q = r
    BY <1>1, <2>1
  <2>2. CASE q # r
    <3>1. run[q].entry \in c.entries /\ entry[run[q].entry] # "awaiting_upload" /\ R[q] = run[q]
      BY <1>1, <2>2 DEF SendInv, RunsTrue, Pools, Works
    <3> QED BY <3>1 DEF Onward
  <2> QED BY <2>1, <2>2
<1>6. ASSUME c.signouts = 0 PROVE Becomes(c, t, T, R)
  <2>1. RunsFit(task, run, seen, entry) /\ PicksFit(c, task, run, picking)
    BY <1>6 DEF SendInv, Fits
  <2>2. RunsShrink(t, R)
    BY <1>1 DEF RunsShrink
  <2>3. RunsOfTabFit(t, T, R)
    <3> SUFFICES ASSUME NEW q \in Both, R[q].at # "free", R[q].tab = t
        PROVE  \/ R[q].own /\ T[R[q].entry].status \in {"uploading", "completing"}
               \/ /\ ~R[q].own /\ T[R[q].entry].status = "none"
                  /\ seen'[t][R[q].entry] = "canceled" /\ entry'[R[q].entry] = "canceled"
      BY DEF RunsOfTabFit
    <3>1. /\ run[q].at # "free" /\ R[q].tab = run[q].tab /\ R[q].entry = run[q].entry /\ R[q].own = run[q].own
          /\ R[q].entry \in c.entries
      BY <1>1 DEF Pools, Works
    <3>2. \/ R[q].own /\ task[t][R[q].entry].status \in {"uploading", "completing"}
          \/ /\ ~R[q].own /\ task[t][R[q].entry].status = "none"
             /\ seen[t][R[q].entry] = "canceled" /\ entry[R[q].entry] = "canceled"
      BY <2>1, <3>1 DEF RunsFit
    <3> QED BY <3>1, <3>2 DEF Onward, t
  <2>4. PicksOfTabFit(t, T, R)
    <3> SUFFICES ASSUME NEW e \in picking[t] PROVE T[e].status = "none" /\ \A q \in Both : ~Is(R, q, t, e)
      BY DEF PicksOfTabFit
    <3>1. e \in c.entries /\ task[t][e].status = "none" /\ \A q \in Both : ~Is(run, q, t, e)
      BY <1>1, <1>2, <2>1 DEF PicksFit, SendTyped
    <3> QED BY <1>1, <3>1 DEF Is, t
  <2>5. Sends(c)!ActiveTasks(T) \subseteq Sends(c)!ActiveTasks(task[t])
    <3>1. task[t][run[r].entry].status \in {"none", "uploading", "completing"}
      BY <2>1 DEF RunsFit, t
    <3> QED BY <3>1 DEF Sends!ActiveTasks, Sends!Active, t
  <2> QED BY <2>2, <2>3, <2>4, <2>5 DEF Becomes
<1>7. Fetches(c)
  BY DEF Fetches
<1>8. /\ SeenTrue(c, seen', entry') /\ seen' \in [c.tabs -> [c.entries -> EntryStates \cup {"none"}]]
      /\ picking' \in [c.tabs -> SUBSET c.entries]
  BY <1>2, <1>7, SeenAfter DEF SendTyped
<1>9. /\ task' \in [c.tabs -> Maps(c)] /\ run' \in Pools(c)
      /\ TasksTrue(c, task, entry)' /\ RunsTrue(run, entry)' /\ SeenTrue(c, seen, entry)'
      /\ (c.signouts = 0 => Fits(c, task, run, seen, entry, picking)')
  BY <1>1, <1>3, <1>4, <1>5, <1>6, <1>8, MoveKeeps
<1>10. SendTyped(c)'
  BY <1>2, <1>8, <1>9 DEF SendTyped
<1>11. NotBegun(c)' /\ CancelsTrue(c)' /\ Stays(c)'
  <2>1. begun' = TRUE
    BY <1>2 DEF SendInv, NotBegun, SendTyped
  <2>2. CancelsTrue(c)' /\ Stays(c)'
    BY DEF SendInv, CancelsTrue, Stays, Onward
  <2> QED BY <2>1, <2>2 DEF NotBegun
<1> QED BY <1>9, <1>10, <1>11 DEF SendInv

LEMMA RunRests ==
  ASSUME NEW c, SendBounds(c), SendInv(c), NEW r \in Both, run[r].at # "free"
  PROVE  /\ run[r] \in Works(c) /\ task[run[r].tab] \in Maps(c) /\ run[r].tab \in c.tabs
         /\ run[r].entry \in c.entries
         /\ task = [task EXCEPT ![run[r].tab] = task[run[r].tab]]
BY DEF SendInv, SendTyped, Pools, Works

LEMMA FaultCounts ==
  ASSUME NEW c, SendBounds(c), SendInv(c), failures' = failures \/ Sends(c)!Fault PROVE failures' \in 0..c.faults
BY DEF SendBounds, SendInv, SendTyped, Sends!Fault

(* A task of the map takes a new record, unless it has left the map.         *)
LEMMA TaskTurned ==
  ASSUME NEW c, NEW M \in Maps(c), NEW e \in c.entries, NEW k, NEW s,
         M[e].status # "none" => k \in Tasks(c) /\ k.status = s,
         NEW T, T = IF M[e].status = "none" THEN M ELSE [M EXCEPT ![e] = k]
  PROVE  /\ T \in Maps(c)
         /\ \A d \in c.entries :
              T[d].status = M[d].status \/ (d = e /\ M[e].status # "none" /\ T[d].status = s)
<1>1. CASE M[e].status = "none"
  BY <1>1
<1>2. CASE M[e].status # "none"
  <2>1. T = [M EXCEPT ![e] = k] /\ k \in Tasks(c) /\ k.status = s
    BY <1>2
  <2>2. T \in Maps(c) /\ \A d \in c.entries : T[d] = IF d = e THEN k ELSE M[d]
    BY <2>1 DEF Maps
  <2> QED BY <1>2, <2>1, <2>2
<1> QED BY <1>1, <1>2

LEMMA RenewsKeep ==
  ASSUME NEW c, SendBounds(c), SendInv(c), NEW r \in Both,
         Sends(c)!HandleRenew(r) \/ Sends(c)!RenewAnswered(r)
  PROVE  SendInv(c)'
<1>1. SendTyped(c)
  BY DEF SendInv
<1>2. Onward(c) /\ entry' \in [c.entries -> EntryStates] /\ object' \in [c.entries -> 0..c.files]
      /\ accepted' \in [c.entries -> 0..c.files] /\ UNCHANGED <<user, leaving, begun, seen, picking, cancel, signOuts>>
  BY <1>1 DEF SendTyped, Onward, Sends!HandleRenew, Sends!RenewAnswered
<1>3. run[r].at # "free" /\ failures' \in 0..c.faults
  BY FaultCounts DEF Sends!HandleRenew, Sends!RenewAnswered
<1>4. /\ run[r] \in Works(c) /\ task[run[r].tab] \in Maps(c) /\ run[r].tab \in c.tabs
      /\ run[r].entry \in c.entries /\ task = [task EXCEPT ![run[r].tab] = task[run[r].tab]] /\ run \in Pools(c)
  BY <1>1, <1>3, RunRests DEF SendTyped
<1>5. CASE Sends(c)!HandleRenew(r)
  <2>1. PICK b \in BOOLEAN : run' = [run EXCEPT ![r].at = "renewed", ![r].ok = b]
    BY <1>5 DEF Sends!HandleRenew
  <2> DEFINE w == [run[r] EXCEPT !.at = "renewed", !.ok = b]
  <2>2. w \in Works(c) /\ w.tab = run[r].tab /\ w.entry = run[r].entry /\ w.own = run[r].own /\ w.at = "renewed"
    BY <1>4 DEF Works
  <2>3. run' = [run EXCEPT ![r] = w] /\ task' = [task EXCEPT ![run[r].tab] = task[run[r].tab]]
    BY <1>4, <1>5, <2>1 DEF Pools, Sends!HandleRenew
  <2> HIDE DEF w
  <2> QED BY <1>2, <1>3, <1>4, <2>2, <2>3, RunEdited
<1>6. CASE Sends(c)!RenewAnswered(r)
  <2>1. PICK a \in {"put", "fail"} : run' = [run EXCEPT ![r].at = a]
    BY <1>6 DEF Sends!RenewAnswered
  <2> DEFINE w == [run[r] EXCEPT !.at = a]
             e == run[r].entry
             T == [task[run[r].tab] EXCEPT ![e].url = TRUE]
  <2>2. w \in Works(c) /\ w.tab = run[r].tab /\ w.entry = run[r].entry /\ w.own = run[r].own /\ w.at = a
    BY <1>4 DEF Works
  <2>3. run' = [run EXCEPT ![r] = w]
    BY <1>4, <2>1 DEF Pools
  <2>4. T \in Maps(c) /\ \A d \in c.entries : T[d].status = task[run[r].tab][d].status
    <3> DEFINE M == task[run[r].tab]
               k == [M[e] EXCEPT !.url = TRUE]
    <3>1. M \in Maps(c) /\ e \in c.entries
      BY <1>4
    <3>2. T = [M EXCEPT ![e] = k]
      OBVIOUS
    <3>3. M[e] \in Tasks(c)
      BY <3>1 DEF Maps
    <3>4. k \in Tasks(c) /\ k.status = M[e].status
      BY <3>3 DEF Tasks
    <3> HIDE DEF M, k, T, e
    <3>5. T \in Maps(c) /\ \A d \in c.entries : T[d].status = M[d].status
      BY <3>1, <3>2, <3>4 DEF Maps
    <3> QED BY <3>5 DEF M
  <2>5. task' = [task EXCEPT ![run[r].tab] = T] \/ task' = [task EXCEPT ![run[r].tab] = task[run[r].tab]]
    BY <1>1, <1>4, <1>6 DEF Sends!RenewAnswered, SendTyped
  <2>6. w.at # "completed"
    BY <2>2
  <2> HIDE DEF w, T
  <2> QED BY <1>2, <1>3, <1>4, <2>2, <2>3, <2>4, <2>5, <2>6, RunEdited
<1> QED BY <1>5, <1>6

LEMMA PutsKeep ==
  ASSUME NEW c, SendBounds(c), SendInv(c), NEW r \in Both,
         Sends(c)!PutStored(r) \/ Sends(c)!PutAnswered(r) \/ Sends(c)!PutFails(r)
  PROVE  SendInv(c)'
<1>1. SendTyped(c)
  BY DEF SendInv
<1>2. run[r].at # "free" /\ failures' \in 0..c.faults
  BY FaultCounts DEF Sends!PutStored, Sends!PutAnswered, Sends!PutFails, Sends!Sending
<1>3. /\ run[r] \in Works(c) /\ task[run[r].tab] \in Maps(c) /\ run[r].tab \in c.tabs
      /\ run[r].entry \in c.entries /\ task = [task EXCEPT ![run[r].tab] = task[run[r].tab]] /\ run \in Pools(c)
  BY <1>1, <1>2, RunRests DEF SendTyped
<1>4. run[r].file \in 0..c.files
  BY <1>3 DEF Works, SendBounds
<1>5. Onward(c) /\ entry' \in [c.entries -> EntryStates] /\ object' \in [c.entries -> 0..c.files]
      /\ accepted' \in [c.entries -> 0..c.files] /\ UNCHANGED <<user, leaving, begun, seen, picking, cancel, signOuts>>
  BY <1>1, <1>4 DEF SendTyped, Onward, Sends!PutStored, Sends!PutAnswered, Sends!PutFails
<1>6. CASE Sends(c)!PutStored(r) \/ Sends(c)!PutFails(r)
  <2>1. PICK a \in {"stored", "fail"} : run' = [run EXCEPT ![r].at = a]
    BY <1>6 DEF Sends!PutStored, Sends!PutFails
  <2> DEFINE w == [run[r] EXCEPT !.at = a]
  <2>2. w \in Works(c) /\ w.tab = run[r].tab /\ w.entry = run[r].entry /\ w.own = run[r].own /\ w.at = a
    BY <1>3 DEF Works
  <2>3. run' = [run EXCEPT ![r] = w] /\ task' = [task EXCEPT ![run[r].tab] = task[run[r].tab]]
    BY <1>3, <1>6, <2>1 DEF Pools, Sends!PutStored, Sends!PutFails
  <2>4. w.at # "completed"
    BY <2>2
  <2> HIDE DEF w
  <2> QED BY <1>2, <1>3, <1>5, <2>2, <2>3, <2>4, RunEdited
<1>7. CASE Sends(c)!PutAnswered(r)
  <2>1. PICK b \in BOOLEAN : run' = [run EXCEPT ![r].at = "complete", ![r].ok = b]
    BY <1>7 DEF Sends!PutAnswered, Sends!NoPump
  <2> DEFINE w == [run[r] EXCEPT !.at = "complete", !.ok = b]
             T == Sends(c)!Updated(task[run[r].tab], run[r].entry, "completing")
  <2>2. w \in Works(c) /\ w.tab = run[r].tab /\ w.entry = run[r].entry /\ w.own = run[r].own /\ w.at = "complete"
    BY <1>3 DEF Works
  <2>3. run' = [run EXCEPT ![r] = w] /\ task' = [task EXCEPT ![run[r].tab] = T]
    BY <1>3, <1>7, <2>1 DEF Pools, Sends!PutAnswered, Sends!NoPump
  <2>4. T \in Maps(c) /\ \A e \in c.entries :
           \/ T[e].status = task[run[r].tab][e].status
           \/ e = run[r].entry /\ task[run[r].tab][e].status # "none" /\ T[e].status = "completing"
    <3> DEFINE M == task[run[r].tab]
               e == run[r].entry
               k == [M[e] EXCEPT !.status = "completing"]
    <3>1. M \in Maps(c) /\ e \in c.entries
      BY <1>3
    <3>2. M[e] \in Tasks(c)
      BY <3>1 DEF Maps
    <3>3. T = IF M[e].status = "none" THEN M ELSE [M EXCEPT ![e] = k]
      BY DEF Sends!Updated
    <3>4. M[e].status # "none" => k \in Tasks(c) /\ k.status = "completing"
      BY <3>2 DEF Tasks
    <3> HIDE DEF M, e, k, T
    <3>5. T \in Maps(c) /\ \A d \in c.entries :
             T[d].status = M[d].status \/ (d = e /\ M[e].status # "none" /\ T[d].status = "completing")
      BY <3>1, <3>3, <3>4, TaskTurned
    <3> QED BY <3>5 DEF M, e
  <2> HIDE DEF w, T
  <2> QED BY <1>2, <1>3, <1>5, <2>2, <2>3, <2>4, RunEdited
<1> QED BY <1>6, <1>7

LEMMA CompleteKeeps ==
  ASSUME NEW c, SendBounds(c), SendInv(c), NEW r \in Both, Sends(c)!HandleComplete(r) PROVE SendInv(c)'
<1> USE DEF Sends!HandleComplete
<1>1. SendTyped(c)
  BY DEF SendInv
<1>2. run[r].at # "free" /\ UNCHANGED <<object, user, leaving, task, begun, seen, picking, cancel, signOuts>>
  OBVIOUS
<1>3. /\ run[r] \in Works(c) /\ task[run[r].tab] \in Maps(c) /\ run[r].tab \in c.tabs
      /\ run[r].entry \in c.entries /\ task = [task EXCEPT ![run[r].tab] = task[run[r].tab]] /\ run \in Pools(c)
  BY <1>1, <1>2, RunRests DEF SendTyped
<1>4. failures' \in 0..c.faults
  <2>1. failures' = failures \/ Sends(c)!Fault
    OBVIOUS
  <2> QED BY <2>1, FaultCounts
<1>5. \/ /\ entry[run[r].entry] = "awaiting_upload" /\ entry' = [entry EXCEPT ![run[r].entry] = "uploaded"]
         /\ accepted' = [accepted EXCEPT ![run[r].entry] = object[run[r].entry]]
      \/ entry' = entry /\ accepted' = accepted
  OBVIOUS
<1>6. PICK b \in BOOLEAN :
        /\ run' = [run EXCEPT ![r].at = "completed", ![r].ok = b]
        /\ b => \/ entry[run[r].entry] \in {"uploaded", "ready", "failed", "canceled"} /\ entry' = entry
               \/ entry' = [entry EXCEPT ![run[r].entry] = "uploaded"]
  <2>1. \/ /\ run' = [run EXCEPT ![r].at = "completed", ![r].ok = TRUE]
           /\ \/ entry[run[r].entry] \in {"uploaded", "ready", "failed"} /\ entry' = entry
              \/ entry' = [entry EXCEPT ![run[r].entry] = "uploaded"]
        \/ run' = [run EXCEPT ![r].at = "completed", ![r].ok = FALSE]
        \/ /\ entry[run[r].entry] = "canceled" /\ entry' = entry
           /\ \E b \in BOOLEAN : run' = [run EXCEPT ![r].at = "completed", ![r].ok = b]
    OBVIOUS
  <2> QED BY <2>1
<1>7. Onward(c) /\ entry' \in [c.entries -> EntryStates] /\ object' \in [c.entries -> 0..c.files]
      /\ accepted' \in [c.entries -> 0..c.files]
  <2> HIDE DEF Sends!HandleComplete
  <2>1. entry' \in [c.entries -> EntryStates] /\ Onward(c)
    BY <1>1, <1>3, <1>5 DEF SendTyped, Onward, EntryStates
  <2>2. accepted' \in [c.entries -> 0..c.files]
    BY <1>1, <1>3, <1>5 DEF SendTyped
  <2> QED BY <1>1, <1>2, <2>1, <2>2 DEF SendTyped
<1> DEFINE w == [run[r] EXCEPT !.at = "completed", !.ok = b]
<1>8. w \in Works(c) /\ w.tab = run[r].tab /\ w.entry = run[r].entry /\ w.own = run[r].own /\ w.ok = b
  BY <1>3 DEF Works
<1>9. run' = [run EXCEPT ![r] = w] /\ task' = [task EXCEPT ![run[r].tab] = task[run[r].tab]]
  BY <1>2, <1>3, <1>6 DEF Pools
<1>10. b => entry'[run[r].entry] # "awaiting_upload"
  BY <1>1, <1>3, <1>6 DEF SendTyped
<1> HIDE DEF w
<1> QED BY <1>2, <1>3, <1>4, <1>7, <1>8, <1>9, <1>10, RunEdited

(* A run ends, its task done or failed, and others may start.                *)
LEMMA EndKeeps ==
  ASSUME NEW c, SendBounds(c), SendInv(c), NEW r \in Both, Sends(c)!EndRun(r) PROVE SendInv(c)'
<1> DEFINE t == run[r].tab
           e == run[r].entry
           st == Sends(c)!EndStatus(r)
           T == Sends(c)!Updated(task[t], e, st)
           R == [run EXCEPT ![r] = [at |-> "free"]]
<1>1. SendTyped(c)
  BY DEF SendInv
<1>2. /\ run[r].at # "free" /\ Sends(c)!Pump(t, T, R)
      /\ UNCHANGED <<entry, object, accepted, user, leaving, begun, seen, picking, cancel, failures, signOuts>>
  BY DEF Sends!EndRun, Sends!PumpAfterRun, Sends!FreeRun
<1>3. /\ run[r] \in Works(c) /\ task[t] \in Maps(c) /\ t \in c.tabs /\ e \in c.entries /\ run \in Pools(c)
  BY <1>1, <1>2, RunRests DEF SendTyped
<1>4. st \in {"done", "failed"} /\ (st = "done" => run[r].at = "completed" /\ run[r].ok)
  BY DEF Sends!EndStatus, Sends!AnswerOk
<1> HIDE DEF st
<1>5. /\ T \in Maps(c) /\ \A d \in c.entries : d # e => T[d] = task[t][d]
      /\ IF task[t][e].status = "none" THEN T[e] = task[t][e] ELSE T[e].status = st
  BY <1>3, <1>4 DEF Maps, Tasks, Sends!Updated
<1>6. R \in Pools(c) /\ R[r].at = "free" /\ \A q \in Both : q # r => R[q] = run[q]
  BY <1>3 DEF Pools
<1> HIDE DEF T, R, t, e
<1>7. Onward(c) /\ Moves(c, t, T, R)
  BY <1>2 DEF Onward, Moves
<1>8. \A d \in c.entries : T[d].status = "done" => entry'[d] # "awaiting_upload"
  <2> SUFFICES ASSUME NEW d \in c.entries, T[d].status = "done" PROVE entry[d] # "awaiting_upload"
    BY <1>2
  <2>1. CASE T[d] = task[t][d]
    BY <1>3, <2>1 DEF SendInv, TasksTrue
  <2>2. CASE d = e /\ st = "done"
    BY <1>4, <2>2 DEF SendInv, RunsTrue, e
  <2> QED BY <1>5, <2>1, <2>2
<1>9. RunsTrue(R, entry')
  BY <1>2, <1>6 DEF SendInv, RunsTrue
<1>10. SeenTrue(c, seen', entry') /\ picking' \in [c.tabs -> SUBSET c.entries]
  BY <1>1, <1>2 DEF SendInv, SendTyped, SeenTrue
<1>11. ASSUME c.signouts = 0 PROVE Becomes(c, t, T, R)
  <2>1. RunsFit(task, run, seen, entry) /\ OneRun(run) /\ PicksFit(c, task, run, picking)
    BY <1>11 DEF SendInv, Fits
  <2>2. RunsShrink(t, R)
    BY <1>6 DEF RunsShrink
  <2>3. RunsOfTabFit(t, T, R)
    <3> SUFFICES ASSUME NEW q \in Both, R[q].at # "free", R[q].tab = t
        PROVE  \/ R[q].own /\ T[R[q].entry].status \in {"uploading", "completing"}
               \/ /\ ~R[q].own /\ T[R[q].entry].status = "none"
                  /\ seen'[t][R[q].entry] = "canceled" /\ entry'[R[q].entry] = "canceled"
      BY DEF RunsOfTabFit
    <3>1. R[q] = run[q] /\ q # r /\ R[q].entry \in c.entries
      BY <1>6 DEF Pools, Works
    <3>2. \/ run[q].own /\ task[t][run[q].entry].status \in {"uploading", "completing"}
          \/ /\ ~run[q].own /\ task[t][run[q].entry].status = "none"
             /\ seen[t][run[q].entry] = "canceled" /\ entry[run[q].entry] = "canceled"
      BY <2>1, <3>1 DEF RunsFit
    <3>3. CASE run[q].entry # e
      BY <1>2, <1>5, <3>1, <3>2, <3>3
    <3>4. CASE run[q].entry = e
      <4>1. ~run[q].own
        <5>1. SUFFICES ASSUME run[q].own PROVE FALSE
          OBVIOUS
        <5>2. task[t][e].status # "none"
          BY <3>2, <3>4, <5>1
        <5>3. run[r].own
          BY <1>2, <2>1, <5>2 DEF RunsFit, t, e
        <5> QED BY <1>2, <2>1, <3>1, <3>4, <5>1, <5>3 DEF OneRun, Is, t, e
      <4> QED BY <1>2, <1>5, <3>1, <3>2, <3>4, <4>1
    <3> QED BY <3>3, <3>4
  <2>4. PicksOfTabFit(t, T, R)
    <3> SUFFICES ASSUME NEW d \in picking[t] PROVE T[d].status = "none" /\ \A q \in Both : ~Is(R, q, t, d)
      BY <1>2 DEF PicksOfTabFit
    <3>1. d \in c.entries /\ task[t][d].status = "none" /\ \A q \in Both : ~Is(run, q, t, d)
      BY <1>1, <1>3, <2>1 DEF PicksFit, SendTyped
    <3> QED BY <1>5, <1>6, <3>1 DEF Is
  <2>5. Sends(c)!ActiveTasks(T) \subseteq Sends(c)!ActiveTasks(task[t])
    BY <1>4, <1>5 DEF Sends!ActiveTasks, Sends!Active
  <2> QED BY <1>2, <2>2, <2>3, <2>4, <2>5 DEF Becomes
<1>12. /\ task' \in [c.tabs -> Maps(c)] /\ run' \in Pools(c)
       /\ TasksTrue(c, task, entry)' /\ RunsTrue(run, entry)' /\ SeenTrue(c, seen, entry)'
       /\ (c.signouts = 0 => Fits(c, task, run, seen, entry, picking)')
  BY <1>3, <1>5, <1>6, <1>7, <1>8, <1>9, <1>10, <1>11, MoveKeeps
<1>13. SendTyped(c)'
  BY <1>1, <1>2, <1>12 DEF SendTyped
<1>14. NotBegun(c)' /\ CancelsTrue(c)' /\ Stays(c)'
  <2>1. begun' = TRUE
    BY <1>1, <1>2 DEF SendInv, NotBegun, SendTyped
  <2>2. CancelsTrue(c)' /\ Stays(c)'
    BY <1>2 DEF SendInv, CancelsTrue, Stays
  <2> QED BY <2>1, <2>2 DEF NotBegun
<1> QED BY <1>12, <1>13, <1>14 DEF SendInv

-----------------------------------------------------------------------------
(* The receipt polls and is used, and the server goes on: no map and no run  *)
(* changes.                                                                  *)
LEMMA SeenKept ==
  ASSUME NEW c, SendInv(c), Onward(c), entry' \in [c.entries -> EntryStates],
         seen' = seen \/ \E t \in c.tabs : seen' = [seen EXCEPT ![t] = entry']
  PROVE  \A t \in c.tabs, e \in c.entries :
           entry[e] = "canceled" /\ seen[t][e] = "canceled" => seen'[t][e] = "canceled"
BY DEF SendInv, SendTyped, Onward

LEMMA OtherStep ==
  ASSUME NEW c, SendBounds(c), SendInv(c), Onward(c), entry' \in [c.entries -> EntryStates],
         (UNCHANGED <<object, accepted, task, run, begun, picking, leaving, signOuts>>), failures' \in 0..c.faults,
         seen' = seen \/ (begun = TRUE /\ \E t \in c.tabs : seen' = [seen EXCEPT ![t] = entry']),
         user' \in [c.tabs -> {"member", "other", "none"}],
         cancel' \in [c.tabs -> [c.entries -> {"no", "sent", "done", "refused"}]],
         cancel' = cancel \/ begun = TRUE, CancelsTrue(c)'
  PROVE  SendInv(c)'
<1>1. SeenTrue(c, seen', entry') /\ seen' \in [c.tabs -> [c.entries -> EntryStates \cup {"none"}]]
  BY SeenAfter DEF Fetches
<1>2. \A t \in c.tabs, e \in c.entries :
           entry[e] = "canceled" /\ seen[t][e] = "canceled" => seen'[t][e] = "canceled"
  BY SeenKept
<1>3. c.signouts = 0 => PicksFit(c, task, run, picking')
  BY DEF SendInv, Fits
<1>4. /\ task' \in [c.tabs -> Maps(c)] /\ run' \in Pools(c)
      /\ TasksTrue(c, task, entry)' /\ RunsTrue(run, entry)' /\ SeenTrue(c, seen, entry)'
      /\ (c.signouts = 0 => Fits(c, task, run, seen, entry, picking)')
  BY <1>1, <1>2, <1>3, OthersKeep
<1>5. SendTyped(c)'
  BY <1>1, <1>4 DEF SendInv, SendTyped
<1>6. NotBegun(c)' /\ Stays(c)'
  BY DEF SendInv, NotBegun, Stays
<1> QED BY <1>4, <1>5, <1>6 DEF SendInv

(* A receipt that shows something shows a batch that was begun.              *)
LEMMA ShowingBegun ==
  ASSUME NEW c, SendInv(c), NEW t \in c.tabs, Sends(c)!Showing(t) PROVE begun = TRUE
BY DEF SendInv, SendTyped, NotBegun, Sends!Showing

LEMMA FetchesKeep ==
  ASSUME NEW c, SendBounds(c), SendInv(c), NEW t \in c.tabs, Sends(c)!Poll(t) \/ Sends(c)!Focus(t)
  PROVE  SendInv(c)'
<1>1. begun = TRUE
  BY ShowingBegun DEF SendInv, SendTyped, Sends!Poll, Sends!Focus
<1>2. /\ seen' = [seen EXCEPT ![t] = entry'] /\ entry' = entry /\ user' = user /\ cancel' = cancel /\ failures' = failures
      /\ (UNCHANGED <<object, accepted, task, run, begun, picking, leaving, signOuts>>)
  BY DEF Sends!Poll, Sends!Focus, Sends!Fetch
<1>3. /\ Onward(c) /\ entry' \in [c.entries -> EntryStates] /\ failures' \in 0..c.faults
      /\ user' \in [c.tabs -> {"member", "other", "none"}]
      /\ cancel' \in [c.tabs -> [c.entries -> {"no", "sent", "done", "refused"}]] /\ CancelsTrue(c)'
  BY <1>2 DEF SendInv, SendTyped, Onward, CancelsTrue
<1> QED BY <1>1, <1>2, <1>3, OtherStep

LEMMA ServerKeeps ==
  ASSUME NEW c, SendBounds(c), SendInv(c), NEW e \in c.entries,
         \/ Sends(c)!Validated(e)
         \/ \E t \in c.tabs : Sends(c)!HandleCancel(t, e) \/ Sends(c)!TryAgain(t, e) \/ Sends(c)!CancelPhoto(t, e)
  PROVE  SendInv(c)'
<1> USE DEF Sends!Validated, Sends!HandleCancel, Sends!TryAgain, Sends!CancelPhoto
<1>1. SendTyped(c) /\ CancelsTrue(c)
  BY DEF SendInv
<1>2. UNCHANGED <<object, accepted, task, run, begun, picking, leaving, signOuts, user>>
  OBVIOUS
<1>3. Onward(c) /\ entry' \in [c.entries -> EntryStates]
  BY <1>1 DEF SendTyped, Onward, EntryStates
<1>4. failures' \in 0..c.faults
  BY FaultCounts
<1>5. seen' = seen \/ (begun = TRUE /\ \E t \in c.tabs : seen' = [seen EXCEPT ![t] = entry'])
  BY ShowingBegun
<1>6. cancel' \in [c.tabs -> [c.entries -> {"no", "sent", "done", "refused"}]] /\ (cancel' = cancel \/ begun = TRUE)
  <2>1. \/ cancel' = cancel
        \/ \E t \in c.tabs, a \in {"sent", "done", "refused"} :
             /\ cancel' = [cancel EXCEPT ![t][e] = a]
             /\ Sends(c)!Showing(t) \/ cancel[t][e] = "sent"
    OBVIOUS
  <2>2. CASE cancel' = cancel
    BY <1>1, <2>2 DEF SendTyped
  <2>3. ASSUME NEW t \in c.tabs, NEW a \in {"sent", "done", "refused"}, cancel' = [cancel EXCEPT ![t][e] = a],
               Sends(c)!Showing(t) \/ cancel[t][e] = "sent"
        PROVE  cancel' \in [c.tabs -> [c.entries -> {"no", "sent", "done", "refused"}]] /\ begun = TRUE
    <3>1. begun = TRUE
      BY <1>1, <2>3, ShowingBegun DEF SendInv, NotBegun, SendTyped
    <3> QED BY <1>1, <2>3, <3>1 DEF SendTyped
  <2> QED BY <2>1, <2>2, <2>3
<1>7. CancelsTrue(c)'
  <2> SUFFICES ASSUME NEW s \in c.tabs, NEW d \in c.entries, cancel'[s][d] = "done" PROVE entry'[d] = "canceled"
    BY DEF CancelsTrue
  <2>1. CASE cancel[s][d] = "done"
    BY <1>1, <1>3, <2>1 DEF CancelsTrue, Onward
  <2>2. CASE cancel[s][d] # "done"
    <3>1. \/ cancel' = cancel
          \/ \E t \in c.tabs, a \in {"sent", "refused"} : cancel' = [cancel EXCEPT ![t][e] = a]
          \/ /\ \E t \in c.tabs : cancel' = [cancel EXCEPT ![t][e] = "done"]
             /\ entry' = [entry EXCEPT ![e] = "canceled"]
      OBVIOUS
    <3> HIDE DEF Sends!Validated, Sends!HandleCancel, Sends!TryAgain, Sends!CancelPhoto
    <3>2. \A t \in c.tabs, a \in {"sent", "refused", "done"} :
            cancel' = [cancel EXCEPT ![t][e] = a] => \/ cancel'[s][d] = cancel[s][d]
                                                   \/ (d = e /\ cancel'[s][d] = a)
      BY <1>1 DEF SendTyped
    <3>3. d = e /\ entry' = [entry EXCEPT ![e] = "canceled"]
      BY <2>2, <3>1, <3>2
    <3> QED BY <1>1, <3>3 DEF SendTyped
  <2> QED BY <2>1, <2>2
<1>8. user' \in [c.tabs -> {"member", "other", "none"}]
  BY <1>1, <1>2 DEF SendTyped
<1> QED BY <1>2, <1>3, <1>4, <1>5, <1>6, <1>7, <1>8, OtherStep

LEMMA SessionBeginsKeep ==
  ASSUME NEW c, SendBounds(c), SendInv(c), NEW t \in c.tabs, Sends(c)!SignIn(t) PROVE SendInv(c)'
<1>1. SendTyped(c)
  BY DEF SendInv
<1>2. UNCHANGED <<entry, object, accepted, leaving, task, run, begun, seen, picking, cancel, failures, signOuts>>
  BY DEF Sends!SignIn
<1>3. user' \in [c.tabs -> {"member", "other", "none"}]
  BY <1>1 DEF Sends!SignIn, SendTyped
<1>4. /\ Onward(c) /\ entry' \in [c.entries -> EntryStates] /\ failures' \in 0..c.faults
      /\ cancel' \in [c.tabs -> [c.entries -> {"no", "sent", "done", "refused"}]] /\ CancelsTrue(c)'
  BY <1>1, <1>2 DEF SendInv, SendTyped, Onward, CancelsTrue
<1> QED BY <1>2, <1>3, <1>4, OtherStep

(* The picker opens for a photo without a task: no run of it is under way.   *)
LEMMA ChooseKeeps ==
  ASSUME NEW c, SendBounds(c), SendInv(c), NEW t \in c.tabs, NEW e \in c.entries, Sends(c)!ChooseAgain(t, e)
  PROVE  SendInv(c)'
<1> USE DEF Sends!ChooseAgain
<1>1. SendTyped(c)
  BY DEF SendInv
<1>2. begun = TRUE
  BY ShowingBegun
<1>3. seen' = seen /\ entry' = entry /\ picking' \in [c.tabs -> SUBSET c.entries]
  BY <1>1 DEF SendTyped
<1>4. Onward(c) /\ SeenTrue(c, seen', entry')
  BY <1>3 DEF Onward, SendInv, SeenTrue
<1>5. ASSUME c.signouts = 0 PROVE PicksFit(c, task, run, picking')
  <2>1. RunsFit(task, run, seen, entry) /\ PicksFit(c, task, run, picking)
    BY <1>5 DEF SendInv, Fits
  <2> SUFFICES ASSUME NEW s \in c.tabs, NEW d \in picking'[s]
               PROVE  task[s][d].status = "none" /\ \A q \in Both : ~Is(run, q, s, d)
    BY DEF PicksFit
  <2>2. CASE s # t
    BY <1>1, <2>1, <2>2 DEF PicksFit, SendTyped
  <2>3. CASE s = t
    <3>1. d = e
      BY <1>1, <2>3 DEF SendTyped
    <3>2. \A q \in Both : ~Is(run, q, t, e)
      BY <2>1 DEF RunsFit, Is
    <3> QED BY <2>3, <3>1, <3>2
  <2> QED BY <2>2, <2>3
<1>6. /\ task' \in [c.tabs -> Maps(c)] /\ run' \in Pools(c)
      /\ TasksTrue(c, task, entry)' /\ RunsTrue(run, entry)' /\ SeenTrue(c, seen, entry)'
      /\ (c.signouts = 0 => Fits(c, task, run, seen, entry, picking)')
  BY <1>3, <1>4, <1>5, OthersKeep
<1>7. SendTyped(c)'
  BY <1>1, <1>3, <1>6 DEF SendTyped
<1>8. NotBegun(c)' /\ CancelsTrue(c)' /\ Stays(c)'
  BY <1>2 DEF SendInv, NotBegun, CancelsTrue, Stays
<1> QED BY <1>6, <1>7, <1>8 DEF SendInv

-----------------------------------------------------------------------------
(* The map of a tab changes otherwise: what was queued by the page is        *)
(* started, as there is room.                                                *)
LEMMA TabKeeps ==
  ASSUME NEW c, SendBounds(c), SendInv(c), NEW t \in c.tabs, NEW T \in Maps(c), NEW R \in Pools(c),
         Moves(c, t, T, R), (UNCHANGED <<entry, object, accepted>>), failures' \in 0..c.faults,
         leaving' \in [c.tabs -> BOOLEAN], signOuts' \in 0..c.signouts, Stays(c)',
         \A e \in c.entries : T[e].status = "done" => entry[e] # "awaiting_upload", RunsTrue(R, entry),
         Fetches(c), picking' \in [c.tabs -> SUBSET c.entries], user' \in [c.tabs -> {"member", "other", "none"}],
         cancel' \in [c.tabs -> [c.entries -> {"no", "sent", "done", "refused"}]],
         \A s \in c.tabs, e \in c.entries : cancel'[s][e] = "done" => cancel[s][e] = "done",
         begun' \in BOOLEAN, NotBegun(c)', c.signouts = 0 => Becomes(c, t, T, R)
  PROVE  SendInv(c)'
<1>1. Onward(c) /\ entry' \in [c.entries -> EntryStates]
  BY DEF SendInv, SendTyped, Onward
<1>2. SeenTrue(c, seen', entry') /\ seen' \in [c.tabs -> [c.entries -> EntryStates \cup {"none"}]]
  BY <1>1, SeenAfter
<1>3. (\A e \in c.entries : T[e].status = "done" => entry'[e] # "awaiting_upload") /\ RunsTrue(R, entry')
  BY DEF RunsTrue
<1>4. /\ task' \in [c.tabs -> Maps(c)] /\ run' \in Pools(c)
      /\ TasksTrue(c, task, entry)' /\ RunsTrue(run, entry)' /\ SeenTrue(c, seen, entry)'
      /\ (c.signouts = 0 => Fits(c, task, run, seen, entry, picking)')
  BY <1>1, <1>2, <1>3, MoveKeeps
<1>5. SendTyped(c)'
  BY <1>1, <1>2, <1>4 DEF SendInv, SendTyped
<1>6. CancelsTrue(c)'
  BY DEF SendInv, CancelsTrue
<1> QED BY <1>4, <1>5, <1>6 DEF SendInv

LEMMA TabMoves ==
  ASSUME NEW c, SendBounds(c), SendInv(c), NEW t \in c.tabs, NEW T \in Maps(c), NEW R \in Pools(c),
         Moves(c, t, T, R), (UNCHANGED <<entry, object, accepted, leaving, signOuts>>), failures' \in 0..c.faults,
         \A e \in c.entries : T[e].status = "done" => entry[e] # "awaiting_upload", RunsTrue(R, entry),
         Fetches(c), picking' \in [c.tabs -> SUBSET c.entries], user' \in [c.tabs -> {"member", "other", "none"}],
         cancel' \in [c.tabs -> [c.entries -> {"no", "sent", "done", "refused"}]],
         \A s \in c.tabs, e \in c.entries : cancel'[s][e] = "done" => cancel[s][e] = "done",
         begun' = TRUE, c.signouts = 0 => Becomes(c, t, T, R)
  PROVE  SendInv(c)'
<1>1. leaving' \in [c.tabs -> BOOLEAN] /\ signOuts' \in 0..c.signouts /\ Stays(c)' /\ NotBegun(c)' /\ begun' \in BOOLEAN
  BY DEF SendInv, SendTyped, Stays, NotBegun
<1> QED BY <1>1, TabKeeps

LEMMA StartsKeep ==
  ASSUME NEW c, SendBounds(c), SendInv(c), NEW t \in c.tabs, Sends(c)!Start(t) PROVE SendInv(c)'
<1> DEFINE T == [e \in c.entries |-> [status |-> "queued", file |-> 1, url |-> TRUE]]
<1>1. /\ ~begun /\ begun' = TRUE /\ seen' = [seen EXCEPT ![t] = entry'] /\ Sends(c)!Pump(t, T, run)
      /\ UNCHANGED <<entry, object, accepted, user, leaving, picking, cancel, failures, signOuts>>
  BY DEF Sends!Start
<1>2. T \in Maps(c) /\ \A e \in c.entries : T[e].status = "queued"
  <2>1. 1 \in 0..c.files
    BY DEF SendBounds
  <2> QED BY <2>1 DEF Maps, Tasks
<1> HIDE DEF T
<1>3. SendTyped(c) /\ run \in Pools(c) /\ RunsTrue(run, entry)
  BY DEF SendInv, SendTyped
<1>4. Moves(c, t, T, run) /\ Fetches(c)
  BY <1>1 DEF Moves, Fetches
<1>5. (\A s \in c.tabs : picking[s] = {}) /\ \A r \in Both : run[r].at = "free"
  BY <1>1 DEF SendInv, NotBegun
<1>6. Becomes(c, t, T, run)
  <2>1. RunsShrink(t, run) /\ RunsOfTabFit(t, T, run) /\ PicksOfTabFit(t, T, run)
    BY <1>1, <1>3, <1>5 DEF RunsShrink, RunsOfTabFit, PicksOfTabFit
  <2>2. Sends(c)!ActiveTasks(T) \subseteq Sends(c)!ActiveTasks(task[t])
    BY <1>2 DEF Sends!ActiveTasks, Sends!Active
  <2> QED BY <1>1, <1>3, <2>1, <2>2 DEF Becomes, SendTyped
<1> QED BY <1>1, <1>2, <1>3, <1>4, <1>6, TabMoves DEF SendTyped

LEMMA RetryKeeps ==
  ASSUME NEW c, SendBounds(c), SendInv(c), NEW t \in c.tabs, NEW e \in c.entries, Sends(c)!RetryPhoto(t, e)
  PROVE  SendInv(c)'
<1> DEFINE T == [task[t] EXCEPT ![e].status = "queued"]
<1>1. /\ Sends(c)!Showing(t) /\ task[t][e].status = "failed" /\ Sends(c)!Pump(t, T, run)
      /\ UNCHANGED <<entry, object, accepted, user, leaving, begun, seen, picking, cancel, failures, signOuts>>
  BY DEF Sends!RetryPhoto
<1>2. SendTyped(c) /\ run \in Pools(c) /\ RunsTrue(run, entry) /\ task[t] \in Maps(c)
  BY DEF SendInv, SendTyped
<1>3. T \in Maps(c) /\ T[e].status = "queued" /\ \A d \in c.entries : d # e => T[d] = task[t][d]
  BY <1>1, <1>2 DEF Maps, Tasks
<1> HIDE DEF T
<1>4. Moves(c, t, T, run) /\ Fetches(c) /\ begun' = TRUE
  BY <1>1, ShowingBegun DEF Moves, Fetches
<1>5. \A d \in c.entries : T[d].status = "done" => entry[d] # "awaiting_upload"
  BY <1>3 DEF SendInv, TasksTrue
<1>6. ASSUME c.signouts = 0 PROVE Becomes(c, t, T, run)
  <2>1. RunsFit(task, run, seen, entry) /\ PicksFit(c, task, run, picking)
    BY <1>6 DEF SendInv, Fits
  <2>2. RunsShrink(t, run)
    BY DEF RunsShrink
  <2>3. RunsOfTabFit(t, T, run)
    <3>1. \A q \in Both : run[q].at # "free" => run[q].entry \in c.entries
      BY <1>2 DEF Pools, Works
    <3> QED BY <1>1, <1>3, <2>1, <3>1 DEF RunsFit, RunsOfTabFit
  <2>4. PicksOfTabFit(t, T, run)
    <3>1. picking[t] \subseteq c.entries
      BY <1>2 DEF SendTyped
    <3> QED BY <1>1, <1>3, <2>1, <3>1 DEF PicksFit, PicksOfTabFit
  <2>5. Sends(c)!ActiveTasks(T) \subseteq Sends(c)!ActiveTasks(task[t])
    BY <1>3 DEF Sends!ActiveTasks, Sends!Active
  <2> QED BY <1>1, <2>2, <2>3, <2>4, <2>5 DEF Becomes
<1> QED BY <1>1, <1>2, <1>3, <1>4, <1>5, <1>6, TabMoves DEF SendTyped

(* A run whose task left the map is on its own, or has ended.                *)
LEMMA DroppedRuns ==
  ASSUME NEW c, SendBounds(c), SendInv(c), NEW t \in c.tabs, NEW E \in SUBSET c.entries
  PROVE  LET R == Sends(c)!Dropped(t, E) IN
         /\ R \in Pools(c)
         /\ RunsTrue(R, entry)
         /\ \A q \in Both : run[q].at = "free" => R[q] = run[q]
         /\ \A q \in Both : run[q].at # "free" =>
              /\ R[q].at # "free" /\ R[q].tab = run[q].tab /\ R[q].entry = run[q].entry
              /\ IF run[q].tab = t /\ run[q].entry \in E THEN ~R[q].own ELSE R[q] = run[q]
<1> DEFINE R == Sends(c)!Dropped(t, E)
<1>1. run \in Pools(c) /\ RunsTrue(run, entry)
  BY DEF SendInv, SendTyped
<1>2. ASSUME NEW q \in Both, run[q].at = "free" PROVE R[q] = run[q]
  BY <1>2 DEF Sends!Dropped, Sends!Busy
<1>3. ASSUME NEW q \in Both, run[q].at # "free"
      PROVE  /\ R[q] \in Works(c) /\ R[q].at # "free" /\ R[q].tab = run[q].tab /\ R[q].entry = run[q].entry
             /\ (IF run[q].tab = t /\ run[q].entry \in E THEN ~R[q].own ELSE R[q] = run[q])
             /\ (R[q].at = "completed" /\ R[q].ok => run[q].at = "completed" /\ run[q].ok)
  <2>1. run[q] \in Works(c)
    BY <1>1, <1>3 DEF Pools
  <2>2. CASE ~(run[q].tab = t /\ run[q].entry \in E)
    <3>1. R[q] = run[q]
      BY <2>2 DEF Sends!Dropped
    <3> QED BY <1>3, <2>1, <2>2, <3>1
  <2>3. CASE run[q].tab = t /\ run[q].entry \in E
    <3>1. PICK a \in {run[q].at, "fail"} : R[q] = [run[q] EXCEPT !.own = FALSE, !.at = a]
      BY <1>3, <2>3 DEF Sends!Dropped, Sends!Busy
    <3>2. a \in {"put", "stored", "renew", "renewed", "complete", "completed", "fail"}
      BY <2>1 DEF Works
    <3> QED BY <2>1, <2>3, <3>1, <3>2 DEF Works
  <2> QED BY <2>2, <2>3
<1>4. R = [q \in Both |-> R[q]]
  BY DEF Sends!Dropped
<1> HIDE DEF R
<1>5. R \in Pools(c)
  <2>1. \A q \in Both : R[q] \in Works(c) \cup {[at |-> "free"]}
    BY <1>1, <1>2, <1>3 DEF Pools
  <2> QED BY <1>4, <2>1 DEF Pools
<1>6. RunsTrue(R, entry)
  BY <1>1, <1>2, <1>3 DEF RunsTrue
<1> QED BY <1>2, <1>3, <1>5, <1>6 DEF R

LEMMA ReselectKeeps ==
  ASSUME NEW c, SendBounds(c), SendInv(c), NEW t \in c.tabs, NEW e \in c.entries, NEW file \in 1..c.files,
         Sends(c)!Reselect(t, e, file)
  PROVE  SendInv(c)'
<1> DEFINE T == [task[t] EXCEPT ![e] = [status |-> "queued", file |-> file, url |-> FALSE]]
           R == Sends(c)!Dropped(t, {e})
<1>1. /\ e \in picking[t] /\ picking' = [picking EXCEPT ![t] = {}] /\ Sends(c)!Pump(t, T, R)
      /\ UNCHANGED <<entry, object, accepted, user, leaving, begun, seen, cancel, failures, signOuts>>
  BY DEF Sends!Reselect
<1>2. SendTyped(c) /\ run \in Pools(c) /\ task[t] \in Maps(c)
  BY DEF SendInv, SendTyped
<1>3. T \in Maps(c) /\ T[e].status = "queued" /\ \A d \in c.entries : d # e => T[d] = task[t][d]
  <2>1. [status |-> "queued", file |-> file, url |-> FALSE] \in Tasks(c)
    <3>1. file \in 0..c.files /\ file # 0
      BY DEF SendBounds
    <3> QED BY <3>1 DEF Tasks
  <2> QED BY <1>2, <2>1 DEF Maps
<1>4. /\ R \in Pools(c) /\ RunsTrue(R, entry)
      /\ \A q \in Both : run[q].at = "free" => R[q] = run[q]
      /\ \A q \in Both : run[q].at # "free" =>
           /\ R[q].at # "free" /\ R[q].tab = run[q].tab /\ R[q].entry = run[q].entry
           /\ IF run[q].tab = t /\ run[q].entry \in {e} THEN ~R[q].own ELSE R[q] = run[q]
  BY DroppedRuns
<1> HIDE DEF T, R
<1>5. Moves(c, t, T, R) /\ Fetches(c) /\ picking' \in [c.tabs -> SUBSET c.entries] /\ begun' = TRUE
  <2>1. begun = TRUE
    BY <1>1, <1>2 DEF SendInv, NotBegun, SendTyped
  <2> QED BY <1>1, <1>2, <2>1 DEF Moves, Fetches, SendTyped
<1>6. \A d \in c.entries : T[d].status = "done" => entry[d] # "awaiting_upload"
  BY <1>3 DEF SendInv, TasksTrue
<1>7. ASSUME c.signouts = 0 PROVE Becomes(c, t, T, R)
  <2>1. RunsFit(task, run, seen, entry) /\ PicksFit(c, task, run, picking)
    BY <1>7 DEF SendInv, Fits
  <2>2. task[t][e].status = "none" /\ \A q \in Both : ~Is(run, q, t, e)
    BY <1>1, <2>1 DEF PicksFit
  <2>3. \A q \in Both : R[q] = run[q]
    BY <1>4, <2>2 DEF Is
  <2>4. RunsShrink(t, R)
    BY <2>3 DEF RunsShrink
  <2>5. RunsOfTabFit(t, T, R)
    <3>1. \A q \in Both : run[q].at # "free" /\ run[q].tab = t => run[q].entry \in c.entries /\ run[q].entry # e
      BY <1>2, <2>2 DEF Pools, Works, Is
    <3> QED BY <1>1, <1>3, <2>1, <2>3, <3>1 DEF RunsFit, RunsOfTabFit
  <2>6. PicksOfTabFit(t, T, R)
    BY <1>1, <1>2 DEF PicksOfTabFit, SendTyped
  <2>7. Sends(c)!ActiveTasks(T) \subseteq Sends(c)!ActiveTasks(task[t])
    BY <1>3 DEF Sends!ActiveTasks, Sends!Active
  <2> QED BY <1>1, <1>2, <2>4, <2>5, <2>6, <2>7 DEF Becomes, SendTyped
<1>8. failures' \in 0..c.faults /\ user' \in [c.tabs -> {"member", "other", "none"}]
      /\ cancel' \in [c.tabs -> [c.entries -> {"no", "sent", "done", "refused"}]]
  BY <1>1, <1>2 DEF SendTyped
<1> QED BY <1>1, <1>3, <1>4, <1>5, <1>6, <1>7, <1>8, TabMoves

(* The photo that was canceled leaves the map; what runs of it is on its own *)
(* and can no longer be of use.                                              *)
LEMMA CanceledKeeps ==
  ASSUME NEW c, SendBounds(c), SendInv(c), NEW t \in c.tabs, NEW e \in c.entries, Sends(c)!CancelAnswered(t, e)
  PROVE  SendInv(c)'
<1>1. /\ cancel[t][e] \in {"done", "refused"} /\ cancel' = [cancel EXCEPT ![t][e] = "no"]
      /\ UNCHANGED <<begun, entry, object, accepted, user, leaving, picking, failures, signOuts>>
  BY DEF Sends!CancelAnswered
<1>2. SendTyped(c) /\ run \in Pools(c) /\ task[t] \in Maps(c)
  BY DEF SendInv, SendTyped
<1>3. /\ cancel' \in [c.tabs -> [c.entries -> {"no", "sent", "done", "refused"}]]
      /\ \A s \in c.tabs, d \in c.entries : cancel'[s][d] = "done" => cancel[s][d] = "done"
  BY <1>1, <1>2 DEF SendTyped
<1>4. begun = TRUE
  BY <1>1, <1>2 DEF SendInv, NotBegun, SendTyped
<1>5. /\ Onward(c) /\ failures' \in 0..c.faults /\ user' \in [c.tabs -> {"member", "other", "none"}]
      /\ entry' \in [c.entries -> EntryStates] /\ picking' \in [c.tabs -> SUBSET c.entries]
  BY <1>1, <1>2 DEF Onward, SendTyped
<1>6. CASE UNCHANGED <<task, run, seen>>
  <2>1. CancelsTrue(c)'
    BY <1>1, <1>3 DEF SendInv, CancelsTrue
  <2> QED BY <1>1, <1>3, <1>4, <1>5, <1>6, <2>1, OtherStep
<1>7. CASE ~(UNCHANGED <<task, run, seen>>)
  <2> DEFINE T == [task[t] EXCEPT ![e] = Sends(c)!NoTask]
             R == Sends(c)!Dropped(t, {e})
  <2>1. cancel[t][e] = "done" /\ Sends(c)!NoPump(t, T, R) /\ seen' = [seen EXCEPT ![t] = entry]
    BY <1>7 DEF Sends!CancelAnswered
  <2>2. entry[e] = "canceled"
    BY <2>1 DEF SendInv, CancelsTrue
  <2>3. T \in Maps(c) /\ T[e].status = "none" /\ \A d \in c.entries : d # e => T[d] = task[t][d]
    <3>1. Sends(c)!NoTask \in Tasks(c) /\ Sends(c)!NoTask.status = "none"
      <4>1. 0 \in 0..c.files
        BY DEF SendBounds
      <4> QED BY <4>1 DEF Sends!NoTask, Tasks
    <3> QED BY <1>2, <3>1 DEF Maps
  <2>4. /\ R \in Pools(c) /\ RunsTrue(R, entry)
        /\ \A q \in Both : run[q].at = "free" => R[q] = run[q]
        /\ \A q \in Both : run[q].at # "free" =>
             /\ R[q].at # "free" /\ R[q].tab = run[q].tab /\ R[q].entry = run[q].entry
             /\ IF run[q].tab = t /\ run[q].entry \in {e} THEN ~R[q].own ELSE R[q] = run[q]
    BY DroppedRuns
  <2> HIDE DEF T, R
  <2>5. Moves(c, t, T, R) /\ Fetches(c)
    BY <1>1, <2>1 DEF Moves, Fetches
  <2>6. \A d \in c.entries : T[d].status = "done" => entry[d] # "awaiting_upload"
    BY <2>3 DEF SendInv, TasksTrue
  <2>7. ASSUME c.signouts = 0 PROVE Becomes(c, t, T, R)
    <3>1. RunsFit(task, run, seen, entry) /\ PicksFit(c, task, run, picking)
      BY <2>7 DEF SendInv, Fits
    <3>2. RunsShrink(t, R)
      BY <2>4 DEF RunsShrink
    <3>3. seen'[t] = entry /\ \A s \in c.tabs : s # t => seen'[s] = seen[s] /\ picking'[s] = picking[s]
      BY <1>1, <1>2, <2>1 DEF SendTyped
    <3>4. RunsOfTabFit(t, T, R)
      <4> SUFFICES ASSUME NEW q \in Both, R[q].at # "free", R[q].tab = t
          PROVE  \/ R[q].own /\ T[R[q].entry].status \in {"uploading", "completing"}
                 \/ /\ ~R[q].own /\ T[R[q].entry].status = "none"
                    /\ seen'[t][R[q].entry] = "canceled" /\ entry'[R[q].entry] = "canceled"
        BY DEF RunsOfTabFit
      <4>1. run[q].at # "free" /\ R[q].tab = run[q].tab /\ R[q].entry = run[q].entry /\ R[q].entry \in c.entries
        BY <2>4 DEF Pools, Works
      <4>2. CASE R[q].entry = e
        BY <1>1, <2>2, <2>3, <2>4, <3>3, <4>1, <4>2
      <4>3. CASE R[q].entry # e
        <5>1. R[q] = run[q] /\ T[R[q].entry] = task[t][R[q].entry]
          BY <2>3, <2>4, <4>1, <4>3
        <5>2. \/ run[q].own /\ task[t][run[q].entry].status \in {"uploading", "completing"}
              \/ /\ ~run[q].own /\ task[t][run[q].entry].status = "none" /\ entry[run[q].entry] = "canceled"
          BY <3>1, <4>1 DEF RunsFit
        <5> QED BY <1>1, <3>3, <5>1, <5>2
      <4> QED BY <4>2, <4>3
    <3>5. PicksOfTabFit(t, T, R)
      <4>1. picking[t] \subseteq c.entries
        BY <1>2 DEF SendTyped
      <4> QED BY <1>1, <2>3, <2>4, <3>1, <4>1 DEF PicksFit, PicksOfTabFit, Is
    <3>6. Sends(c)!ActiveTasks(T) \subseteq Sends(c)!ActiveTasks(task[t])
      BY <2>3 DEF Sends!ActiveTasks, Sends!Active
    <3> QED BY <3>2, <3>3, <3>4, <3>5, <3>6 DEF Becomes
  <2> QED BY <1>1, <1>3, <1>4, <1>5, <2>3, <2>4, <2>5, <2>6, <2>7, TabMoves
<1> QED BY <1>6, <1>7

(* A URL that expired is renewed before it is used.                          *)
LEMMA UrlExpiryKeeps ==
  ASSUME NEW c, SendBounds(c), SendInv(c), NEW t \in c.tabs, NEW e \in c.entries, Sends(c)!UrlExpires(t, e)
  PROVE  SendInv(c)'
<1> DEFINE T == [task[t] EXCEPT ![e].url = FALSE]
<1>1. /\ task[t][e].url /\ task' = [task EXCEPT ![t][e].url = FALSE]
      /\ UNCHANGED <<entry, object, accepted, user, leaving, run, begun, seen, picking, cancel, failures, signOuts>>
  BY DEF Sends!UrlExpires
<1>2. SendTyped(c) /\ run \in Pools(c) /\ RunsTrue(run, entry) /\ task \in [c.tabs -> Maps(c)]
  BY DEF SendInv, SendTyped
<1>3. task' = [task EXCEPT ![t] = T]
  BY <1>1, <1>2
<1>4. T \in Maps(c) /\ \A d \in c.entries : T[d].status = task[t][d].status
  <2>1. task[t] \in [c.entries -> Tasks(c)]
    BY <1>2 DEF Maps
  <2>2. task[t][e] \in Tasks(c)
    BY <2>1
  <2> DEFINE K == [task[t][e] EXCEPT !.url = FALSE]
  <2>3. K \in Tasks(c) /\ K.status = task[t][e].status
    BY <2>2 DEF Tasks
  <2>4. T = [task[t] EXCEPT ![e] = K]
    BY <2>1
  <2> HIDE DEF K, T
  <2>5. \A d \in c.entries : T[d] = IF d = e THEN K ELSE task[t][d]
    BY <2>1, <2>4
  <2>6. T \in [c.entries -> Tasks(c)]
    BY <2>1, <2>3, <2>4
  <2> QED BY <2>3, <2>5, <2>6 DEF Maps
<1> HIDE DEF T
<1>5. task' \in [c.tabs -> Maps(c)]
  BY <1>2, <1>3, <1>4
<1>6. \A s \in c.tabs, d \in c.entries : task'[s][d].status = task[s][d].status
  BY <1>2, <1>3, <1>4
<1>7. SendTyped(c)'
  BY <1>1, <1>2, <1>5 DEF SendTyped
<1>8. NotBegun(c)' /\ CancelsTrue(c)' /\ Stays(c)'
  BY <1>1, <1>6 DEF SendInv, NotBegun, CancelsTrue, Stays
<1>9. TasksTrue(c, task, entry)' /\ RunsTrue(run, entry)' /\ SeenTrue(c, seen, entry)'
  BY <1>1, <1>6 DEF SendInv, TasksTrue, RunsTrue, SeenTrue
<1>10. ASSUME c.signouts = 0 PROVE Fits(c, task, run, seen, entry, picking)'
  <2>1. Fits(c, task, run, seen, entry, picking)
    BY <1>10 DEF SendInv
  <2>2. \A q \in Both : run[q].at # "free" => run[q].tab \in c.tabs /\ run[q].entry \in c.entries
    BY <1>2 DEF Pools, Works
  <2>3. RunsFit(task, run, seen, entry)'
    BY <1>1, <1>6, <2>1, <2>2 DEF Fits, RunsFit
  <2>4. OneRun(run)'
    BY <1>1, <2>1 DEF Fits, OneRun, Is
  <2>5. PicksFit(c, task, run, picking)'
    <3>1. \A s \in c.tabs : picking[s] \subseteq c.entries
      BY <1>2 DEF SendTyped
    <3> QED BY <1>1, <1>6, <2>1, <3>1 DEF Fits, PicksFit, Is
  <2>6. Bounded(c, task)'
    <3>1. \A s \in c.tabs : Sends(c)!ActiveTasks(task'[s]) = Sends(c)!ActiveTasks(task[s])
      BY <1>6 DEF Sends!ActiveTasks
    <3>2. Bounded(c, task')
      BY <2>1, <3>1 DEF Fits, Bounded
    <3> QED BY <3>2 DEF Bounded, Sends!ActiveTasks
  <2> QED BY <2>3, <2>4, <2>5, <2>6 DEF Fits
<1> QED BY <1>7, <1>8, <1>9, <1>10 DEF SendInv

(* A session that is left loses its photos, its receipt and its tasks.       *)
LEMMA SessionsKeep ==
  ASSUME NEW c, SendBounds(c), SendInv(c), NEW t \in c.tabs, Sends(c)!SignOut(t) \/ Sends(c)!SessionEnds(t)
  PROVE  SendInv(c)'
<1> DEFINE T == [e \in c.entries |-> Sends(c)!NoTask]
           R == Sends(c)!Dropped(t, c.entries)
<1>1. SendTyped(c) /\ run \in Pools(c)
  BY DEF SendInv, SendTyped
<1>2. /\ Sends(c)!NoPump(t, T, R) /\ seen' = [seen EXCEPT ![t] = [e \in c.entries |-> "none"]]
      /\ UNCHANGED <<begun, entry, object, accepted, cancel, failures>>
  BY DEF Sends!SignOut, Sends!SessionEnds, Sends!Disposed
<1>3. c.signouts # 0
  BY <1>1 DEF Sends!SignOut, Sends!SessionEnds, SendInv, Stays, SendTyped, SendBounds
<1>4. /\ leaving' \in [c.tabs -> BOOLEAN] /\ signOuts' \in 0..c.signouts
      /\ user' \in [c.tabs -> {"member", "other", "none"}] /\ picking' \in [c.tabs -> SUBSET c.entries]
  <2>1. CASE Sends(c)!SignOut(t)
    BY <1>1, <2>1 DEF Sends!SignOut, SendTyped, SendBounds
  <2>2. CASE Sends(c)!SessionEnds(t)
    BY <1>1, <2>2 DEF Sends!SessionEnds, SendTyped
  <2> QED BY <2>1, <2>2
<1>5. Sends(c)!NoTask \in Tasks(c) /\ Sends(c)!NoTask.status = "none"
  <2>1. 0 \in 0..c.files
    BY DEF SendBounds
  <2> QED BY <2>1 DEF Sends!NoTask, Tasks
<1>6. T \in Maps(c) /\ \A e \in c.entries : T[e].status = "none"
  BY <1>5 DEF Maps
<1>7. R \in Pools(c) /\ RunsTrue(R, entry) /\ \A q \in Both : run[q].at = "free" => R[q] = run[q]
  BY DroppedRuns
<1> HIDE DEF T, R
<1>8. Moves(c, t, T, R) /\ Fetches(c) /\ Stays(c)'
  BY <1>2, <1>3 DEF Moves, Fetches, Stays
<1>9. NotBegun(c)'
  <2> SUFFICES ASSUME ~begun PROVE
        /\ \A s \in c.tabs : picking'[s] = {}
        /\ \A s \in c.tabs, e \in c.entries :
             task'[s][e].status = "none" /\ seen'[s][e] = "none" /\ cancel'[s][e] = "no"
        /\ \A r \in Both : run'[r].at = "free"
    BY <1>2 DEF NotBegun
  <2>1. NotBegun(c)
    BY DEF SendInv
  <2>2. \A s \in c.tabs : picking'[s] = {}
    <3>1. picking \in [c.tabs -> SUBSET c.entries] /\ \A s \in c.tabs : picking[s] = {}
      BY <1>1, <2>1 DEF NotBegun, SendTyped
    <3>2. picking' = picking \/ picking' = [picking EXCEPT ![t] = {}]
      BY DEF Sends!SignOut, Sends!SessionEnds
    <3> QED BY <3>1, <3>2
  <2>3. \A s \in c.tabs, e \in c.entries : task'[s][e].status = "none" /\ seen'[s][e] = "none"
    BY <1>1, <1>2, <1>6, <2>1 DEF NotBegun, SendTyped, Sends!NoPump
  <2>4. \A r \in Both : run'[r].at = "free"
    BY <1>2, <1>7, <2>1 DEF NotBegun, Sends!NoPump
  <2> QED BY <1>2, <2>1, <2>2, <2>3, <2>4 DEF NotBegun
<1> QED BY <1>1, <1>2, <1>3, <1>4, <1>6, <1>7, <1>8, <1>9, TabKeeps DEF SendTyped

LEMMA CloseKeeps ==
  ASSUME NEW c, SendBounds(c), SendInv(c), NEW t \in c.tabs, Sends(c)!CloseTab(t) PROVE SendInv(c)'
<1> DEFINE T == [e \in c.entries |-> Sends(c)!NoTask]
           R == [r \in Both |-> IF Sends(c)!Busy(r) /\ run[r].tab = t THEN [at |-> "free"] ELSE run[r]]
<1>1. SendTyped(c) /\ run \in Pools(c)
  BY DEF SendInv, SendTyped
<1>2. /\ task' = [task EXCEPT ![t] = T] /\ run' = R /\ seen' = [seen EXCEPT ![t] = [e \in c.entries |-> "none"]]
      /\ user' = [user EXCEPT ![t] = "none"] /\ picking' = [picking EXCEPT ![t] = {}]
      /\ cancel' = [cancel EXCEPT ![t] = [e \in c.entries |-> "no"]]
      /\ UNCHANGED <<entry, object, accepted, leaving, begun, signOuts>>
  BY DEF Sends!CloseTab, Sends!FreeRun
<1>3. begun' = TRUE /\ failures' \in 0..c.faults
  BY <1>2, ShowingBegun, FaultCounts DEF Sends!CloseTab
<1>4. Sends(c)!NoTask \in Tasks(c) /\ Sends(c)!NoTask.status = "none"
  <2>1. 0 \in 0..c.files
    BY DEF SendBounds
  <2> QED BY <2>1 DEF Sends!NoTask, Tasks
<1>5. T \in Maps(c) /\ \A e \in c.entries : T[e].status = "none"
  BY <1>4 DEF Maps
<1>6. R \in Pools(c) /\ \A r \in Both : R[r].at = "free" \/ (R[r] = run[r] /\ run[r].tab # t)
  BY <1>1 DEF Pools, Sends!Busy
<1>7. Moves(c, t, T, R) /\ Fetches(c)
  BY <1>2 DEF Moves, Fetches, Sends!NoPump
<1> HIDE DEF T, R
<1>8. RunsTrue(R, entry)
  BY <1>6 DEF SendInv, RunsTrue
<1>9. /\ user' \in [c.tabs -> {"member", "other", "none"}] /\ picking' \in [c.tabs -> SUBSET c.entries]
      /\ cancel' \in [c.tabs -> [c.entries -> {"no", "sent", "done", "refused"}]]
      /\ \A s \in c.tabs, e \in c.entries : cancel'[s][e] = "done" => cancel[s][e] = "done"
  BY <1>1, <1>2 DEF SendTyped
<1>10. Becomes(c, t, T, R)
  <2>1. RunsShrink(t, R) /\ RunsOfTabFit(t, T, R)
    BY <1>6 DEF RunsShrink, RunsOfTabFit
  <2>2. PicksOfTabFit(t, T, R)
    BY <1>1, <1>2 DEF PicksOfTabFit, SendTyped
  <2>3. Sends(c)!ActiveTasks(T) \subseteq Sends(c)!ActiveTasks(task[t])
    BY <1>5 DEF Sends!ActiveTasks, Sends!Active
  <2> QED BY <1>1, <1>2, <2>1, <2>2, <2>3 DEF Becomes, SendTyped
<1> QED BY <1>2, <1>3, <1>5, <1>6, <1>7, <1>8, <1>9, <1>10, TabMoves

LEMMA SendStutters ==
  ASSUME NEW c, SendInv(c), UNCHANGED clientVars PROVE SendInv(c)'
<1> USE DEF clientVars
<1>1. SendTyped(c)' /\ NotBegun(c)' /\ CancelsTrue(c)' /\ Stays(c)'
  BY DEF SendInv, SendTyped, NotBegun, CancelsTrue, Stays
<1>2. TasksTrue(c, task, entry)' /\ RunsTrue(run, entry)' /\ SeenTrue(c, seen, entry)'
  BY DEF SendInv, TasksTrue, RunsTrue, SeenTrue
<1>3. (c.signouts = 0 => Fits(c, task, run, seen, entry, picking)')
  <2>1. c.signouts = 0 => RunsFit(task, run, seen, entry)' /\ OneRun(run)'
    BY DEF SendInv, Fits, RunsFit, OneRun, Is
  <2>2. c.signouts = 0 => PicksFit(c, task, run, picking)'
    BY DEF SendInv, Fits, PicksFit, Is
  <2>3. c.signouts = 0 => Bounded(c, task)'
    BY DEF SendInv, Fits, Bounded, Sends!ActiveTasks
  <2> QED BY <2>1, <2>2, <2>3 DEF Fits
<1> QED BY <1>1, <1>2, <1>3 DEF SendInv

LEMMA SendStep ==
  ASSUME NEW c, SendBounds(c), SendInv(c), Sends(c)!Next PROVE SendInv(c)'
<1>1. CASE \E r \in Both : Sends(c)!RunStep(r)
  BY <1>1, RenewsKeep, PutsKeep, CompleteKeeps, EndKeeps DEF Sends!RunStep
<1>2. CASE \E e \in c.entries : Sends(c)!Validated(e)
  BY <1>2, ServerKeeps
<1>3. ASSUME NEW t \in c.tabs,
             \/ Sends(c)!Start(t) \/ Sends(c)!Poll(t) \/ Sends(c)!Focus(t)
             \/ Sends(c)!SignOut(t) \/ Sends(c)!SessionEnds(t) \/ Sends(c)!SignIn(t) \/ Sends(c)!CloseTab(t)
      PROVE  SendInv(c)'
  BY <1>3, StartsKeep, FetchesKeep, SessionsKeep, SessionBeginsKeep, CloseKeeps
<1>4. ASSUME NEW t \in c.tabs, NEW e \in c.entries,
             Sends(c)!UrlExpires(t, e) \/ Sends(c)!Receipt(t, e) \/ Sends(c)!CancelStep(t, e)
      PROVE  SendInv(c)'
  <2>1. CASE Sends(c)!UrlExpires(t, e)
    BY <2>1, UrlExpiryKeeps
  <2>2. CASE Sends(c)!Receipt(t, e)
    BY <2>2, RetryKeeps, ChooseKeeps, ServerKeeps, ReselectKeeps DEF Sends!Receipt
  <2>3. CASE Sends(c)!CancelStep(t, e)
    BY <2>3, ServerKeeps, CanceledKeeps DEF Sends!CancelStep
  <2> QED BY <1>4, <2>1, <2>2, <2>3
<1> QED BY <1>1, <1>2, <1>3, <1>4 DEF Sends!Next
-----------------------------------------------------------------------------
(* For any tabs, photos, limits and losses: a photo called sent is with the  *)
(* server, the tab asks to be kept open while one is on its way and, as long *)
(* as nobody signs out, sends no more at once than it may.                   *)
(*                                             [pump, run, UploadReceipt]    *)
THEOREM AnySentAsTold ==
  ASSUME NEW c, SendBounds(c)
  PROVE  Sends(c)!Spec => [](Truthful(c) /\ (c.signouts = 0 => Sends(c)!TransfersBounded))
<1>1. Sends(c)!Init => SendInv(c)
  BY SendStarts
<1>2. SendInv(c) /\ [Sends(c)!Next]_(Sends(c)!vars) => SendInv(c)'
  <2>1. ASSUME SendInv(c), UNCHANGED Sends(c)!vars PROVE SendInv(c)'
    <3>1. UNCHANGED clientVars
      BY <2>1 DEF Sends!vars, clientVars
    <3> QED BY <2>1, <3>1, SendStutters
  <2> QED BY <2>1, SendStep
<1>3. SendInv(c) => Truthful(c) /\ (c.signouts = 0 => Sends(c)!TransfersBounded)
  BY SendGives
<1> QED BY <1>1, <1>2, <1>3, PTL DEF Sends!Spec

(* For any number of files, requests and losses, and in every mode: no       *)
(* request is refused for how its photos are marked, a request that is sent  *)
(* again makes no second batch and no photo is handed on in two.             *)
(*                       [start, request.current, svc_create_upload_batch]   *)
THEOREM AnyGatheredOnce ==
  ASSUME NEW g, GatherBounds(g) PROVE Gathering(g)!Spec => []Gathered(g)
<1>1. Gathering(g)!Init => GatherInv(g)
  BY GatherStarts
<1>2. GatherInv(g) /\ [Gathering(g)!Next]_(Gathering(g)!vars) => GatherInv(g)'
  <2>1. ASSUME GatherInv(g), UNCHANGED Gathering(g)!vars PROVE GatherInv(g)'
    <3>1. UNCHANGED gatherVars
      BY <2>1 DEF Gathering!vars, gatherVars
    <3> QED BY <2>1, <3>1, GatherStutters
  <2> QED BY <2>1, GatherStep
<1>3. GatherInv(g) => Gathered(g)
  BY GatherGives
<1> QED BY <1>1, <1>2, <1>3, PTL DEF Gathering!Spec

-----------------------------------------------------------------------------
(* The parts as MCBrowser composes them: each is within its bounds, and a    *)
(* behaviour of one leaves the state of the others.                          *)
BrowserInv ==
  /\ part \in {"confirmations", "admissions", "client", "session", "gather", "label"}
  /\ part = "client" => SendInv(Client)
  /\ part = "session" => SendInv(Session)
  /\ part = "gather" => GatherInv(Gather)
  /\ part = "label" => GatherInv(Label)

LEMMA PartsBounded ==
  SendBounds(Client) /\ SendBounds(Session) /\ GatherBounds(Gather) /\ GatherBounds(Label)
<1>1. IsFiniteSet(Both)
  <2>1. IsFiniteSet({one}) /\ Both = {one} \cup {two}
    BY FS_Singleton DEF Both
  <2> QED BY <2>1, FS_AddElement
<1>2. IsFiniteSet({solo})
  BY FS_Singleton
<1>3. SendBounds(Client)
  BY <1>1 DEF SendBounds, Client
<1>4. SendBounds(Session)
  BY <1>2 DEF SendBounds, Session
<1>5. GatherBounds(Gather) /\ GatherBounds(Label)
  BY DEF GatherBounds, Gather, Label
<1> QED BY <1>3, <1>4, <1>5

(* Each part's photos stay as its inductive invariant has them: a request    *)
(* that is kept would be accepted, and the runs of a tab, its map and the    *)
(* server's entries tell of one another.                                     *)
(*              [start, request.current, pump, run, UploadReceipt]           *)
THEOREM BrowserInvariance == BrowserSpec => []BrowserInv
<1>1. BrowserInit => BrowserInv
  <2> SUFFICES ASSUME BrowserInit PROVE BrowserInv
    OBVIOUS
  <2>1. part = "client" => SendInv(Client)
    BY PartsBounded, SendStarts DEF BrowserInit
  <2>2. part = "session" => SendInv(Session)
    BY PartsBounded, SendStarts DEF BrowserInit
  <2>3. part = "gather" => GatherInv(Gather)
    BY PartsBounded, GatherStarts DEF BrowserInit
  <2>4. part = "label" => GatherInv(Label)
    BY PartsBounded, GatherStarts DEF BrowserInit
  <2> QED BY <2>1, <2>2, <2>3, <2>4 DEF BrowserInit, BrowserInv
<1>2. BrowserInv /\ [BrowserNext]_<<part, vars, clientVars, gatherVars>> => BrowserInv'
  <2> SUFFICES ASSUME BrowserInv, [BrowserNext]_<<part, vars, clientVars, gatherVars>>
      PROVE  BrowserInv'
    OBVIOUS
  <2>1. part' = part
    BY DEF BrowserNext
  <2>2. \/ UNCHANGED clientVars
        \/ part = "client" /\ Sends(Client)!Next
        \/ part = "session" /\ Sends(Session)!Next
    BY DEF BrowserNext
  <2>3. \/ UNCHANGED gatherVars
        \/ part = "gather" /\ Gathering(Gather)!Next
        \/ part = "label" /\ Gathering(Label)!Next
    BY DEF BrowserNext
  <2>4. part = "client" => SendInv(Client)'
    BY <2>2, PartsBounded, SendStep, SendStutters DEF BrowserInv
  <2>5. part = "session" => SendInv(Session)'
    BY <2>2, PartsBounded, SendStep, SendStutters DEF BrowserInv
  <2>6. part = "gather" => GatherInv(Gather)'
    BY <2>3, PartsBounded, GatherStep, GatherStutters DEF BrowserInv
  <2>7. part = "label" => GatherInv(Label)'
    BY <2>3, PartsBounded, GatherStep, GatherStutters DEF BrowserInv
  <2> QED BY <2>1, <2>4, <2>5, <2>6, <2>7 DEF BrowserInv
<1> QED BY <1>1, <1>2, PTL DEF BrowserSpec

(* However runs, receipts, cancels, retries, sign-outs and closed tabs       *)
(* interleave, a photo called sent is with the server, the tab asks to be    *)
(* kept open while one is on its way and, as long as nobody signs out, sends *)
(* no more at once than it may.                  [pump, run, UploadReceipt]  *)
THEOREM SentAsTold == BrowserSpec => []PhotosOnTheirWay
<1>1. BrowserInv => PhotosOnTheirWay
  <2> SUFFICES ASSUME BrowserInv PROVE PhotosOnTheirWay
    OBVIOUS
  <2>1. part = "client" => Truthful(Client) /\ Sends(Client)!TransfersBounded
    <3>1. Client.signouts = 0
      BY DEF Client
    <3> QED BY <3>1, PartsBounded, SendGives DEF BrowserInv
  <2>2. part = "session" => Truthful(Session)
    BY PartsBounded, SendGives DEF BrowserInv
  <2> QED BY <2>1, <2>2 DEF PhotosOnTheirWay
<1> QED BY <1>1, BrowserInvariance, PTL

(* However presses, lost answers and changed marks follow one another, no    *)
(* request is refused for how its photos are marked, and no photo is sent in *)
(* two batches.           [start, request.current, svc_create_upload_batch]  *)
THEOREM GatheredAlwaysOnce == BrowserSpec => []GatheredOnce
<1>1. BrowserInv => GatheredOnce
  BY PartsBounded, GatherGives DEF BrowserInv, GatheredOnce
<1> QED BY <1>1, BrowserInvariance, PTL
=============================================================================

------------------------ MODULE MediaDeletion_proofs ------------------------
(* Theorems about MediaDeletion, for any keys and any number of runs: what   *)
(* is published stays, what was rechecked stays gone, and an identity goes   *)
(* after the objects it owned.                                               *)
EXTENDS MediaDeletion, TLAPS

TaskStates == Pending \cup {"none", "done"}
Busy == {"delete", "head", "mark", "commit"}
RunRecords ==
  [at : Busy \cup {"idle", "next"}, todo : SUBSET Tasks, now : Tasks \cup {<<>>},
   absent : BOOLEAN, last : BOOLEAN]

(* The tasks a run has claimed and not worked off.                           *)
Held(x) == x.todo \cup (IF x.at \in Busy THEN {x.now} ELSE {})

(* What a run holds was queued, and a recheck only once its URL had expired. *)
Claimed(t) == t \in Tasks /\ task[t] # "none" /\ (t[2] = "recheck" => window[t[1]] = "shut")
HeldAreClaimed == \A r \in Runs : \A t \in Held(run[r]) : Claimed(t)

(* Only uploads are rechecked, only through a URL that has expired can no    *)
(* more come, and what a run has found absent then is absent.                *)
Rechecks ==
  \A k \in Keys :
    /\ task[<<k, "recheck">>] # "none" => k \in RawKeys
    /\ task[<<k, "recheck">>] \in {"due", "done"} => window[k] = "shut"
    /\ task[<<k, "recheck">>] = "done" => k \notin store
FoundAbsent(x) == x.at = "commit" \/ (x.at = "mark" /\ x.absent)
AbsentStaysAbsent ==
  \A r \in Runs : FoundAbsent(run[r]) /\ run[r].now[2] = "recheck" => run[r].now[1] \notin store
WindowsOnce == \A k \in RawKeys : window[k] # "none" => row[k] # "none" \/ account # "active"

(* What is old enough to be swept is no longer worked on, and what was swept *)
(* had not been published.                                                   *)
SweptAreEnded ==
  \A k \in OutKeys : k \in old \cup sweep.candidates => work[k] = "ended"
OrphansUnpublished ==
  \A k \in OutKeys : task[<<k, "orphan">>] # "none" => work[k] = "ended" /\ row[k] # "live"

(* Once the objects were ready, no task of the account waits again.          *)
Leaving == {"auth_pending", "complete"}
IdentityLast ==
  /\ ~auth => account \in Leaving
  /\ account \in Leaving => \A k \in Keys : task[<<k, "account">>] \notin Pending

MediaInv ==
  /\ TypeOK /\ run \in [Runs -> RunRecords]
  /\ HeldAreClaimed /\ Rechecks /\ AbsentStaysAbsent /\ WindowsOnce
  /\ SweptAreEnded /\ OrphansUnpublished /\ IdentityLast /\ PublishedKept

-----------------------------------------------------------------------------
(* What a step may do to each part of the state, and the types it keeps.     *)
KeyMove(k) ==
  /\ k \in store' /\ k \notin store =>
       (k \in RawKeys /\ window[k] = "open") \/ (k \in OutKeys /\ work[k] = "running")
  /\ k \in store /\ k \notin store' =>
       \E r \in Runs : run[r].at = "delete" /\ run[r].now[1] = k
  /\ k \in old' /\ k \notin old => (k \in OutKeys => work[k] = "ended")
Store ==
  /\ store' \subseteq Keys /\ old' \subseteq store' /\ \A k \in Keys : KeyMove(k)

RowMove(k) ==
  \/ row'[k] = row[k]
  \/ row'[k] = "live" /\ k \in RawKeys
  \/ row'[k] = "live" /\ k \in OutKeys /\ work[k] = "running" /\ k \in store'
  \/ row'[k] = "deleted"
Rows == row' \in [Keys -> {"none", "live", "deleted"}] /\ \A k \in Keys : RowMove(k)

WindowMove(k) ==
  \/ window'[k] = window[k]
  \/ window[k] = "none" /\ window'[k] = "open" /\ row'[k] = "live"
  \/ window[k] = "open" /\ window'[k] = "shut"
Windows == window' \in [RawKeys -> {"none", "open", "shut"}] /\ \A k \in RawKeys : WindowMove(k)

WorkMove(k) ==
  work'[k] = work[k] \/ (work[k] = "none" /\ work'[k] = "running")
    \/ (work[k] = "running" /\ work'[k] = "ended")
Works == work' \in [OutKeys -> {"none", "running", "ended"}] /\ \A k \in OutKeys : WorkMove(k)

Asked(t) ==
  \/ t[2] \in {"removed", "stale"}
  \/ t[2] = "account" /\ account = "active"
  \/ t[2] = "orphan" /\ t[1] \in sweep.candidates /\ row[t[1]] # "live"
TaskMove(t) ==
  \/ task'[t] = task[t]
  \/ /\ task[t] \in Pending /\ task'[t] \in Pending
     /\ t[2] = "recheck" /\ task[t] = "waiting" /\ task'[t] = "due" => window[t[1]] = "shut"
  \/ task'[t] = "due" /\ task[t] \notin Pending /\ Asked(t)
  \/ task'[t] = "waiting" /\ t[2] = "recheck" /\ t[1] \in RawKeys /\ window[t[1]] = "open"
  \/ task'[t] = "done" /\ \E r \in Runs : run[r].at = "commit" /\ run[r].now = t
TaskTable == task' \in [Tasks -> TaskStates] /\ \A t \in Tasks : TaskMove(t)

RunMove(x, y) ==
  /\ \A t \in Held(y) : t \in Held(x) \/ (t \in Tasks /\ task[t] = "due")
  /\ FoundAbsent(y) =>
       y.now = x.now /\ x.at \in Busy /\ (FoundAbsent(x) \/ y.now[1] \notin store')
RunTable == run' \in [Runs -> RunRecords] /\ \A r \in Runs : RunMove(run[r], run'[r])

Sweep ==
  /\ sweep' \in [at : {"idle", "listed"}, candidates : SUBSET Keys]
  /\ sweep'.candidates \subseteq sweep.candidates \cup old

AccountMove ==
  \/ account' = account
  \/ account = "active" /\ account' = "objects_pending"
  \/ /\ account' = "auth_pending" /\ task' = task
     /\ account = "auth_pending" \/ (account = "objects_pending" /\ OwnPending = {})
  \/ account' = "complete" /\ ~auth /\ task' = task
Account ==
  /\ account' \in {"active", "objects_pending", "auth_pending", "complete"} /\ auth' \in BOOLEAN
  /\ AccountMove
  /\ auth' = auth \/ (~auth' /\ account = "auth_pending" /\ account' = account)
Rest ==
  /\ journal' \in {"none", "recorded", "exported"}
  /\ remover' \in {"idle", "exporting", "exported", "removing"} /\ faults' \in 0..MaxFaults

Step ==
  Store /\ Rows /\ Windows /\ Works /\ TaskTable /\ RunTable /\ Sweep /\ Account /\ Rest

-----------------------------------------------------------------------------
(* Such a step keeps the invariant.                                          *)
LEMMA TaskParts ==
  ASSUME NEW t \in Tasks
  PROVE  t[1] \in Keys /\ t[2] \in Reasons /\ t = <<t[1], t[2]>>
BY DEF Tasks

LEMMA TasksOf ==
  ASSUME NEW k \in Keys, NEW s \in Reasons
  PROVE  <<k, s>> \in Tasks /\ <<k, s>>[1] = k /\ <<k, s>>[2] = s
BY DEF Tasks

LEMMA StepTyped == ASSUME MediaInv, Step PROVE TypeOK' /\ run' \in [Runs -> RunRecords]
<1>1. \A r \in Runs :
        /\ run'[r].at \in {"idle", "next", "delete", "head", "mark", "commit"}
        /\ run'[r].todo \subseteq Tasks
        /\ run'[r].now \in Tasks \cup {<<>>}
  BY DEF Step, RunTable, RunRecords, Busy
<1> QED BY <1>1 DEF TypeOK, Step, Store, Rows, Windows, Works, TaskTable, TaskStates, RunTable,
        Sweep, Account, Rest

LEMMA StaysClaimed ==
  ASSUME MediaInv, Step, NEW t \in Tasks, Claimed(t)
  PROVE  Claimed(t)'
<1>1. t[1] \in Keys /\ t = <<t[1], t[2]>> /\ TaskMove(t)
  BY TaskParts DEF Step, TaskTable
<1>2. task'[t] # "none"
  BY <1>1 DEF Claimed, TaskMove, Pending
<1>3. t[2] = "recheck" => window'[t[1]] = "shut"
  <2> HAVE t[2] = "recheck"
  <2>1. t[1] \in RawKeys /\ window[t[1]] = "shut"
    BY <1>1 DEF Claimed, MediaInv, Rechecks
  <2> QED BY <2>1 DEF Step, Windows, WindowMove
<1> QED BY <1>2, <1>3 DEF Claimed

(* A key whose URL has expired is not put again.                             *)
LEMMA ShutStaysAbsent ==
  ASSUME MediaInv, Step, NEW k \in RawKeys, window[k] = "shut", k \notin store
  PROVE  k \notin store'
BY KeysAssumption DEF Step, Store, KeyMove, Keys

LEMMA StepKeepsHeld == ASSUME MediaInv, Step PROVE HeldAreClaimed'
<1> SUFFICES ASSUME NEW r \in Runs, NEW t \in Held(run'[r]) PROVE Claimed(t)'
  BY DEF HeldAreClaimed, Held, Busy
<1>1. t \in Held(run[r]) \/ (t \in Tasks /\ task[t] = "due")
  BY DEF Step, RunTable, RunMove
<1>2. CASE t \in Held(run[r])
  BY <1>2, StaysClaimed DEF MediaInv, HeldAreClaimed, Claimed
<1>3. CASE t \in Tasks /\ task[t] = "due"
  <2>1. t[2] = "recheck" => window[t[1]] = "shut"
    BY <1>3, TaskParts DEF MediaInv, Rechecks
  <2> QED BY <1>3, <2>1, StaysClaimed DEF Claimed
<1> QED BY <1>1, <1>2, <1>3

LEMMA StepKeepsRechecks == ASSUME MediaInv, Step PROVE Rechecks'
<1> SUFFICES ASSUME NEW k \in Keys, NEW t \in Tasks, t = <<k, "recheck">>
             PROVE  /\ task'[t] # "none" => k \in RawKeys
                    /\ task'[t] \in {"due", "done"} => window'[k] = "shut"
                    /\ task'[t] = "done" => k \notin store'
  <2>1. \A k \in Keys : <<k, "recheck">> \in Tasks
    BY TasksOf DEF Reasons
  <2> QED BY <2>1 DEF Rechecks
<1>1. t[1] = k /\ t[2] = "recheck"
  OBVIOUS
<1>2. TaskMove(t)
  BY <1>1 DEF Step, TaskTable
<1>3. /\ task[t] # "none" => k \in RawKeys
      /\ task[t] \in {"due", "done"} => window[k] = "shut"
      /\ task[t] = "done" => k \notin store
  BY DEF MediaInv, Rechecks
<1>4. window[k] = "shut" /\ k \in RawKeys => window'[k] = "shut"
  BY DEF Step, Windows, WindowMove
<1>5. CASE task'[t] = task[t]
  BY <1>3, <1>4, <1>5, ShutStaysAbsent
<1>6. CASE task'[t] = "done" /\ \E r \in Runs : run[r].at = "commit" /\ run[r].now = t
  <2>1. PICK r \in Runs : run[r].at = "commit" /\ run[r].now = t
    BY <1>6
  <2>2. Claimed(t)
    BY <2>1 DEF MediaInv, HeldAreClaimed, Held, Busy
  <2>3. k \in RawKeys /\ window[k] = "shut" /\ k \notin store
    BY <1>1, <1>3, <2>1, <2>2 DEF Claimed, MediaInv, AbsentStaysAbsent, FoundAbsent
  <2> QED BY <1>4, <2>3, ShutStaysAbsent
<1>7. CASE task[t] \in Pending /\ task'[t] \in Pending
           /\ (t[2] = "recheck" /\ task[t] = "waiting" /\ task'[t] = "due" => window[t[1]] = "shut")
  BY <1>1, <1>3, <1>4, <1>7 DEF Pending
<1>8. CASE task'[t] = "waiting" /\ t[1] \in RawKeys
  BY <1>1, <1>8
<1> QED BY <1>1, <1>2, <1>5, <1>6, <1>7, <1>8 DEF TaskMove, Asked

LEMMA StepKeepsAbsent == ASSUME MediaInv, Step PROVE AbsentStaysAbsent'
<1> SUFFICES ASSUME NEW r \in Runs, FoundAbsent(run'[r]), run'[r].now[2] = "recheck"
             PROVE  run'[r].now[1] \notin store'
  BY DEF AbsentStaysAbsent, FoundAbsent
<1> DEFINE t == run[r].now
<1>1. run'[r].now = t /\ t \in Held(run[r]) /\ (FoundAbsent(run[r]) \/ t[1] \notin store')
  BY DEF Step, RunTable, RunMove, Held
<1>2. t \in Tasks /\ task[t] # "none" /\ window[t[1]] = "shut" /\ t[1] \in RawKeys
  BY <1>1, TaskParts DEF MediaInv, HeldAreClaimed, Claimed, Rechecks
<1>3. CASE FoundAbsent(run[r])
  BY <1>1, <1>2, <1>3, ShutStaysAbsent DEF MediaInv, AbsentStaysAbsent
<1> QED BY <1>1, <1>3

LEMMA StepKeepsSwept ==
  ASSUME MediaInv, Step
  PROVE  WindowsOnce' /\ SweptAreEnded' /\ OrphansUnpublished'
<1>1. OutKeys \subseteq Keys /\ RawKeys \subseteq Keys /\ OutKeys \cap RawKeys = {}
  BY KeysAssumption DEF Keys
<1>2. \A k \in OutKeys : work[k] = "ended" => work'[k] = "ended"
  BY DEF Step, Works, WorkMove
<1>3. WindowsOnce'
  <2> SUFFICES ASSUME NEW k \in RawKeys, window'[k] # "none"
               PROVE  row'[k] # "none" \/ account' # "active"
    BY DEF WindowsOnce
  <2>1. RowMove(k) /\ WindowMove(k) /\ (account # "active" => account' # "active")
    BY <1>1 DEF Step, Rows, Windows, Account, AccountMove
  <2>2. window[k] # "none" => row[k] # "none" \/ account # "active"
    BY DEF MediaInv, WindowsOnce
  <2> QED BY <2>1, <2>2 DEF RowMove, WindowMove
<1>4. SweptAreEnded'
  <2> SUFFICES ASSUME NEW k \in OutKeys, k \in old' \cup sweep'.candidates PROVE work'[k] = "ended"
    BY DEF SweptAreEnded
  <2>1. k \in old \cup sweep.candidates \/ (k \in old' /\ k \notin old)
    BY DEF Step, Sweep
  <2>2. work[k] = "ended"
    BY <1>1, <2>1 DEF MediaInv, SweptAreEnded, Step, Store, KeyMove
  <2> QED BY <1>2, <2>2
<1>5. OrphansUnpublished'
  <2> SUFFICES ASSUME NEW k \in OutKeys, task'[<<k, "orphan">>] # "none"
               PROVE  work'[k] = "ended" /\ row'[k] # "live"
    BY DEF OrphansUnpublished
  <2> DEFINE t == <<k, "orphan">>
  <2>1. t \in Tasks /\ t[1] = k /\ t[2] = "orphan"
    BY <1>1, TasksOf DEF Reasons
  <2>2. TaskMove(t) /\ RowMove(k)
    BY <1>1, <2>1 DEF Step, TaskTable, Rows
  <2>3. task[t] # "none" => work[k] = "ended" /\ row[k] # "live"
    BY DEF MediaInv, OrphansUnpublished
  <2>4. task[t] = "none" => work[k] = "ended" /\ row[k] # "live"
    <3> HAVE task[t] = "none"
    <3>1. ~\E r \in Runs : run[r].at = "commit" /\ run[r].now = t
      BY DEF MediaInv, HeldAreClaimed, Held, Busy, Claimed
    <3>2. k \in sweep.candidates /\ row[k] # "live"
      BY <2>1, <2>2, <3>1 DEF TaskMove, Asked, Pending
    <3> QED BY <3>2 DEF MediaInv, SweptAreEnded
  <2>5. work[k] = "ended" /\ row[k] # "live"
    BY <2>3, <2>4
  <2> QED BY <1>1, <1>2, <2>2, <2>5 DEF RowMove
<1> QED BY <1>3, <1>4, <1>5

LEMMA StepKeepsIdentity == ASSUME MediaInv, Step PROVE IdentityLast'
<1>1. account \in Leaving => account' \in Leaving
  BY DEF Step, Account, AccountMove, Leaving
<1>2. ~auth' => account' \in Leaving
  BY <1>1 DEF Step, Account, MediaInv, IdentityLast, Leaving
<1>3. ASSUME account' \in Leaving, NEW k \in Keys PROVE task'[<<k, "account">>] \notin Pending
  <2> DEFINE t == <<k, "account">>
  <2>1. t \in Tasks /\ t[1] = k /\ t[2] = "account"
    BY TasksOf DEF Reasons
  <2>2. TaskMove(t)
    BY <2>1 DEF Step, TaskTable
  <2>3. CASE account \in Leaving
    <3>1. task[t] \notin Pending
      BY <2>3 DEF MediaInv, IdentityLast
    <3> QED BY <2>1, <2>2, <2>3, <3>1 DEF TaskMove, Asked, Pending, Leaving
  <2>4. CASE account \notin Leaving
    <3>1. task' = task /\ OwnPending = {}
      BY <1>3, <2>4 DEF Step, Account, AccountMove, MediaInv, IdentityLast, Leaving
    <3> QED BY <2>1, <3>1 DEF OwnPending
  <2> QED BY <2>3, <2>4
<1> QED BY <1>2, <1>3 DEF IdentityLast

LEMMA StepKeepsPublished == ASSUME MediaInv, Step PROVE PublishedKept'
<1> SUFFICES ASSUME NEW k \in OutKeys, row'[k] = "live",
                    \A t \in Tasks : t[1] = k /\ t[2] # "orphan" => task'[t] = "none"
             PROVE  k \in store'
  BY DEF PublishedKept
<1>1. k \in Keys /\ k \notin RawKeys
  BY KeysAssumption DEF Keys
<1>2. RowMove(k) /\ KeyMove(k)
  BY <1>1 DEF Step, Rows, Store
<1>3. ASSUME NEW t \in Tasks, t[1] = k, t[2] # "orphan" PROVE task[t] = "none"
  BY <1>3 DEF Step, TaskTable, TaskMove, Pending
<1>4. CASE row[k] = "live"
  <2>1. k \in store
    BY <1>3, <1>4 DEF MediaInv, PublishedKept
  <2>2. ASSUME NEW r \in Runs, run[r].at = "delete", run[r].now[1] = k PROVE FALSE
    <3>1. run[r].now \in Tasks /\ task[run[r].now] # "none"
      BY <2>2 DEF MediaInv, HeldAreClaimed, Held, Busy, Claimed
    <3>2. run[r].now = <<k, "orphan">>
      BY <1>3, <2>2, <3>1, TaskParts
    <3> QED BY <1>4, <3>1, <3>2 DEF MediaInv, OrphansUnpublished
  <2> QED BY <1>2, <2>1, <2>2 DEF KeyMove
<1>5. CASE row[k] # "live"
  BY <1>1, <1>2, <1>5 DEF RowMove
<1> QED BY <1>4, <1>5

LEMMA StepKeepsMedia == ASSUME MediaInv, Step PROVE MediaInv'
BY StepTyped, StepKeepsHeld, StepKeepsRechecks, StepKeepsAbsent, StepKeepsSwept, StepKeepsIdentity,
   StepKeepsPublished DEF MediaInv

-----------------------------------------------------------------------------
(* Every action is such a step.                                              *)
LEMMA Untouched ==
  ASSUME MediaInv
  PROVE  /\ UNCHANGED <<store, old>> => Store
         /\ UNCHANGED row => Rows
         /\ UNCHANGED window => Windows
         /\ UNCHANGED work => Works
         /\ UNCHANGED task => TaskTable
         /\ UNCHANGED run => RunTable
         /\ UNCHANGED sweep => Sweep
         /\ UNCHANGED <<account, auth>> => Account
         /\ UNCHANGED <<journal, remover, faults>> => Rest
<1>1. UNCHANGED <<store, old>> => Store
  BY DEF MediaInv, TypeOK, Store, KeyMove
<1>2. UNCHANGED row => Rows
  BY DEF MediaInv, TypeOK, Rows, RowMove
<1>3. (UNCHANGED window => Windows) /\ (UNCHANGED work => Works)
  BY DEF MediaInv, TypeOK, Windows, WindowMove, Works, WorkMove
<1>4. UNCHANGED task => TaskTable
  BY DEF MediaInv, TypeOK, TaskTable, TaskMove, TaskStates
<1>5. UNCHANGED run => RunTable
  BY DEF MediaInv, RunTable, RunMove, FoundAbsent, Busy
<1>6. UNCHANGED sweep => Sweep
  BY DEF MediaInv, TypeOK, Sweep
<1>7. UNCHANGED <<account, auth>> => Account
  BY DEF MediaInv, TypeOK, Account, AccountMove
<1>8. UNCHANGED <<journal, remover, faults>> => Rest
  BY DEF MediaInv, TypeOK, Rest
<1> QED BY <1>1, <1>2, <1>3, <1>4, <1>5, <1>6, <1>7, <1>8

LEMMA EnqueuedTable ==
  ASSUME MediaInv, NEW K, NEW reason \in Reasons, task' = Enqueued(K, reason),
         \/ reason \in {"removed", "stale"}
         \/ reason = "account" /\ account = "active"
         \/ reason = "orphan" /\ \A k \in K : k \in sweep.candidates /\ row[k] # "live"
  PROVE  TaskTable
<1>1. task \in [Tasks -> TaskStates]
  BY DEF MediaInv, TypeOK, TaskStates
<1>2. task' \in [Tasks -> TaskStates]
  BY <1>1 DEF Enqueued, TaskStates, Pending
<1>3. ASSUME NEW t \in Tasks PROVE TaskMove(t)
  BY <1>1 DEF Enqueued, TaskMove, Asked
<1> QED BY <1>2, <1>3 DEF TaskTable

LEMMA UploadSteps ==
  ASSUME MediaInv, NEW k \in RawKeys, CreateSlot(k) \/ PutRaw(k) \/ ShutWindow(k) \/ EndUpload(k)
  PROVE  Step
<1>1. k \in Keys /\ k \notin OutKeys
  BY KeysAssumption DEF Keys
<1>2. CASE CreateSlot(k)
  <2>1. Rows
    BY <1>1, <1>2 DEF CreateSlot, MediaInv, TypeOK, Rows, RowMove
  <2>2. window[k] = "none"
    BY <1>2 DEF CreateSlot, MediaInv, TypeOK, WindowsOnce
  <2>3. Windows
    BY <1>1, <1>2, <2>2 DEF CreateSlot, MediaInv, TypeOK, Windows, WindowMove
  <2> QED BY <1>2, <2>1, <2>3, Untouched DEF CreateSlot, Step
<1>3. CASE PutRaw(k)
  <2>1. Store
    BY <1>1, <1>3 DEF PutRaw, MediaInv, TypeOK, Store, KeyMove
  <2> QED BY <1>3, <2>1, Untouched DEF PutRaw, Step
<1>4. CASE ShutWindow(k)
  <2>1. Windows
    BY <1>4 DEF ShutWindow, MediaInv, TypeOK, Windows, WindowMove
  <2> QED BY <1>4, <2>1, Untouched DEF ShutWindow, Step
<1>5. CASE EndUpload(k)
  <2>1. CASE window[k] # "open"
    <3>1. TaskTable
      BY <1>5, <2>1, EnqueuedTable DEF EndUpload, Reasons
    <3> QED BY <1>5, <3>1, Untouched DEF EndUpload, Step
  <2>2. CASE window[k] = "open"
    <3>1. PICK t \in Tasks : t = <<k, "recheck">> /\ t[1] = k /\ t[2] = "recheck"
      BY <1>1, TasksOf DEF Reasons
    <3>2. PICK e : e = Enqueued({k}, "removed")
      OBVIOUS
    <3>3. task \in [Tasks -> TaskStates] /\ e \in [Tasks -> TaskStates]
      BY <3>2 DEF MediaInv, TypeOK, TaskStates, Enqueued, Pending
    <3>4. task' = [e EXCEPT ![t] = "waiting"]
      BY <1>5, <2>2, <3>1, <3>2 DEF EndUpload
    <3>5. task' \in [Tasks -> TaskStates]
      BY <3>3, <3>4 DEF TaskStates, Pending
    <3>6. ASSUME NEW u \in Tasks PROVE TaskMove(u)
      <4>1. CASE u = t
        BY <2>2, <3>1, <3>3, <3>4, <4>1 DEF TaskMove
      <4>2. CASE u # t
        <5>1. task'[u] = e[u]
          BY <3>3, <3>4, <4>2
        <5>2. e[u] = task[u] \/ (e[u] = "due" /\ task[u] \notin Pending /\ u[2] = "removed")
          BY <3>2 DEF Enqueued
        <5> QED BY <5>1, <5>2 DEF TaskMove, Asked
      <4> QED BY <4>1, <4>2
    <3>7. TaskTable
      BY <3>5, <3>6 DEF TaskTable
    <3> QED BY <1>5, <3>7, Untouched DEF EndUpload, Step
  <2> QED BY <2>1, <2>2
<1> QED BY <1>2, <1>3, <1>4, <1>5

LEMMA WorkSteps ==
  ASSUME MediaInv, NEW k \in OutKeys,
         StartWork(k) \/ PutOutput(k) \/ Publish(k) \/ DiscardOutput(k) \/ AbandonOutput(k)
           \/ DeleteAsset(k)
  PROVE  Step
<1>1. k \in Keys /\ k \notin RawKeys
  BY KeysAssumption DEF Keys
<1>2. CASE StartWork(k) \/ AbandonOutput(k)
  <2>1. Works
    BY <1>2 DEF StartWork, AbandonOutput, MediaInv, TypeOK, Works, WorkMove
  <2> QED BY <1>2, <2>1, Untouched DEF StartWork, AbandonOutput, Step
<1>3. CASE PutOutput(k)
  <2>1. Store
    BY <1>1, <1>3 DEF PutOutput, MediaInv, TypeOK, Store, KeyMove
  <2> QED BY <1>3, <2>1, Untouched DEF PutOutput, Step
<1>4. CASE Publish(k)
  <2>1. Works
    BY <1>4 DEF Publish, MediaInv, TypeOK, Works, WorkMove
  <2>2. Rows
    BY <1>1, <1>4 DEF Publish, MediaInv, TypeOK, Rows, RowMove
  <2> QED BY <1>4, <2>1, <2>2, Untouched DEF Publish, Step
<1>5. CASE DiscardOutput(k)
  <2>1. Works
    BY <1>5 DEF DiscardOutput, MediaInv, TypeOK, Works, WorkMove
  <2>2. TaskTable
    BY <1>5, EnqueuedTable, Untouched DEF DiscardOutput, Reasons
  <2> QED BY <1>5, <2>1, <2>2, Untouched DEF DiscardOutput, Step
<1>6. CASE DeleteAsset(k)
  <2>1. TaskTable
    BY <1>6, EnqueuedTable DEF DeleteAsset, Reasons
  <2> QED BY <1>6, <2>1, Untouched DEF DeleteAsset, Step
<1> QED BY <1>2, <1>3, <1>4, <1>5, <1>6

(* A run that moves.                                                         *)
LEMMA RunSet ==
  ASSUME MediaInv, NEW r \in Runs, NEW y \in RunRecords, RunMove(run[r], y), Set(r, y)
  PROVE  RunTable
<1>1. run \in [Runs -> RunRecords]
  BY DEF MediaInv
<1>2. run' \in [Runs -> RunRecords] /\ run'[r] = y /\ \A q \in Runs : q # r => run'[q] = run[q]
  BY <1>1 DEF Set
<1>3. \A q \in Runs : RunMove(run[q], run[q])
  BY DEF RunMove, FoundAbsent, Busy
<1> QED BY <1>2, <1>3 DEF RunTable

LEMMA IdleTyped == IdleRun \in RunRecords /\ Held(IdleRun) = {} /\ ~FoundAbsent(IdleRun)
BY DEF IdleRun, RunRecords, Held, FoundAbsent, Busy

(* A task whose state changes alone.                                         *)
LEMMA OneTask ==
  ASSUME MediaInv, NEW t \in Tasks, NEW state \in TaskStates, task' = [task EXCEPT ![t] = state],
         task'[t] = state => TaskMove(t)
  PROVE  TaskTable
<1>1. task \in [Tasks -> TaskStates]
  BY DEF MediaInv, TypeOK, TaskStates
<1>2. task' \in [Tasks -> TaskStates] /\ task'[t] = state /\ \A u \in Tasks : u # t => task'[u] = task[u]
  BY <1>1
<1>3. ASSUME NEW u \in Tasks PROVE TaskMove(u)
  BY <1>2 DEF TaskMove
<1> QED BY <1>2, <1>3 DEF TaskTable

LEMMA FaultRest ==
  ASSUME MediaInv, Fault, UNCHANGED journal,
         remover' \in {"idle", "exporting", "exported", "removing"}
  PROVE  Rest
BY KeysAssumption DEF MediaInv, TypeOK, Fault, Rest

LEMMA TimeSteps ==
  ASSUME MediaInv, (\E k \in Keys : Age(k)) \/ (\E t \in Tasks : FallDue(t))
  PROVE  Step
<1>1. CASE \E k \in Keys : Age(k)
  <2>1. PICK k \in Keys : Age(k)
    BY <1>1
  <2>2. Store
    BY <2>1 DEF Age, Ages, MediaInv, TypeOK, Store, KeyMove
  <2> QED BY <2>1, <2>2, Untouched DEF Age, Step
<1>2. CASE \E t \in Tasks : FallDue(t)
  <2>1. PICK t \in Tasks : FallDue(t)
    BY <1>2
  <2>2. task[t] = "waiting" /\ (t[2] = "recheck" => window[t[1]] = "shut")
    BY <2>1 DEF FallDue, MayFallDue
  <2>3. task'[t] = "due" => TaskMove(t)
    BY <2>2 DEF TaskMove, Pending
  <2>4. TaskTable
    BY <2>1, <2>3, OneTask DEF FallDue, TaskStates, Pending
  <2> QED BY <2>1, <2>4, Untouched DEF FallDue, Step
<1> QED BY <1>1, <1>2

LEMMA ClaimStep == ASSUME MediaInv, NEW r \in Runs, ClaimTasks(r) PROVE Step
<1>1. PICK due : due = {t \in Tasks : task[t] = "due"}
  OBVIOUS
<1>2. PICK y : y = [IdleRun EXCEPT !.at = "next", !.todo = due]
  OBVIOUS
<1>3. task' = HiddenFor(due) /\ Set(r, y)
  BY <1>1, <1>2 DEF ClaimTasks
<1>4. task \in [Tasks -> TaskStates]
  BY DEF MediaInv, TypeOK, TaskStates
<1>5. task' \in [Tasks -> TaskStates]
  BY <1>3, <1>4 DEF HiddenFor, TaskStates, Pending
<1>6. ASSUME NEW t \in Tasks PROVE TaskMove(t)
  BY <1>1, <1>3, <1>4 DEF HiddenFor, TaskMove, Pending
<1>7. y \in RunRecords /\ y.at = "next" /\ y.todo = due
  BY <1>1, <1>2 DEF IdleRun, RunRecords
<1>8. RunMove(run[r], y)
  BY <1>1, <1>7 DEF RunMove, Held, FoundAbsent, Busy
<1>9. TaskTable /\ RunTable
  BY <1>3, <1>5, <1>6, <1>7, <1>8, RunSet DEF TaskTable
<1> QED BY <1>9, Untouched DEF ClaimTasks, Step

LEMMA NextStep == ASSUME MediaInv, NEW r \in Runs, NextTask(r) PROVE Step
<1>1. run[r] \in RunRecords
  BY DEF MediaInv
<1>2. RunTable
  <2>1. CASE run[r].todo = {}
    <3>1. RunMove(run[r], IdleRun)
      BY IdleTyped DEF RunMove
    <3> QED BY <2>1, <3>1, IdleTyped, RunSet DEF NextTask
  <2>2. CASE run[r].todo # {}
    <3>1. PICK t \in run[r].todo :
            Set(r, [run[r] EXCEPT !.at = "delete", !.now = t, !.todo = run[r].todo \ {t}])
      BY <2>2 DEF NextTask
    <3>2. PICK y : y = [run[r] EXCEPT !.at = "delete", !.now = t, !.todo = run[r].todo \ {t}]
      OBVIOUS
    <3>3. /\ y \in RunRecords
          /\ y.at = "delete" /\ y.now = t /\ y.todo = run[r].todo \ {t}
      BY <1>1, <3>2 DEF RunRecords, Busy
    <3>4. RunMove(run[r], y)
      BY <3>3 DEF RunMove, Held, FoundAbsent, Busy
    <3> QED BY <3>1, <3>2, <3>3, <3>4, RunSet
  <2> QED BY <2>1, <2>2
<1> QED BY <1>2, Untouched DEF NextTask, Step

LEMMA DeleteStep == ASSUME MediaInv, NEW r \in Runs, DeleteObject(r) PROVE Step
<1>1. run[r] \in RunRecords /\ run[r].at = "delete" /\ run[r].at \in Busy
  BY DEF MediaInv, DeleteObject, Busy
<1>2. store' = store \/ store' = store \ {run[r].now[1]}
  BY DEF DeleteObject
<1>3. Store
  BY <1>1, <1>2 DEF DeleteObject, MediaInv, TypeOK, Store, KeyMove
<1>4. RunTable /\ Rest
  <2>1. CASE Set(r, [run[r] EXCEPT !.at = "head"]) /\ UNCHANGED faults
    <3>1. PICK y : y = [run[r] EXCEPT !.at = "head"]
      OBVIOUS
    <3>2. y \in RunRecords /\ y.at = "head" /\ y.now = run[r].now /\ y.todo = run[r].todo
      BY <1>1, <3>1 DEF RunRecords, Busy
    <3>3. RunMove(run[r], y)
      BY <1>1, <3>2 DEF RunMove, Held, FoundAbsent, Busy
    <3>4. RunTable
      BY <2>1, <3>1, <3>2, <3>3, RunSet
    <3> QED BY <2>1, <3>4, Untouched DEF DeleteObject
  <2>2. CASE Fault /\ Set(r, [run[r] EXCEPT !.at = "mark", !.absent = FALSE])
    <3>1. PICK y : y = [run[r] EXCEPT !.at = "mark", !.absent = FALSE]
      OBVIOUS
    <3>2. /\ y \in RunRecords
          /\ y.at = "mark" /\ ~y.absent /\ y.now = run[r].now /\ y.todo = run[r].todo
      BY <1>1, <3>1 DEF RunRecords, Busy
    <3>3. RunMove(run[r], y)
      BY <1>1, <3>2 DEF RunMove, Held, FoundAbsent, Busy
    <3>4. RunTable
      BY <2>2, <3>1, <3>2, <3>3, RunSet
    <3>5. remover' \in {"idle", "exporting", "exported", "removing"} /\ UNCHANGED journal
      BY DEF DeleteObject, MediaInv, TypeOK
    <3> QED BY <2>2, <3>4, <3>5, FaultRest
  <2> QED BY <2>1, <2>2 DEF DeleteObject
<1> QED BY <1>3, <1>4, Untouched DEF DeleteObject, Step

LEMMA HeadStep == ASSUME MediaInv, NEW r \in Runs, HeadObject(r) PROVE Step
<1>1. run[r] \in RunRecords /\ run[r].at = "head" /\ run[r].at \in Busy /\ UNCHANGED store
  BY DEF MediaInv, HeadObject, Busy
<1>2. PICK a \in BOOLEAN :
        /\ a => run[r].now[1] \notin store
        /\ Set(r, [run[r] EXCEPT !.at = "mark", !.absent = a])
        /\ Fault \/ UNCHANGED faults
  <2>1. (run[r].now[1] \notin store) \in BOOLEAN
    OBVIOUS
  <2>2. CASE Set(r, [run[r] EXCEPT !.at = "mark", !.absent = run[r].now[1] \notin store])
             /\ UNCHANGED faults
    <3>1. PICK a \in BOOLEAN : a = (run[r].now[1] \notin store)
      BY <2>1
    <3> QED BY <2>2, <3>1
  <2>3. CASE Set(r, [run[r] EXCEPT !.at = "mark", !.absent = FALSE]) /\ Fault
    BY <2>3
  <2> QED BY <2>2, <2>3 DEF HeadObject
<1>3. PICK y : y = [run[r] EXCEPT !.at = "mark", !.absent = a]
  OBVIOUS
<1>4. /\ y \in RunRecords
      /\ y.at = "mark" /\ y.absent = a /\ y.now = run[r].now /\ y.todo = run[r].todo
  BY <1>1, <1>3 DEF RunRecords, Busy
<1>5. RunTable
  <2>1. RunMove(run[r], y)
    BY <1>1, <1>2, <1>4 DEF RunMove, Held, FoundAbsent, Busy
  <2> QED BY <1>2, <1>3, <1>4, <2>1, RunSet
<1>6. Rest
  <2>1. remover' \in {"idle", "exporting", "exported", "removing"} /\ UNCHANGED <<journal, remover>>
    BY DEF HeadObject, MediaInv, TypeOK
  <2> QED BY <1>2, <2>1, FaultRest, Untouched
<1> QED BY <1>5, <1>6, Untouched DEF HeadObject, Step

LEMMA MarkStep == ASSUME MediaInv, NEW r \in Runs, MarkTask(r) PROVE Step
<1>1. PICK t : t = run[r].now
  OBVIOUS
<1>2. run[r] \in RunRecords /\ run[r].at = "mark" /\ run[r].at \in Busy
  BY DEF MediaInv, MarkTask, Busy
<1>3. t \in Held(run[r])
  BY <1>1, <1>2 DEF Held
<1>4. t \in Tasks
  BY <1>3 DEF MediaInv, HeldAreClaimed, Claimed
<1>5. CASE run[r].absent /\ task[t] \in Pending
  <2>1. (PendingOf(t[1]) \subseteq {t}) \in BOOLEAN
    OBVIOUS
  <2>2. PICK last \in BOOLEAN : last = (PendingOf(t[1]) \subseteq {t})
    BY <2>1
  <2>3. Set(r, [run[r] EXCEPT !.at = "commit", !.last = last]) /\ UNCHANGED task
    BY <1>1, <1>5, <2>2 DEF MarkTask
  <2>4. PICK y : y = [run[r] EXCEPT !.at = "commit", !.last = last]
    OBVIOUS
  <2>5. y \in RunRecords /\ y.at = "commit" /\ y.now = run[r].now /\ y.todo = run[r].todo
    BY <1>2, <2>2, <2>4 DEF RunRecords, Busy
  <2>6. RunMove(run[r], y)
    BY <1>2, <1>5, <2>5 DEF RunMove, Held, FoundAbsent, Busy
  <2>7. RunTable
    BY <2>3, <2>4, <2>5, <2>6, RunSet
  <2> QED BY <2>3, <2>7, Untouched DEF MarkTask, Step
<1>6. CASE ~(run[r].absent /\ task[t] \in Pending)
  <2>1. /\ Set(r, [run[r] EXCEPT !.at = "next"])
        /\ task' = IF task[t] \in Pending THEN [task EXCEPT ![t] = "waiting"] ELSE task
    BY <1>1, <1>6 DEF MarkTask
  <2>2. PICK y : y = [run[r] EXCEPT !.at = "next"]
    OBVIOUS
  <2>3. y \in RunRecords /\ y.at = "next" /\ y.todo = run[r].todo
    BY <1>2, <2>2 DEF RunRecords
  <2>4. RunMove(run[r], y)
    BY <2>3 DEF RunMove, Held, FoundAbsent, Busy
  <2>5. RunTable
    BY <2>1, <2>2, <2>3, <2>4, RunSet
  <2>6. CASE task[t] \in Pending
    <3>1. task'[t] = "waiting" => TaskMove(t)
      BY <2>6 DEF TaskMove, Pending
    <3>2. TaskTable
      BY <1>4, <2>1, <2>6, <3>1, OneTask DEF TaskStates, Pending
    <3> QED BY <2>5, <3>2, Untouched DEF MarkTask, Step
  <2>7. CASE task[t] \notin Pending
    BY <2>1, <2>5, <2>7, Untouched DEF MarkTask, Step
  <2> QED BY <2>6, <2>7
<1> QED BY <1>5, <1>6

LEMMA CommitStep == ASSUME MediaInv, NEW r \in Runs, CommitTask(r) PROVE Step
<1>1. PICK t : t = run[r].now
  OBVIOUS
<1>2. run[r] \in RunRecords /\ run[r].at = "commit"
  BY DEF MediaInv, CommitTask
<1>3. t \in Held(run[r])
  BY <1>1, <1>2 DEF Held, Busy
<1>4. t \in Tasks /\ t[1] \in Keys
  BY <1>3, TaskParts DEF MediaInv, HeldAreClaimed, Claimed
<1>5. TaskTable
  <2>1. task'[t] = "done" => TaskMove(t)
    BY <1>1, <1>2 DEF TaskMove
  <2> QED BY <1>1, <1>4, <2>1, OneTask DEF CommitTask, TaskStates
<1>6. Rows
  BY <1>1, <1>4 DEF CommitTask, MediaInv, TypeOK, Rows, RowMove
<1>7. RunTable
  <2>1. PICK y : y = [run[r] EXCEPT !.at = "next"]
    OBVIOUS
  <2>2. y \in RunRecords /\ y.at = "next" /\ y.todo = run[r].todo
    BY <1>2, <2>1 DEF RunRecords
  <2>3. RunMove(run[r], y)
    BY <2>2 DEF RunMove, Held, FoundAbsent, Busy
  <2> QED BY <2>1, <2>2, <2>3, RunSet DEF CommitTask
<1> QED BY <1>5, <1>6, <1>7, Untouched DEF CommitTask, Step

LEMMA DieStep == ASSUME MediaInv, NEW r \in Runs, RunDies(r) PROVE Step
<1>1. RunMove(run[r], IdleRun)
  BY IdleTyped DEF RunMove
<1>2. RunTable
  BY <1>1, IdleTyped, RunSet DEF RunDies
<1>3. remover' \in {"idle", "exporting", "exported", "removing"} /\ UNCHANGED journal
  BY DEF RunDies, MediaInv, TypeOK
<1>4. Rest
  BY <1>3, FaultRest DEF RunDies
<1> QED BY <1>2, <1>4, Untouched DEF RunDies, Step

LEMMA SweepSteps == ASSUME MediaInv, ReconcileOrphans PROVE Step
<1>1. CASE ListBucket
  <2>1. Sweep
    BY <1>1 DEF ListBucket, MediaInv, TypeOK, Sweep
  <2> QED BY <1>1, <2>1, Untouched DEF ListBucket, Step
<1>2. CASE ReconcileStorage
  <2>1. Sweep
    BY <1>2 DEF ReconcileStorage, Sweep
  <2>2. TaskTable
    <3>1. PICK K : K = {k \in sweep.candidates : Orphan(k)}
      OBVIOUS
    <3>2. task' = Enqueued(K, "orphan") /\ \A k \in K : k \in sweep.candidates /\ row[k] # "live"
      BY <1>2, <3>1 DEF ReconcileStorage, Orphan
    <3> QED BY <3>2, EnqueuedTable DEF Reasons
  <2> QED BY <1>2, <2>1, <2>2, Untouched DEF ReconcileStorage, Step
<1> QED BY <1>1, <1>2 DEF ReconcileOrphans

LEMMA AccountSteps ==
  ASSUME MediaInv, BeginAccountDeletion \/ ProcessAccountDeletions \/ RemoverDies
  PROVE  Step
<1> DEFINE Removers == {"idle", "exporting", "exported", "removing"}
<1>1. CASE BeginAccountDeletion
  <2>1. TaskTable
    BY <1>1, EnqueuedTable DEF BeginAccountDeletion, Reasons
  <2>2. Account /\ Rest
    BY <1>1 DEF BeginAccountDeletion, MediaInv, TypeOK, Account, AccountMove, Rest
  <2> QED BY <1>1, <2>1, <2>2, Untouched DEF BeginAccountDeletion, Step
<1>2. CASE ExportJournal
  <2>1. Rest
    BY <1>2 DEF ExportJournal, MediaInv, TypeOK, Rest
  <2> QED BY <1>2, <2>1, Untouched DEF ExportJournal, Step
<1>3. CASE AccountReady
  <2>1. Rest
    BY <1>3 DEF AccountReady, MediaInv, TypeOK, Rest
  <2>2. Account
    BY <1>3 DEF AccountReady, Ready, MediaInv, TypeOK, Account, AccountMove
  <2> QED BY <1>3, <2>1, <2>2, Untouched DEF AccountReady, Step
<1>4. CASE DeleteUser
  <2>1. CASE auth' = FALSE /\ UNCHANGED <<remover, faults>>
    <3>1. Account
      BY <1>4, <2>1 DEF DeleteUser, MediaInv, TypeOK, Account, AccountMove
    <3> QED BY <1>4, <2>1, <3>1, Untouched DEF DeleteUser, Step
  <2>2. CASE Fault /\ remover' = "idle" /\ UNCHANGED auth
    <3>1. Rest
      BY <1>4, <2>2, FaultRest DEF DeleteUser
    <3> QED BY <1>4, <2>2, <3>1, Untouched DEF DeleteUser, Step
  <2> QED BY <1>4, <2>1, <2>2 DEF DeleteUser
<1>5. CASE CompleteAccountDeletion
  <2>1. Account /\ Rest
    BY <1>5 DEF CompleteAccountDeletion, MediaInv, TypeOK, Account, AccountMove, Rest
  <2> QED BY <1>5, <2>1, Untouched DEF CompleteAccountDeletion, Step
<1>6. CASE RemoverDies
  <2>1. Rest
    BY <1>6, FaultRest DEF RemoverDies
  <2> QED BY <1>6, <2>1, Untouched DEF RemoverDies, Step
<1> QED BY <1>1, <1>2, <1>3, <1>4, <1>5, <1>6 DEF ProcessAccountDeletions

-----------------------------------------------------------------------------
(* The beginning, the steps, and what the invariant says of every behavior.  *)
LEMMA InitMedia == ASSUME Init PROVE MediaInv
<1>1. run \in [Runs -> RunRecords] /\ \A r \in Runs : run[r] = IdleRun
  BY IdleTyped DEF Init
<1>2. TypeOK
  BY <1>1, KeysAssumption DEF Init, TypeOK, IdleRun, Pending, Keys
<1>3. HeldAreClaimed /\ AbsentStaysAbsent
  BY <1>1, IdleTyped DEF HeldAreClaimed, AbsentStaysAbsent
<1>4. \A k \in Keys, s \in Reasons : task[<<k, s>>] = "none"
  BY TasksOf DEF Init
<1>5. Rechecks /\ OrphansUnpublished
  BY <1>4 DEF Rechecks, OrphansUnpublished, Keys, Reasons
<1>6. WindowsOnce /\ SweptAreEnded /\ IdentityLast /\ PublishedKept
  BY DEF Init, WindowsOnce, SweptAreEnded, IdentityLast, Leaving, PublishedKept, Keys
<1> QED BY <1>1, <1>2, <1>3, <1>5, <1>6 DEF MediaInv

LEMMA NextIsStep == ASSUME MediaInv, [Next]_vars PROVE Step
<1>1. CASE Next
  <2>1. CASE \E k \in RawKeys : CreateSlot(k) \/ PutRaw(k) \/ ShutWindow(k) \/ EndUpload(k)
    BY <2>1, UploadSteps
  <2>2. CASE \E k \in OutKeys : StartWork(k) \/ PutOutput(k) \/ Publish(k) \/ DiscardOutput(k)
                                  \/ AbandonOutput(k) \/ DeleteAsset(k)
    BY <2>2, WorkSteps
  <2>3. CASE (\E k \in Keys : Age(k)) \/ (\E t \in Tasks : FallDue(t))
    BY <2>3, TimeSteps
  <2>4. CASE \E r \in Runs : ProcessMediaDeletion(r) \/ RunDies(r)
    BY <2>4, ClaimStep, NextStep, DeleteStep, HeadStep, MarkStep, CommitStep, DieStep
       DEF ProcessMediaDeletion
  <2>5. CASE ReconcileOrphans \/ BeginAccountDeletion \/ ProcessAccountDeletions \/ RemoverDies
    BY <2>5, SweepSteps, AccountSteps
  <2> QED BY <1>1, <2>1, <2>2, <2>3, <2>4, <2>5 DEF Next
<1>2. CASE UNCHANGED vars
  BY <1>2, Untouched DEF vars, Step
<1> QED BY <1>1, <1>2

(* The invariant of the deletion: who holds a task claimed it, what is       *)
(* swept was ended, and an identity goes last. [svc_claim_deletion_tasks,    *)
(* svc_complete_deletion_task, svc_reconcile_storage]                        *)
THEOREM MediaInvariance == Spec => []MediaInv
<1>1. MediaInv /\ [Next]_vars => MediaInv'
  BY NextIsStep, StepKeepsMedia
<1> QED BY <1>1, InitMedia, PTL DEF Spec

LEMMA MediaSays ==
  ASSUME MediaInv
  PROVE  PublishedKept /\ RecheckedStaysGone /\ ObjectsBeforeIdentity
<1>1. RecheckedStaysGone
  BY DEF MediaInv, Rechecks, RecheckedStaysGone, Keys
<1>2. ObjectsBeforeIdentity
  BY DEF MediaInv, IdentityLast, ObjectsBeforeIdentity
<1> QED BY <1>1, <1>2 DEF MediaInv

(* The registry never shows an output that the sweep has deleted.            *)
(*                                  [reconcileOrphans, svc_reconcile_storage] *)
THEOREM PublishedOutputsKept == Spec => []PublishedKept
<1>1. MediaInv => PublishedKept
  BY MediaSays
<1> QED BY <1>1, MediaInvariance, PTL

(* Once the recheck of an upload's key is done, its bytes never come back:   *)
(* no URL for the key is open any more. [svc_cancel_upload_entry]            *)
THEOREM RecheckedGone == Spec => []RecheckedStaysGone
<1>1. MediaInv => RecheckedStaysGone
  BY MediaSays
<1> QED BY <1>1, MediaInvariance, PTL

(* The identity of a member outlives every deletion of what the account      *)
(* owned when its own deletion began. [svc_account_deletions_ready]          *)
THEOREM IdentityAfterObjects == Spec => []ObjectsBeforeIdentity
<1>1. MediaInv => ObjectsBeforeIdentity
  BY MediaSays
<1> QED BY <1>1, MediaInvariance, PTL
=============================================================================

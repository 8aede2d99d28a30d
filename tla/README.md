# Formal verification of bowr

bowr is a private wardrobe: members photograph clothes, a worker cuts the
garments out and tags them, and an AI provider is paid from one shared monthly
budget.  Its core logic is in PostgreSQL functions (`src/supabase/migrations`),
called by three Edge functions (`src/supabase/functions/{api,internal,maintenance}`),
by a worker (`src/services/worker`) and by the pages of an app (`src/apps/app`).
Almost every operation is one database transaction; the hard behaviour is what
happens *between* transactions: a worker dies, a callback arrives late or twice, a
lease or an upload URL expires, an answer is lost and a button pressed again, a
page shows what is no longer so, a member is suspended or leaves, the database is
restored.

A later migration replaces functions of an earlier one: the definitions here
follow the last `create or replace` of each function.  In this document `p1_02`
is the migration `..._p1_02_*.sql`.

## 1. Inventory

| Component | State | Operations | Interacts with | Hard behaviour, and what makes it correct | Module |
| --- | --- | --- | --- | --- | --- |
| Uploads and validation jobs (`p0_03`, `p0_04`, `p1_04`, `p1_06`; `internal/index.ts`, `dispatch.ts`) | `upload_entries`, `media_assets`, `jobs`, `media_objects`, `deletion_tasks` | create, renew, complete, cancel, retry; issue, release and use a claim; heartbeat, fail, complete; reconcile; cleanup | membership, storage, items | at-least-once workers, leases, fencing, late uploads: entry and job agree, one original, bounded work, uploads settle | `UploadJobs` |
| AI budget (`p0_05`) | `budget_periods`, `budget_settings`, `ai_usage`, `budget_holds` | reserve, mark dispatching, settle, release, mark unknown, rollover, pause, clear | gateway, item stages | concurrent reservations, unknown bills, month boundary: commitments never exceed the stop, nothing leaks | `AiBudget` |
| AI gateway (`ai-gateway.ts`) | none of its own | one paid call between budget transactions | budget, provider | crash or timeout after dispatch: an attempt key reaches the provider at most once and stays counted | `AiGateway` |
| Item stages (`p1_01`, `p1_02`, `p1_05`) | `items`, `item_stages`, `jobs` | enqueue, claim, complete, block, resume, retry, replace photo, recut, mask, delete | jobs, budget, media revisions | results for an old revision or a deleted piece are never applied; every stage ends or is resumable; a photo is paid for as often as it was asked for | `ItemStages` |
| Worker pipeline (`pipeline.py`; `internal/index.ts`) | leases, outputs in the bucket | claim, heartbeat thread, upload, complete, discard | jobs, storage | a lost lease between two uploads: only the newest attempt publishes, and whatever lost is recorded | `WorkerRun` |
| Media deletion, account deletion (`p0_03`, `p0_06`, `p0_07`, `lifecycle.ts`, `storage.ts`) | `deletion_tasks`, stored objects, `account_deletions`, journal | enqueue, claim, delete, confirm, recheck, orphan sweep, phases of an account's deletion | everything that publishes objects | a PUT after the DELETE, runs that stop halfway, a sweep that races a publication: no bytes survive, no shown bytes go | `MediaDeletion` |
| Grouped photos (`p1_04`; `split/[id].tsx`, `parts.py`) | `upload_entries`, `items`, crop jobs, the shared source | propose, confirm, crop, expire | stages, deletion | two pages, lost answers, the last crop against the last deletion: one lot of pieces, a source as long as needed | `GroupedPhotos`, `PartRegions`, `PartBoxes` |
| Duplicates and care labels (`p1_03`, `p1_04`, `p1_06`) | `duplicate_reviews`, labels | hold, decide, attach, expire, flag look-alikes | validation, deletion | validations and decisions that cross: no photo or label is lost or on the wrong piece, an answer stands | `Duplicates`, `NearMatches` |
| Membership and invites (`p0_01`, `p0_02`, `p0_06`; `confirm.tsx`) | `memberships`, `invites`, challenges; the pending confirmation of a browser | sign in, redeem, suspend, confirm, delete, transfer, clean up | Auth, every command's admission | tabs that share a confirmation, a redemption against a cleanup: nothing but what was freshly asked for, nobody admitted is removed | `Membership` |
| Items and review (`p1_01`, `p1_03`; `PieceEditor.tsx`, `ProcessingPanel.tsx`, `MaskEditor.web.tsx`) | `items`, field versions, suggestions, masks; drafts and canvases of pages | edit, suggest, read a label, review, correct edges | stages, deletion | optimistic revisions under refetches and late results: the member's values stay, nothing unseen is replaced | `PieceEdits`, `MaskEdits` |
| Profile (`p0_01`; `SettingsForm.tsx`, `onboarding.tsx`) | `profiles`; drafts | save under a revision and an idempotency key | idempotent requests | a request that arrives after its sender gave up | `ProfileEdits` |
| Uploading from the browser (`upload-manager.ts`, `uploads/[id].tsx`, `gather.tsx`) | tasks, transfers, the receipt's cache; the selection and its request | gather, send, retry, replace, cancel, poll, sign out | uploads | code that resumes after an await and finds its task changed: no photo forgotten, sent twice or called sent when it was not | `UploadClient`, `GatherPhotos` |
| Idempotent requests (`p0_01`) | `request_log` | claim, replay | commands | repeats of a key: one effect, one answer | inside the modules whose requests use it |

The hazards found in this inventory are listed in `PROJECT.json`, each at its line,
with the properties that cover it.

## 2. Structure

`UploadPromise` is the abstract specification of an upload, `UploadJobs` implements
it.  `AiBudget` is the accounting that any caller may use in any order; `AiGateway`
extends it and uses its actions, adding the gateway's steps, crashes and the provider,
so that what holds of AiBudget holds of it.
The other component modules stand alone: each has the state that its operations
share, and sees of its neighbours what they let it see (a stage sees of the budget
which keys were refused or sent; a deletion sees of the worker which outputs were
published).  Modules with `_proofs` hold theorems and extend the module they are
about.

The `MC` modules give TLC its instances.  `MCUploadJobs`, `MCAiBudget` and
`MCAiGateway` are plain instances.  The other six put several components, and
several instances of one component, into one run: a variable `part`, chosen at the
start, says which of them a behaviour is of, the others stay in their initial state,
and a property speaks of the part it is about (`part = "tags" => ...`).  A property
of such a module is the conjunction, under one name, of the component's properties
about one subject; what each conjunct says stands at its definition in the component.
Each of the six extends one of its components (`MCStorage` WorkerRun, `MCEdits`
PieceEdits, `MCBrowser` Membership, `MCPhotos` GroupedPhotos) and instantiates the
others, so that some of the properties of its run stand in that component:
`OutputsAccounted`, `SuggestionsYield`, `ValuesStay`, `ConfirmedOnce`, `SourceAsNeeded`
and others.  `MCStorage` instantiates the modules with the theorems about ItemStages and
MediaDeletion, which extend these, so that the theorems hold of its instances too.
`MCEdits`, `MCPhotos` and `MCBrowser` give the constants of a component together, as one
record: `Mask(m)`, `Profile(p)`, `Repeat(d)`, `Near(n)`, `Boxes(b)`, `Sends(c)` and
`Gathering(g)` are instances for any such record, and a part is the instance of a record
with a name (`Client`, `Session`).  A theorem can then be about every record.

A `_proofs` module of an `MC` module holds the theorems about the component it extends,
about the components it instantiates for any constants, and about the composition.

## 3. Modules

### UploadPromise
What a member is promised of one upload: worked on in a bounded number of
attempts, then published, refused, failed or canceled; what is published is the
work of the newest attempt, once.  A step may move several uploads, each by one
move of its own, because cleanup, suspension and reconcile write many rows.

### UploadJobs
One upload entry, its asset, its raw object and its validation job, for entries
whose *ready* is final (garment and replacement photos).

| Variable | In the code |
| --- | --- |
| `member`, `racing` | `memberships.state`; `racing` says that a command which read an active membership before it changed is still open (`require_active_member_id` takes no lock) |
| `restores` | counts restorations of a member, to bound them |
| `entry`, `asset` | `upload_entries.state`, `media_assets.state` (`gone`: the rows were scrubbed) |
| `slot` | whether the signed PUT can still be used, and whether the temporary asset expired after it |
| `raw` | deletion tasks of the quarantine object: due now, and the recheck due when the URL has expired |
| `job` | the row of `private.jobs`; `claim`, `next`, `lease`, `stage` are countdowns to `claim_expires_at`, `next_run_at`, `lease_expires_at` and the stage deadline |
| `out` | per lease generation, what became of the output a worker put under that generation's key, and whether the worker has answered |

Each action is one transaction (or one step of the Edge function where the step
is separate, as the discard after a *stale* answer is), named after its function:
`CreateUploadBatch`, `RenewUploadEntry`, `CompleteTooLarge` /
`CompleteUploadEntry` (two outcomes of `svc_complete_upload_entry`),
`CancelUploadEntry`, `RetryUploadEntry`, `IssueJobClaim`, `ReleaseJobClaim`,
`ClaimJob`, `HeartbeatJob`, `FailJobAttempt`, `PutOutput`, `RejectOutput`,
`ApplyReady` / `RepeatReady` / `FenceReady` / `CompleteRejected` (the answers of
`svc_complete_validation`), `DiscardJobOutput`, `ReconcileJobs`,
`TemporaryCleanup`, `SuspendMember`, `RestoreMember`, `StartAccountDeletion`,
`PrepareRestoredDatabase`.  `DrainCommands`, `CloseSlot`, `ExpireAsset` and `Tick`
are the environment: open transactions end, time passes.

Abstractions:

- A worker is not a process.  Any generation that was claimed may call back at
  any time, any number of times, in any order, or never; this covers crashes,
  stalls, duplicates and reordering.  A capability expires with its lease, but it
  is checked at the start of a callback, before the stored bytes are fetched, so
  the transaction may run after the expiry.  A worker does answer once: a
  failure, an unusable photo, or its output.
- A claim nonce is 256 random bits and only the newest is stored, so an old claim
  never matches: the usable claim is a countdown.  A refused claim raises, which
  rolls back its own cancellation, so it changes nothing.
- Back-off jitter (up to 5 s) is below a tick.
- A restored database is modelled by running `prepare_restored_database` in any
  reachable state, since a backup is one of them.  What was done after the backup is
  not undone beside it: a generation that the lost timeline had issued, and the restored
  database issues again after a manual retry, is not modelled.  A worker of the lost
  timeline would hold a capability of the same job, generation and output keys
  (`capability.ts`), as long as its lease.
- Account deletion is one transaction; its later phases are in MediaDeletion.

### MCUploadJobs
The instances for TLC.

### UploadJobs_proofs
The theorems about the invariants and the action properties, and the refinement;
see section 5.

### AiBudget
The shared monthly allowance.  An action is one call of a database function, and
any caller may call any of them at any time: the module makes no use of how the
gateway behaves.

| Variable | In the code |
| --- | --- |
| `clock` | the current month, and whether its end is nearer than the dispatch window of 120 s |
| `settled`, `reserved` | the counters of a month in `budget_periods` |
| `limits`, `paused` | `budget_settings`: thresholds and `paused_reason` |
| `usage` | the `ai_usage` row of an attempt key: state, month, reservation, bill, price version |
| `hold` | `budget_holds` of an attempt in a month |

`AdmitReservation` / `RefuseReservation` are the outcomes of `svc_ai_reserve` for a
new key, `MarkDispatching` / `BlockDispatch` those of `svc_ai_mark_dispatching`;
`Settle`, `Release`, `MarkUnknown`, `Rollover` and `UpdateBudget` are the functions
of these names; `PrepareRestored` is what a restored database does to the budget;
`CloseMonth` and `StartMonth` are time.

- Every function locks the months of its attempt, oldest first, and then the row,
  so its effect is one step.  `now()` is read when the transaction begins; waiting
  for these locks is taken to be short against the window of 120 s.
- A call that changes nothing (a known key, a repeated settlement, a refused state
  or revision) is a stutter.  `UpdateBudget` is a call whose expected revision
  matches; the revision itself decides nothing else.
- `paused = 'operator'` is set only by hand in SQL and left out; the reason of a
  refusal is not stored, since nothing reads it back but its own answer.
- `svc_ai_status` and `svc_admin_budget` only read.
- Amounts are counted in units: `Sum` is the number of units that attempts owe, a
  cardinality, so that it can be reasoned about for every set of attempts.

### AiGateway
`runAiTask`, for several runs that may share an attempt key.  `run[r].at` is the
`await` a run stands at; `run[r].price` is the tariff it read before it reserved
and bills with, `quote` the one it read before the dispatch; `sent` and `rejected`
say what the provider has seen of an attempt key, and `charge` what the call that left
costs, which nobody but the provider knows until an answer reports it.  Each action is
the code from one await to the next, together with the effect of the database function
it awaited.  `Die` is a killed function or a failed call, possible at every await.

- The overlap of runs is real: `POST /v1/admin/ai-diagnostic` derives the attempt
  key from the request's Idempotency-Key (`api/index.ts:489`), and a tag job that
  the worker reports failed after its timeout of 90 s (`pipeline.py:291`) is
  claimed again with the same attempt key (`p1_02:514`) while the first call runs.
- The provider is external: it charges any amount for a call, and `generateContent`
  answers with the tokens of it, answers without (the code then settles at the
  reservation), rejects, or leaves the outcome unknown; one call is one request (the code
  configures no retries of the client).  An answer that reports the prompt's tokens is
  taken to report the others as well, and a charge is counted at the price version the
  run bills with (see `BilledAsReserved` in section 4).
- A restore keeps the attempts as they stand: a ledger rolled back to before a dispatch
  that did happen is not modelled.
- The catalogue has one effective price at a time.  With none or several, a run
  ends before any accounting (`Start`), and a dispatch is blocked as it is by a
  changed tariff.
- A restored database is isolated from the functions of the lost one, so a restore
  ends every run.

### ItemStages
One piece and its stages.  `job[s][r]` is the job of stage `s` for media revision `r`
(a revision queues a stage once, which is the dedupe key), `row[s]` the revision whose
job the stage's row points at; `item` has the lifecycle, the revision, the original
and the cutout shown; `runs` are AI runs in the Edge, `ai` the `ai_usage` row of an
attempt key, `budget` the month and whether it is paused.

- The leases, claims and back-off of the queue are those of UploadJobs and are not
  repeated: a claimed attempt ends by a report or by its lease at any time.
- The budget is what a stage sees of it: a key is refused, or sent and paid.
- Stages differ by what they wait for and publish, so an instance has the stages its
  question needs: cutout with colors, or cutout with tags.

### WorkerRun
One job and the processes that run it.  `job` has the state, the generation and the
countdowns of lease and stage deadline, `current` whether the target still is what
the job was made for; `run[r]` is a worker: its generation, where it stands, which
outputs it has put, whether its heartbeat thread knows the lease is lost, and the
answer it got.  `store` are the keys in the bucket, `tasks` those queued for deletion,
`published` the generation shown.  A lease, a capability and the URLs given with it
end together.  What a stage computes is left out: a run prepares its outputs, rejects
the photo, or fails.

### MediaDeletion
The bytes of one member.  `store` and `old` are the objects in the bucket and those
past the grace period, `row` the registry, `window` the signed URLs, `work` what a
worker is about to publish, `task` the deletion tasks, `run` the invocations that work
them off (claim, DELETE, HEAD, complete: a step each, and each may be the last),
`sweep` a comparison of bucket and registry between its listing and its transaction,
`account`, `journal`, `auth` and `remover` the phases of an account's deletion.  Registry
rows and tasks outlive the Auth identity, without an owner; the sweep's own tasks never
have one, so that an account does not wait for them (`OwnPending`).
Time only orders things.  Two pending tasks of one key and reason are one.

### UploadClient
Each tab's upload manager and receipt.  `task[t][e]` is the manager's map, `run[r]` an
invocation of `run()` as a process: between its awaits the rest of the tab goes on,
and it keeps the task it was started with although the map may hold another.
`seen` is the receipt's cache, `cancel` its cancel mutations, `entry`, `object` and
`accepted` the server.  The validation is one step of the environment.

### GatherPhotos
The Gather screen, opened to gather, to add a label or to replace a photo: the
selection with its kinds and labels, the request kept in `request.current` with its
key, and what the server made of each key.

### PieceEdits, MaskEdits, ProfileEdits
Pages that edit what the server also changes.  A page has what it last fetched
(`view`), what its draft started from (`base` or the first values), the draft and the
request it sent; refetches and effects are actions of their own.

- PieceEdits: three fields stand for the fifteen: a category, the attributes (each key
  applies to one category) and the material (which a label may print).
- MaskEdits: a mask is the set of cells it keeps, a stroke changes some; an editor has
  its canvas, the history, the tint shown (`stale` from a refetch of the grants until an
  operation repaints it), and the photo and mask its grants were for.  Cancel leaves the
  editor at any time, and a save under way goes on; when it succeeds, it takes the tab
  back to the piece, out of an editor opened since too.  A tab has one save under way
  at a time, a bound of the model.
- ProfileEdits: a request whose sender gave up stays on the wire and may arrive later.

### Membership
Accounts, invites and confirmations, seen from the tabs of one browser, which have
sessions of their own and share the pending confirmation in durable storage.
`challenge` are the reauthentication challenges in order, `pending` what the browser
keeps, `tab[t]` the session (user and number of its sign-in) and the page with the
confirmation it shows, `acted` the confirmations carried out, `removing` the accounts
a run has claimed for removal from Auth.  A confirmation is two requests, the
verification, which yields the proof, and the action; the answer of either may be
lost.  Auth is external: a sign-in is newer than all before.  A code admits one
person.  The rate limits, the limit of five open challenges and the operators' journal
are not modelled.

### GroupedPhotos, PartRegions, PartBoxes
A group photo from its regions to its pieces.  GroupedPhotos has the pages (`page`:
drafts, request, what it was told; a reload is one more tab), the requests and answers
on the network, the receipts by key, the pieces, their crop jobs and workers, and the
shared source with its window; boxes are the regions they mark.  A piece's photo
replaced later, and suspension, are outside.  PartRegions is the breadth-first search
of `_components`, a step per dequeued cell (cells count from one), and the choice of
proposals.  PartBoxes follows the numbers of one side of a box through each rounding:
worker, database, draft, page, database, crop.  Its arithmetic is exact; where the
code's floating point could round a tie either way, both are taken.

### Duplicates, NearMatches
Duplicates: photos with the bytes of a piece the member has; a transaction that reads
before it commits is two steps (`reading`, `deciding`), unless what it reads is locked.
The window of an open question, and of a waiting label, may end at any time.
NearMatches: pieces near each other, compared when the later of category and vector
arrives, and the pages that show the question.  Archived pieces are not modelled.

## 4. Runs

| Run | Instance | Shows |
| --- | --- | --- |
| `retries` | 1 upload, 2 attempts, 1 manual retry, lease 2, stage 2, restored database, fairness | four invariants, outputs settle once, the refinement of `UploadPromise`, and an accepted upload settles |
| `restores` | 1 upload, 1 attempt, 1 manual retry, 1 restoration of the member | budgets across suspension and restoration, a command that races it, and the inductive invariant of the proofs |
| `ledger` | 3 attempts, 2 months, reservations of 2 and 1 units, stop and ceiling 3, bills 0, 1 and 3 | the ledger balances, spending is bounded, holds follow doubt |
| `runs` | 2 runs of one attempt, 1 of another, 2 months, charges and bills 0 to 3 | sent once, counted, nothing leaks, and what the provider charges stays within the ceiling (`ChargesBounded`) |
| `storage` | WorkerRun: 2 workers, 2 outputs, 2 attempts; MediaDeletion: 1 output with 2 deletion runs, or 1 upload key; ItemStages: 3 photos with colors and a suspension, or 2 photos with tags and 2 months, or retries of 1 photo | outputs are published whole or recorded, deletion takes neither too much nor too little, stages follow the piece's photo and life, calls are paid as asked, only the newest attempt publishes, live leases are not taken, late results are never applied |
| `edits` | PieceEdits: 2 pages, or 1 page with suggestions; MaskEdits: the strokes of 1 editor with a refetch, or 2 editors with a lost answer; ProfileEdits: a new member, or 2 tabs | suggestions yield; members' values and drafts stay, and no accepted edit of a piece replaces what its page had not seen (`ValuesStay`); the same of the profile (`SavesAreSeen`); the mask is as shown |
| `browser` | Membership: 2 members, 2 tabs, 2 confirmations, or 3 identities with 2 codes; UploadClient: 2 photos, or 1 and a sign-out; GatherPhotos: 2 photos, to gather (batches of 2, 4 keys, 2 lost answers) or as a label (1 file, 3 keys, 1 lost answer) | nothing but what was freshly asked for, the admitted stay, photos on their way are told truly, a request sent again makes no second batch and no photo is handed on twice |
| `photos` | Duplicates: 1 photo in 2 tabs with lost answers, or 2 labelled photos; NearMatches: 3 pieces, two of one photo, or 2 pieces with an edit; PartRegions: every mask of 3 by 4 cells; PartBoxes: every span of a 45-cell grid; GroupedPhotos: 2 tabs, or 2 regions | repeats and labels are accounted for, answers stand, regions and boxes are whole, one confirmation, a source as needed |
| `work` | GroupedPhotos: 2 regions; ItemStages: 2 attempts, 2 months; WorkerRun: 1 worker, 2 attempts; fairness | crops and the shared source, stages, parked stages and jobs end |
| `requests` | MediaDeletion: 1 output or 1 upload, 1 run; UploadClient: 2 photos; Membership: 2 identities; fairness | deletions of objects (rechecks too), accounts and orphans complete, queued photos start and a receipt follows its checks |
| `rollover` (violated) | 2 attempts, 2 months | uncertain amounts are spent twice before the first rollover of a month |
| `scrubbed` (violated) | 1 member, 1 tab | a deleted account's pieces stay until the identity is removed |

Deadlock is not checked: once everything is final and every countdown is 0 nothing
need ever happen again.  The safety runs check the type invariants of their modules
with the properties they are conjoined to; UploadJobs's is in `IInv`, those of the
budget, the gateway and the pieces are proved (`BudgetTypeCorrect`, `GatewayInvariance`,
`PieceTypes`), and so are the types of Membership (`Accounts` and `Shape` in its proofs).

**Bounds.**  Uploads share nothing but the concurrency limits and the administration
of their owner, so one entry shows every interleaving of its own transactions.  Two
attempts distinguish the first, a middle and the last attempt of a budget; one manual
retry the first and the last of the retries.  A lease of two ticks within a stage of
two lets a heartbeat both be cut and be needed.

For the budget, three attempts are the fewest of which two fill the allowance and one
is refused or carried; two months give a month with a past, and a hold only relates an
attempt's month to a later one.  With reservations of 2 and 1 units against thresholds
of 2 and 3, the first attempt is admitted in the normal mode, the next in the lighter
one and the third is refused; a bill of 3 exceeds either reservation.  A second pair of
thresholds lets the owner lower the stop below what is committed.  Two runs of a key
show every race of a key, since a third run of it can only take up what one of the two
left; the third run, of another key, shows that the keys do not mix.

In the other modules two is the number of every actor that may race another of its
kind (workers, deletion runs, tabs, editors, pages, photos of one batch), three the
number of photos after which a late result may be of the first, of the one between or
of the last, and of pieces among which two are parts of one photo.  A lost answer or a
dead run costs a fault, of which one or two suffice for each to fall on any request.
The masks of 3 by 4 cells are the smallest grid with regions that touch at a corner,
that enclose a hole, and of which three exist for two proposals; the spans of a 45-cell
grid have thirds, ninths and fifths, which round differently in each decimal place, and
scales of 1 and 16 pixels a cell give boxes below and above the smallest crop.
`MaxRestores`, `LastMonth`, `Months`, `Revisions` and the bounds marked *bound of the
model* where they are declared are not limits of the code; the others are limits the
code has, made small.

**Fairness.**  Everywhere time passes, and the schedules (`maintenance/index.ts`) run
again and again.  Of workers, of Edge calls, of members and of the administration
nothing is assumed unless said here.

- UploadJobs: the scheduler runs every minute (`dispatch_jobs`), reaches every expired
  lease and every due retry (weak fairness), and issues claims for runnable jobs again
  and again; wake-ups and claims may be lost, but not for ever (strong fairness of
  `IssueJobClaim` and `ClaimJob`, whose guards other jobs and expiring claims turn off).
- WorkerRun: the same as weak fairness of `Dispatched`, as one job is alone in the
  model; a worker or an Edge call that hangs is ended by its platform's time limit
  (`Crash`, `EdgeDies`), which promises nothing of its work.
- ItemStages: queued stages are claimed, leases end, due retries return to the queue
  (every minute), and parked stages resume (`aiRollover`, every ten minutes).
- GroupedPhotos: crops are claimed and their leases end; `temporaryCleanup` runs every
  five minutes.
- MediaDeletion: signed URLs expire, an invocation takes up due tasks, the sweep and the
  account phases run again; a worker's published, discarded or abandoned output is one
  of the three in the end; requests to the bucket may fail as often as `MaxFaults` says.
- Membership: the account cleanups come back (every five minutes, and hourly for
  identities without an invite) and Auth answers.
- UploadClient: a request of the browser is answered or fails, a validation ends
  (which UploadJobs shows), and a receipt that polls does.

A behaviour of a union run owes only the fairness of its own part: the formulas are
conjoined to `part = "..."`.

### Disagreements that runs show

1. *The start of a month* (`rollover`).  Holds are made by a job that runs every ten
   minutes, and `svc_ai_reserve` looks at holds, not at older attempts.  Until the
   first rollover of a month, a full allowance is admitted beside attempts of the
   month before that may still be billed.  The comment of `svc_ai_rollover`
   (`p0_05:397`) says that "the new allowance cannot spend it twice".
2. *A forgotten table* (`scrubbed`).  The outfits migration (`p2_01:209`) replaces
   `scrub_account_domain` without the deletion of the items.  The comment of the
   deletion (`p0_06:249`) says "Domain data is removed now".

### Other disagreements met while modelling

Each is stated as a property of its module, with the text of a document, comment or
page that it formalises; the code does not satisfy it.  They are not among the runs.
They were found with TLC on the instances above or smaller ones: name the property as
an INVARIANT or PROPERTY of a cfg to see the counterexample.

Work and money:

- `RunningWithinLimits` (UploadJobs): `svc_issue_job_claim` counts running jobs,
  `svc_claim_job` does not count again; two claims issued in a row, both before either
  is used, run two jobs of one member.  ARCHITECTURE.md:595: "at most two concurrent
  processing jobs globally and one per member".
- `LosingOutputsRecorded` (UploadJobs), `AnsweredOutputsAccounted` (WorkerRun): a job
  whose last lease expired is failed in the generation of the worker still running; its
  completion is answered `already_applied`, and outputs are discarded only on `stale`
  (`internal/index.ts:266,339`).  ARCHITECTURE.md:598: "Losing/stale attempts are
  recorded for object cleanup".
- `LostUploadsNothing` (WorkerRun): the lost flag is read before the first upload and
  after the last.  `pipeline.py:43`: "abandoned without uploading or completing".
- `PaidCallsCounted` (AiGateway): of two runs of a key the second, whose token count
  fails, releases the reservation under the first's call (`p0_05:368`); the settlement
  is refused.  `p0_05:349`: "A known unbilled outcome ... releases the reservation".
  `PaidCallsCountedUnlessGivenUp` shows that this is the only way to lose a cost.
- `BilledAsReserved` (AiGateway): the bill uses the price read before the reservation
  (`ai-gateway.ts:58,159`), which another run may have made under a later tariff.
  `p0_05:296`: "the observed billed cost".
- `OfferedRetryCanRun`, `ParkedStageCanResume` (ItemStages): a recut or a mask leaves the
  tags row at the old revision: its retry is canceled at the claim, and once parked it
  neither resumes nor is canceled.  `p1_02:73,74`.
- `SuspendedStagesResume` (ItemStages): a stage that had failed once keeps its failure
  code and is not resumed.  `p1_01:917`.
- `ParkedByItsMonth` (ItemStages): a refusal recorded after the new month began parks
  the stage for a month that never refused it.  `p1_02:547`.

Storage and accounts:

- `ReadyMeansAbsent` (MediaDeletion): account deletion queues no recheck
  (`p0_07:278`), so a PUT through a URL signed before lands after the absence was
  confirmed.  `p0_06:261`: "all confirmed absent".
- `JournaledBeforeRemoved` (MediaDeletion): runs other than the account's own work off
  its tasks before the journal is exported.  `lifecycle.ts:48`.
- `DoneMeansMarked` (MediaDeletion): two completions of one key each see the other
  pending, and neither marks the row (`p0_03:660`).  ARCHITECTURE.md:797.
- `LockedWithoutOwner` (Membership): open invites still admit after the last account,
  the owner's, is deleted.  ARCHITECTURE.md:806: "leave the installation locked".
- `NothingWasChanged` (Membership): an action whose answer was lost is reported as
  "Nothing was changed; try again." (`confirm.tsx:80`).
- `ClearedAtSignOut` (Membership): the pending confirmation survives the sign-out
  (`account-storage.ts:37`).  ARCHITECTURE.md:196.

Pages:

- `AcceptedFileStands` (UploadClient): the PUT URL stays usable after acceptance
  (`upload-manager.ts:60`).  ARCHITECTURE.md:97: "Store private immutable media objects".
- `ReceiptReachesTheEnd` (UploadClient): after a lost answer to complete nothing counts
  as moving and polling stops (`uploads/[id].tsx:77`).  `phase-00-foundations.md:83`.
- `UploadsEndWithAccount` (UploadClient): the session disposes before it signs out
  (`session.tsx:55`), and a renewal answered in between starts a PUT that nothing
  aborts.  `account-lifecycle.ts:2`.  For the same reason `TransfersBounded` is checked
  without sign-outs: `reset()` cancels no renewal under way, and when the same member
  comes back, the old run writes into the new map beside a new transfer.
- `ShownIsSent`, `MaskFitsItsPhoto`, `RecordedMaskKept` (MaskEdits): a refetched grant
  replaces the canvas without a repaint (`MaskEditor.web.tsx:72,119`), so that until the
  next operation the tint is that of the canvas before (`TintMatchesMask` is about all
  other times), and Undo goes back to masks of the canvas before; the revision sent
  may be newer than the photo drawn over (`:210`); any error deletes the mask object,
  also one that lost the answer of a commit (`api/index.ts:300`).
- Gathering (GatherPhotos): the screen keeps the key of the last selection only
  (`gather.tsx:130`).  A selection that is described one way, then another, then the first
  way again, with both answers lost, is sent under a new key and makes a second batch of the
  same files, whose entries nobody uploads.  `NoSecondBatch` therefore speaks of a key and
  its successor; that no photo is handed on in two batches (`PhotoSentOnce`) holds all the
  same.
- `PrunedWithCategory`, `OffersCanBeUsed`, `CategoryChangeSaves` (PieceEdits): attributes
  of another category stay after a suggested category (`p1_03 label:56`), are offered
  (`ProcessingPanel.tsx:110,138`), and are sent by an editor that hides them
  (`PieceEditor.tsx:230`).
- `OnlyTouchedChange` (ProfileEdits): the form compares its first values with the
  refetched profile and sends what another tab changed back (`SettingsForm.tsx:135`).
  ARCHITECTURE.md:191.

Group photos and repeats:

- `SourceOutlivesCrops` (GroupedPhotos): a confirmed source is expired whether or not
  its crops are done (`p1_04:706`).  `p1_04:682`: "The source must outlive its crop jobs".
- `RegionIsProposed`, `SeededDraftFits` (PartBoxes): start and width are rounded apart
  (`parts.py:79`, `split/[id].tsx:42`), so that a sound region at an edge may be dropped,
  and a seeded draft refused untouched.
- `HeldBeforeSecondPiece` (Duplicates): two validations of the same bytes at once each
  find no twin (`p1_04:364`).  `p1_04:5`: "before a second piece exists".
- `DeletedKeepNoLabel` (Duplicates): a label's validation attaches it to a piece that is
  deleted before it commits (`p1_06:485`).
- `NearMatchIsAsked` (NearMatches): of two look-alikes whose newer is processed first the
  pair is never flagged (`p1_04:820`).
- `ExistingStays` (NearMatches): the existing piece, read without a lock, may be deleted
  while the new one is removed for its sake (`p1_04:865`).

## 5. Proofs

`UploadJobs_proofs` proves, with TLAPS, for any finite or infinite sets of members
and entries and any limits and durations that satisfy the three assumptions of
`UploadJobs` (`SetsAssumption`, `LimitsAssumption`, `TimeAssumption`):

| Theorem | Property |
| --- | --- |
| `Invariance` | `IInv`, the inductive invariant |
| `TypeCorrect` | `TypeOK`; generations stay below `MaxGen` |
| `AgreementHolds` | `EntryJobAgreement` |
| `WorkIsBounded` | `BoundedWork` |
| `LeasesStayWithinStage` | `LeaseWithinStage` |
| `OnlyActiveRun` | `OnlyActiveMembersRun` |
| `OriginalIsUnique` | `OneOriginal` |
| `RawIsKept` | `RawUploadKept` |
| `LateUploadsAreRechecked` | `LateUploadRechecked` |
| `EntriesAreFinal` | `FinalEntries` |
| `OutputsSettle` | `OutputsSettleOnce` |
| `UploadJobsKeepPromise` | `KeepsPromise`, the refinement of `UploadPromise` |

The properties are not inductive one by one.  A claim stays within `MaxGen` only
because the budget is kept (`Budgeted`), which needs that a retry counts; a retry
of an expired lease is typed only because a running job has spent an attempt
(`RunsProperly`); an output is published once only because a refused output
belongs to a generation that no longer runs (`OutputsSettled`), which needs that a
job that does not exist has no generation, and that the entry is *validating*
exactly while the job runs (`Agrees`).  `IInv` is the conjunction of these with
`RawKept`, stated per entry: most transactions touch one entry
(`OneEntryStep`), the others are a case split between the entries they touch and
the ones they leave alone (`Frame`).  What each transaction writes into a job row
is a lemma of its own (`ParkedFields` to `ClaimedFields`).

The refinement goes through `EntryMove`: what each transaction may do to one entry
and to the generation of its job (`OwnerMoves` to `ClockMoves`), then each such
move is a move of the promise (`MoveKeepsPromise`).  `OutputsSettled` is what makes
`PublishedGeneration`, a CHOOSE over outputs, the generation of the job.

`AiGateway_proofs` proves of AiBudget, for any finite set of attempts, any number of months and
any prices, reservations, bills and thresholds that satisfy the assumptions of
`AiBudget`:

| Theorem | Property |
| --- | --- |
| `BudgetInvariance` | `BudgetInv`, the four invariants together |
| `BudgetTypeCorrect` | `TypeOK`; no counter goes negative |
| `LedgerAlwaysBalances` | `LedgerBalances` |
| `SpendStaysBounded` | `SpendBounded` |
| `HoldsAlwaysFollowDoubt` | `HoldsFollowDoubt` |
| `AttemptsAdvance` | `AttemptsOnlyAdvance` |

That `reserved` stays a natural number when an attempt ends needs that the month's
counter is the sum over its attempts, so type correctness and the ledger are proved
together.  Each step changes what one attempt owes, is billed or exceeds: the
lemmas on `Sum` say how a sum moves when one of its terms does.

The same module proves of AiGateway, for any number of runs of any attempts:

| Theorem | Property |
| --- | --- |
| `GatewayInvariance` | `GatewayInv`, with `BudgetInv` in it |
| `NeverSentTwice` | `SentOnce` |
| `ReservationsEnd` | `NothingLeaks` |
| `PaidCallsStayCounted` | `PaidCallsCountedUnlessGivenUp` |
| `ChargesStayBounded` | `ChargesBounded` |
| `CallsAreAuthorized` | `AuthorizedTariff` |

`SentOnce` is not inductive: it needs that at most one run of a key stands past
the dispatch (`OneOwner`), that its attempt says so for ever (`OwnersDecided`,
`SentDecided`), and, for the costs, that an owner that has not sent yet still owns a
counted attempt unless another run gave it up (`SendersCounted`).  Every step of a
run is first shown to be one line of a table (`Turn`: where the run goes, what
becomes of its attempt's state, what the provider sees), and the invariants are
proved from the table.  `BudgetInv` is kept because a step does to the ledger what an
action of AiBudget does, or nothing (`GatewayStepIsBudgetStep`).

`ChargesBounded` compares what the provider charges with the ledger's ceiling, although
the ledger hears of a charge late, wrongly or never.  It rests on three things: a call
that left is counted in the month of its attempt, at its reservation while its outcome is
unknown (`PaidCallsCountedUnlessGivenUp`); what is settled is the charge or, where no
tokens were reported, the reservation (`ChargesReported`); and a month counts no more
than its ceiling and what was billed above reservations (`SpendBounded`).  So each charge
is at most what its attempt counts for, and what is unforeseen in it (`ChargeCovered`).

`MCBrowser_proofs` proves of Membership, for any users, tabs and codes (`MembershipAssumption`):

| Theorem | Property |
| --- | --- |
| `AdmittedStay` | `AdmittedAreNotRemoved` |
| `NothingUnasked` | `OnlyFreshlyAsked` |

The second is a property of steps, and follows from an invariant in two halves.
`Accounts`: one owner at most, and what a run has claimed is being deleted.
`Confirmations`: whatever a browser and its tabs show is a challenge with the recipient
chosen when it was started; a tab that holds a proof holds it alone, in a session of the
challenge's own user that is younger than the challenge, and the challenge is verified
and not carried out.  That a proof is held alone is why carrying one out cannot be
repeated by another tab, and it needs that only an unverified challenge yields a proof.
Every step is first shown to move the accounts in one of four ways (`Move`: they rest,
one changes, ownership is handed over, one is removed), and the confirmations in one of
three per tab (`Keeps`, `Leaves`, `Proves`).

The same module proves of the other components of the browser:

| Theorem | Of | Property |
| --- | --- | --- |
| `AnySentAsTold` | UploadClient, any constants within `SendBounds` | `Truthful`, and `TransfersBounded` without sign-outs |
| `AnyGatheredOnce` | GatherPhotos, any constants within `GatherBounds` | `Gathered` |
| `SentAsTold` | the composition | `PhotosOnTheirWay` |
| `GatheredAlwaysOnce` | the composition | `GatheredOnce` |

`SendBounds` asks for finitely many photos and at least one file per choice,
`GatherBounds` for one of the three modes and at least one file per batch.  The
composition's constants are within them (`BrowserAssumption`: no photo is called
`"none"`, the mark of having no garment).

That a photo called sent is with the server is not inductive, since a run, the manager's map and
the receipt each remember an answer about an entry that may have moved on.  Entries only
go onward, so what was seen past its upload is past it still (`SeenTrue`), a run that
was answered *ok* has an accepted entry (`RunsTrue`), and a task is *done* only by such a
run (`TasksTrue`).  The bound on transfers needs `Fits`: without sign-outs each run under
way is the run of the active task of its photo, or its task was canceled, and a
photo that may be picked again has no run.  With sign-outs that is false, which is the
disagreement `TransfersBounded` is noted under in section 4.

For gathering, a request that is kept is the last one made, is acceptable as it stands, and
the server has under its key either its files or nothing (`RequestRight`); photos that are
listed while no request is kept are in no batch (`BatchesRight`); a photo that was handed
on is of one batch and no longer listed (`HandedRight`).

`MCStorage_proofs` proves of WorkerRun, for any workers, outputs, numbers of attempts
and retries and lengths of lease (`BoundsAssumption`):

| Theorem | Property |
| --- | --- |
| `RunInvariance` | `IInv`, the inductive invariant |
| `OutputsStayAccounted` | `OutputsAccounted` |
| `NewestPublish` | `NewestPublishes` |
| `LiveLeaseKept` | `LiveLeaseNotTaken` |

What is published is whole only because its outputs were verified to be there
(`VerifiedPresent`) and nobody has recorded them for deletion: a discard records the
outputs of one generation, no two runs have the same one (`OwnGeneration`, which needs
that a generation costs an attempt, `GenerationsSpent`), and until its completion is
answered a run's outputs are neither shown nor recorded (`LiveRunsUntouched`).
`DiscardsRecorded` is where an interrupted discard stands, `AnsweredAtEnd` says that only
a run that ended has an answer.  Every step is first shown to do one of four things to
the runs (`Rests`, `Claims`, `Goes`, `Discards`).

`ItemStages_proofs` proves, for any stages, revisions, months, attempts, retries and
restorations (`Bounds`: there is a revision, a month and a cutout stage):

| Theorem | Property |
| --- | --- |
| `StagesInvariance` | `StagesInv`: among it `CutoutFollowsPhoto`, `DerivedFromItsCutout`, `DeletedPieceIdle` |
| `KeysInvariance` | `IInv`: with it, the order of attempt keys |
| `NoLateResult` | `LateResultsNeverApplied` |
| `PaidNoMoreThanAsked` | `PaidAsAsked` |

A result is accepted by the generation of its job, not by the photo it was computed
from.  That these agree needs `Sources`: a job is queued only at the revision the piece
has then, a stage after the cutout reads the cutout of its own revision, and the cutout
stage reads the original the piece has until its revision passes.  `Counts` bounds the
generations over retries, resumes and restorations.  For the payments, the attempt keys
that were used for a photo form a chain (`KeysInOrder`): each was made of the counters of
manual retries and resumes as they stood, which only grow, so that two keys with the
same sum are equal, and there are no more keys than sums (`ChainIsShort`).  `Bounds` is
a hypothesis and no ASSUME, as the module is instantiated three times; `MCStorage_proofs`
proves it of each instance.

`MediaDeletion_proofs` proves, for any objects, runs, faults and retries, upload keys
being told apart from outputs (`KeysAssumption`):

| Theorem | Property |
| --- | --- |
| `MediaInvariance` | `MediaInv` |
| `PublishedOutputsKept` | `PublishedKept` |
| `RecheckedGone` | `RecheckedStaysGone` |
| `IdentityAfterObjects` | `ObjectsBeforeIdentity` |

An output can be swept only when it is old, and then the worker that made it has ended
(`SweptAreEnded`), so that it is not published after the sweep has looked
(`OrphansUnpublished`).  An object stays gone after its recheck because a recheck is due
only when the URL is shut for good (`Rechecks`, `WindowsOnce`), and because a run that
stands between HEAD and its report has found it absent then (`AbsentStaysAbsent`), which
needs that whatever a run holds was claimed as it is now (`HeldAreClaimed`).  The steps
are lines of a table of what may become of an object, a row, a URL, a task and a run.

`MCStorage_proofs` takes these to the composition that the run checks, whose instances
satisfy the hypotheses: `PiecesShowTheirPhoto` (`StagesFollowThePiece`),
`PhotosPaidAsAsked` (`StagesPaidAsAsked`), `NoLateAnswer` (`LateResultsNeverApplied`) and
`DeletedNoMoreNoLess` (`DeletedAsRecorded`).  A behaviour of the composition is one of
WorkerRun (`StorageIsWorker`).

`MCEdits_proofs` proves of PieceEdits, for any pages and categories and any number of jobs,
revisions and requests (`PieceAssumption`):

| Theorem | Property |
| --- | --- |
| `PieceInvariance` | `PieceInv` |
| `PieceTypes` | `TypeOK` |
| `SuggestionsAlwaysYield` | `SuggestionsYield` |
| `NothingReplacedUnseen` | `NothingUnseenReplaced` |
| `MemberValuesAlwaysStay` | `ValuesStay` |

`MetaCounts`: a field's version counts its changes and stays below the revision, and what
a member set is locked.  `RunsBasedOnPast`: a job was given versions the fields had, so a
field that changed since is known by its version.  `PagesOK`: what a page shows, and what
its draft started from, was the piece at that revision; that a revision names one state
of the piece is why a save at the current revision replaces what was seen.
An attempt to prove of `MemberValuesStay` that only a member's edit of a field changes it
failed, and TLC has the counterexample: once a suggestion has changed the category, any
edit clears locked attributes of another category (`update_item`, `p1_01:801`); the
property says so.

The same module proves of the other two:

| Theorem | Of | Property |
| --- | --- | --- |
| `AnyMaskAsShown` | MaskEdits, any constants within `MaskBounds` | what an editor shows is what it sends, after every operation; undo leads back; one correction of a revision |
| `AnyProfileSavedAsSeen` | ProfileEdits, any constants within `ProfileBounds` | an accepted save replaces what was seen; a key has one body; accepted is not told refused |
| `ShownAsMasked` | the composition | `MaskIsAsShown` |
| `SavedAsSeen` | the composition | `SavesAreSeen` |

`MaskBounds` asks for a revision and a step of history, `ProfileBounds` for a revision and
a key, and that neither a tab nor a field has the name of the welcome page's own
(`EditsAssumption` for the composition).

`MaskInv` relates, per editor, canvas, tint and history: the tint is what the canvas leaves
out, but between a refetch and the next operation, and until a refetch changes what an
editor was given, the oldest mask of a history that is whole is the one it loaded.
`CorrectedOnce`: a revision is corrected at most once, and the current one not yet, because
a correction passes it.  `ProfileInv` rests on `RevisionsName`: whatever a tab, a request on
the wire or a receipt holds with the profile's revision is the profile, so a save accepted
at that revision replaces what its sender saw.  `KeysOfForms` and `KeyOfWelcome` say whose
a key is: a form takes a new key for a new body, the welcome page sends one body.

`MCPhotos_proofs` proves of GroupedPhotos, for any pages, regions, windows, attempts, retries and
presses (`GroupedPhotosAssumption`):

| Theorem | Property |
| --- | --- |
| `GroupInvariance` | `GroupInv` |
| `PiecesConfirmedOnce` | `ConfirmedOnce` |
| `SourceKeptAsNeeded` | `SourceAsNeeded` |

That a page whose pieces were added is not told that they were refused needs to know
whose receipt is which (`KeysInv`): a key is one page's (`KeysOfOnePage`), a page that
keeps to its choice has one key, its requests on the network carry that choice, and a
receipt of that key is of that choice (`KeptChoice`).  `Untouched` and `Asks` say how a
photo that nobody confirmed stands, and that no request is empty.

The same module proves of repeats, look-alikes and boxes:

| Theorem | Of | Property |
| --- | --- | --- |
| `AnyRepeatsAccounted` | Duplicates, any constants within `DupBounds` | its invariants, and that an answer stands and a label waits for it |
| `AnyLookAlikesAsked` | NearMatches, any constants within `NearBounds` | its invariants, and that an answer stands |
| `AnyBoxFits` | PartBoxes, any constants within `BoxBounds` | `BoxesFit` |
| `RepeatsStayAccounted` | the composition | `RepeatsAccountedFor` |
| `AnswersAlwaysStand` | the composition | `AnswersStand` |

`DupBounds` keeps the piece from before, the photos and *nobody* apart
(`PhotosAssumption` for the composition); `NearBounds` asks for numbers only.

`DupInv` says how a transaction that has read, and not yet committed, stands: what it read
under a lock is still so, one decision of a photo is under way at a time, and what it
read without a lock may have changed, of which the commit takes account.  As with
group photos, a page that keeps its choice has one key and the receipt of that key is of
that choice (`DupKeys`).  `OneDecides` is the same of look-alikes: a question that is being
answered is open, and by one transaction only.

`BoxBounds` are the limits of the code: a side has at most 128 cells (`GRID_EDGE`,
`parts.py:25`) and 2048 pixels (`p1_04:281`), and a position that is typed lies within
the side (`toBox` and `valid_part_box` refuse any other).  Within them the theorem is
about every span of every grid, where the run takes the spans of one grid.  `BoxInv`
carries, through each rounding, how far it moved an edge: `ProposalFits` for the four
decimals of the worker, `DraftFits` for the draft made of them.  A side is far below a
million pixels, which is why the tolerance of a millionth in `valid_part_box` lets no
box through whose crop is too small (`CropFits`).

The theorems with `Any` in their name are about the instance for an arbitrary record of
constants; those of the composition take them to what the run checks.  A part's
constants are shown to be within the bounds (`RepeatBounds`, `PartsBounded`, `MaskParts`,
`ProfileParts`, `SideBounded`), and a behaviour of the composition to be one of each of
its parts, which rests while another part is chosen.

Theorems on properties that no run lists (`TypeOK`, `BoundedWork`, `LeaseWithinStage`,
`FinalEntries`, `AttemptsOnlyAdvance`, `AuthorizedTariff`, the inductive invariants, and
the properties of a component that a run checks as part of a conjunction) are proved all
the same; those of UploadJobs that are invariants are conjuncts or consequences of
`IInv`, which `restores` checks.

**Only model-checked.**  Of the safety properties, `PartsFoundWhole` as a whole: its half
about boxes is `AnyBoxFits`, the other compares the search of cells with reachability on
every mask of the bounded grid, and reachability is defined by recursion over data, beyond
the prover here.  `UploadSettles` and the properties of `work` and `requests` are liveness
under fairness, beyond it too.

## 6. Not modelled

- **Outfits** (`p2_01`): a save under a revision, as that of a piece, over rows that
  nothing else writes.  Their limit counts a member's rows in one transaction.
- **Browse and search, usage, receipts of administration**: queries that change nothing.
- **Contracts, domain packages, generated types**: schemas; where a validation decides
  something (a batch's files, a profile's patch) it is in the module of that request.
- **Operator scripts and deployment**: run by hand, one at a time; the bootstrap of an
  owner and the preparation of a restored database are actions of the modules they touch.
- **Image algorithms** (cutout, colors, embedding): numerical, without state.
- **Row locks**: a transaction is a step, or two where it reads without a lock and then
  commits.  Cancel and retry lock entry before job, claim and completion job before
  entry (`p1_04:747`); the database ends such a wait by aborting one of the two.
- **Rate limits and daily allowances**: counters that refuse a command at its start.
- **The lost timeline of a restored database**: its generations issued again, and its
  calls to the provider that the backup knows nothing of (section 3, UploadJobs and
  AiGateway).
- Of modelled components: the e-mail of the alerts, the operators' journal around a
  restore, a grouped piece's later photo, archived pieces among look-alikes, and the
  sweep of old idempotency keys.


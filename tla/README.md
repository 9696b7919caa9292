# Director-WebUI: TLA+ models and proofs

Director turns a timeline into ComfyUI prompts, posts them, follows them and
cleans up behind them.  The backend (`src/backend/directordeck`) is one asyncio
process over one SQLite database.  SQLite calls are synchronous, so a piece of
code between two `await`s is atomic; everything hard happens across awaits,
where other coroutines, the host and restarts get in between.  The models
therefore take **one step per stretch between awaits** (or a merge of such
stretches, named below).

    ComfyUI.tla            the host's prompt queue (external)
    RayLedger.tla          the RayLight runtime row and the dispatcher that plans against it
    MCRayLedger.tla          its instance for TLC
    RayBarrier.tla         what row and dispatcher promise of generations and pools (abstract)
    RayLedger_proofs.tla     theorems about the row, checked by TLAPS
    RayPools_proofs.tla      theorems about queue and pools, the refinement among them
    PromptOwnership.tla    who may settle one prompt
    PromptOwnership_proofs.tla  its theorems
    FifoEntry.tla          what tickets and lock promise (abstract)
    SubmissionTickets.tla  the ticket chain and the submission lock, a refinement of it
    SubmissionTickets_proofs.tla  its theorems, the refinement among them
    TimelineSync.tla       how a job's row follows its segments: flights, assembly, cancel
    MCTimelineSync.tla       its instance for TLC
    TimelineSync_proofs.tla  its theorems about flights, claims and rows
    TimelineCancel_proofs.tla  and about what a cancel answers and leaves
    AssetTrash.tla         documents, their revisions, and the trash of assets
    MCAssetTrash.tla         its instance for TLC
    AssetTrash_proofs.tla    its theorems
    *.cfg                  one TLC run each
    PROJECT.json           components, runs, hazards, findings, map to the source

## Inventory

| Part | State | Operations | Modelled in |
|---|---|---|---|
| ComfyUI host (external), `comfy.py` | queue, history | POST /prompt, GET /queue, GET /history, directed cancel | `ComfyUI`; its history in `TimelineSync` |
| RayLight runtime row (`database.py`, `execution/submission.py`) | epoch, descriptor, tail, taint, certificate | intent, settle, cleanup, restart confirmation | `RayLedger`, `RayBarrier` |
| Dispatcher (`app.py:7067-8451`) | coroutine locals, submission lock | admit, refresh, plan, claim, post, bind, await, fail | `SubmissionTickets` (its turn), `RayLedger` (Ray side), `PromptOwnership` (one prompt) |
| Ticket chain and submission lock (`app.py:7153-7184`, `8198-8400`) | chain of futures, lock | admit, settle, release, restart confirmation | `SubmissionTickets`, `FifoEntry` |
| Prompt ownership (`workflow/execution.py:1500-1736`, `database.py:5167-5690`, `6838-6979`) | state, revision, evidence | claim, confirm, unconfirm, certify | `PromptOwnership` |
| Cancellation (`app.py:4408-5064`, `11260`) | parent and child status, stage | probe, claim, directed cancel, book the answer | `PromptOwnership` (one prompt), `TimelineSync` (the job) |
| Recovery worker (`app.py:8592-8856`) | parent stage | list, claim, cancel, exact history | `PromptOwnership` (one prompt), `TimelineSync` (the job) |
| Reconciler and sync flights (`app.py:3161-4272`, `4275-4406`) | snapshots across awaits, one task per job, its heir | queue, bulk and exact history, aggregate, join, preempt | `PromptOwnership` (one child), `TimelineSync` (the job), `RayLedger` (settling the tail) |
| Assembly of the final movie (`app.py:3900-4270`, `database.py:7600-7860`) | stage claim, artifact row | claim, publish, fail, give back, restart | `TimelineSync` |
| Deletion of jobs (`database.py`) | tombstones | guarded by evidence | `RayLedger` |
| Progress, previews (`progress.py`) | child progress, preview cache | websocket frames | one action of `PromptOwnership` |
| Projects and timelines (`database.py:2815-3221`), their migration at a startup (`migrations/feature_bundle_v5_v6.py`) | documents with revisions | read, save, create, import, delete, migrate | `AssetTrash` |
| Assets and their trash (`database.py:3227-4115`) | registrations, batches with saved documents | upload, trash with cascade, restore, purge | `AssetTrash` |
| Continuity (`app.py:6920-7021`), settings | rows | one transaction each | not modelled (see below) |
| Workflow compiler, earlier migrations, installers, instance lock, plugin, frontend, custom nodes but RayLight's initializer and RayKill | - | pure data, one-shot conversions, machine I/O, vendored code | not modelled |

How they meet: the dispatcher, a cancel request, the recovery worker, the sync
flight and the websocket sink are five kinds of coroutine that write the same
parent row, child row, ownership row and runtime row.  They share no lock (the
submission lock orders dispatchers among themselves only); they exclude each
other by compare-and-set on an ownership revision, on a child's
`(status, updated_at)`, on the version of the parent's row or on the content of
the runtime row.  What makes the system correct: jobs submit one at a time in
the order of their admission; a prompt that may still execute is always owned
and never reported over; a Ray pool is reused only after success and never
doubled; what history says is never lost; a job ends once, after its children
and with what they produced; work handed to recovery ends; a saved document is
overwritten only by who has seen it and refers to assets that exist.  The hazards behind
these properties are listed line by line in `PROJECT.json`.

The five models cut the same program at different places and share the rows
they cut through.  `SubmissionTickets` says who is the one dispatcher that
`RayLedger` has in the section.  `PromptOwnership` follows one prompt with its
host, restarts and lost answers; `TimelineSync` takes several prompts that are
already posted and asks what the job makes of them.  `AssetTrash` is about what
is edited before any job exists, and shares no row with the others.

## ComfyUI

What the client relies on: a posted prompt may be admitted late, refused or
lost (`flight`); one worker executes; a directed cancel removes a pending
prompt without a history entry and asks a running one to stop; history is
forgettable.  `CancelAccepted` is the boolean `ComfyClient.cancel` returns.
The module has no specification of its own; `RayLedger` and `PromptOwnership`
instantiate it.

## RayLedger

`ledger` is the row of `raylight_runtime_state`.  `child[p]` is the row owning
prompt p, reduced to the classes of `(status, stage)` that the code
distinguishes; `kind` and `ns` are what was submitted and under which
`runtime_namespace`.  `pc .. stop` belong to the one dispatcher that holds the
submission lock (dispatchers run one after the other; a new one starts when
`pc = "free"`).  Dispatcher actions follow `_create_timeline_job_impl`: read
the row (`Acquire`), the recovery gate (`CheckRecovery`), the refresh of the
tail with its three host reads (`RefreshHistory`, `RefreshQueue`,
`RefreshConfirmation`), waiting for an earlier generation or RayKill
(`AwaitTail`, `AwaitOldKill`), planning (`PlanSegment`, `PlanKill`), RayKill's
preflight (`ClaimKill`), the POST and its outcomes, and the wait for exact
history.  The others (reconciler, cancels, recovery, deletion, restarts,
operator recovery) act between any two of them.

The actor pools alive in the host (`pools`, named by their epochs) follow the
nodes of RayLight (`nodes.py:655-706`, `1489-1503`).  Every Ray prompt that
starts, RayKill with its replayed loader chain included, continues the pool of
its epoch or builds it (`PoolBuilt`); that the initializer shuts down a pool
it finds in its own process is not counted on, so a second pool is a state the
model can reach if the backend lets it.  RayKill shuts the whole cluster down
when it succeeds, and perhaps when it fails (`PoolsLeft`).

What all this is for is `RayBarrier`: the host sees one generation at a time; a
generation begins on the only pool there is, never on one that a RayKill shut
down or on which a generation ended otherwise than in success; a RayKill takes
away no pool but the one it is meant for.  Its state is read off the ledger's
(`VisibleGenerations`, `GenerationRuns`, `KilledEpochs`, `SpoiledEpochs`) and
`ImplementsBarrier` is the refinement: `Enter` is a POST that the host takes
in, `Begin`, `Succeed`, `Fail` and `Miss` are fates of a generation,
`Replay` and `Shutdown` those of a RayKill, `Reboot` a restart of the host;
every other step, all writes of the row among them, is a stutter.

| Run | Question | Answer |
|---|---|---|
| `ray_host` | Three Ray prompts under cancels, losses, drops, forgotten history, failed output checks, deleted jobs | all eight properties hold |
| `ray_restart` | With restarts of backend and host: the inductive invariant of the barrier, pending work at the tail, the refinement of `RayBarrier` | hold |
| `ray_refresh_race` | Once nothing is outstanding, can a dispatcher always plan, though a cancel races its refresh? | no: the stale copy is written back |

Bounds: three prompts, because a pool, a RayKill and a second pool is the
shortest history in which reuse, barrier and epochs all matter; two keys,
because compatibility is only equality (symmetric); one host restart.
`ray_restart` has cancels, losses and restarts only: a dropped prompt leaves the
queue as a directed cancel takes it out (`ray_host` has both), and the rest
concerns history and not the host.  `View`
identifies states that differ only in fields nothing reads again (for instance
how a settled prompt outside row and dispatcher went wrong).

Three more statements of the repository fail in this model and have no run of
their own; each is a definition of the module and fails under `MCRayLedger`
with the bounds given:

- an output that fails verification after its success was recorded taints the
  row beside its own certificate, and no later plan accepts the pair
  (`QuietFrontierIsPlannable` with `Disturbances = {"artifact"}`, three
  prompts);
- a certified tail whose job is deleted and whose history is forgotten can
  neither be planned on nor refreshed (`DeletedTailIsPlannable` with
  `{"delete", "forget"}`, two prompts);
- Ray work refused because its GPUs are gone is pointed to a recovery that
  refuses too (`RefusalHasARecovery` with no disturbance, one restart).

`OutstandingWorkIsTheTail` is what makes the gate sound: whatever nobody has
written off is the tail the next dispatcher waits for.

## PromptOwnership

One prompt of one segment.  `own` is `prompt_ownership.state`, `child` and
`job` are classes of `(status, stage)` of the two rows, `receipt` is the output
observation receipt, `wanted` is `cancel_requested`.  Versions are compared and
never read otherwise, so instead of numbers the model keeps **who is current**:
`held` is the set of coroutines whose ownership revision is the row's, `fresh`
says whether the sync flight's child snapshot still is.  Each transition of the
ownership empties `held` but for its writer; a compare-and-set by s succeeds
iff `s \in held`.

| Coroutine | Actions |
|---|---|
| dispatcher | `Submit`, `Withhold`, `PostReturns`, `Bind`, `PostFails`, `PostRejected`, `InlineAnswered`, `LateAnswered`, `CleanupAnswered` |
| canceller u (and the dispatcher that joins a cancel) | `RequestCancel`, `Pursue`, `CancelAnswered` |
| recovery worker | `Recover`, `RecoverAnswered`, `RecoverProbe` |
| sync flight | `SyncBegin`, `SyncQueue`, `SyncHistory`, `SyncApply` |
| websocket sink | `ProgressEvent` |
| process, operator | `BackendRestart`, `HostRestart`, `ConfirmRestart` |
| host | `HostStep`, `HostAnswers`, `CancelFails` |

Merged steps: the sync and the quiescing at the end of a cancel belong to the
step that books the answer (the sync flight may run anyway); joining or
replacing a running flight before a cancel is a free choice; output
verification is one step with three outcomes (published, unusable, try again).

Invariants of `prompt_ownership`: a prompt that may execute has an open child
(`OutstandingIsOpen`); a closed child has released its prompt
(`ClosedMeansReleased`, whose opposite the code treats as corruption); history
certificates are true; the parent never ends first; recovery leaves live
submissions alone; nothing terminal or stopping is revived (`NeverRevived`).
Two requests to cancel are enough for TLC: a third canceller can only repeat
what the second does to the first's revision (and the theorems hold for any
number).  `OwnershipInvariant` is the inductive invariant of the proofs.  `Disturbances` names what may go wrong;
this run has all of them.

`prompt_late` checks liveness under `FairSpec`: the recovery worker is a loop
of the process whose passes end (`WF` on its steps), the host finishes
validating what it received (`WF(HostStep)`), and a transport that fails now
and then lets a request through again and again (`SF` on the worker's
`HostAnswers`).  It assumes no user and no restart: with them the property
fails, for the reason `prompt_lost_ack` shows.

Two statements of the repository that the code does not keep, each with its
run and its finding in `PROJECT.json`:

- `prompt_lost_ack`: an acknowledged cancel is dropped when someone bumped the
  revision between claim and answer; nothing can acknowledge it again.
- `prompt_fast_success`: a success recorded before the answer to the POST is
  processed ends as a failed segment.

Noted without a run: a restart puts a child with a recorded success where
neither recovery nor sync looks for its output again (`ReceiptIsRetried`, no
user, `Disturbances = {"restart"}`, although `app.py:2761-2763` calls the receipt the retry
authority); a refusal of the POST of a cancelled job leaves its
ownership for ever (`RefusalReleases`, one user, `Disturbances = {"refuse"}`);
a cancel the host acted on and whose answer got lost is never confirmed either;
a plan of Standard segments bypasses a tainted runtime row without RayKill; a
new dispatcher waits for the Ray tail, not for recovery-owned Standard prompts
(`docs/architecture.md:151-153`).

## SubmissionTickets

A job is called by the number of its admission.  `pred`, `tail`, `settled` and
`released` are the chain: a job's predecessor ticket, `submission_tails`, the
tickets whose settlement was requested and those whose future has its result.
`owner` is the owner of the submission lock, an `anyio.Lock` (external) whose
release hands it to a waiter, whichever (the real one is fair; order must not
rest on it, and does not).  `interrupted` are dispatchers that were cancelled
and have not noticed: cancelling a task and its unwinding are two steps.

The dispatcher's actions follow `_create_timeline_job_impl` from `Admit`
through `Compile`, `Preflight`, `Turn` (the shielded wait for the predecessor),
`RequestLock`, `Wake` and the section (`Post`, `Stop`, `Finish`, `Fail`) to the
cleanup outside it (`Joined`, `CleanedUp`, `Published`).  `Settle` is
`settle_submission_ticket`: it completes the ticket, or leaves it to a callback
of the unfinished predecessor (`Callback`).  `Cancel`, `Shutdown` and the
operator's restart confirmation (`Confirm`, `Confirmed`) come from outside.

What tickets and lock promise together is `FifoEntry`: the section is entered
by one at a time, in the order of admission, by whoever still has a place; the
operator enters when nobody has one.  `EntersInOrder` is the refinement, with
`left` the settled tickets and `inside` who is past the lock (or joining the
cancel of his own submission, when the lock is already released but no
successor may start).

| Run | Question | Answer |
|---|---|---|
| `tickets` | Three admissions interleaved with cancels, shutdown and the operator: order, exclusion, refinement, and does every dispatcher end and every ticket complete? | yes |

Bounds: three jobs, because a callback chain needs an unfinished first, a
settled second and a third that must not overtake.  Fairness: `WF` on each
dispatcher and callback (their awaits have timeouts or end with the host's
answer, and the event loop runs callbacks) and on the operator's request; none
on `Post`, `Cancel` or `Shutdown`.  Weak fairness of a dispatcher is enough
although it waits for a lock, because nobody takes the lock out of turn.
`CHECK_DEADLOCK FALSE`: when all is admitted and done the system may stop.

## TimelineSync

One job whose segments are all posted.  `status`, `stage`, `cancel` are its
row, `published` the row of the assembled movie, `kids` the children by the
classes of `(status, stage)` the aggregate distinguishes, and `host` what
became of each prompt in ComfyUI: a directed cancel removes a pending prompt,
which then leaves no history (`removed`), and asks a running one to stop
(`stopping`), which ends with a history, as `stopped` unless it was faster.
Writes of the row are compare-and-set on its version; the version is compared
and never read otherwise, so the model keeps in `claim` the flight whose
assembly claim wrote the current version, and every other write clears it.
`held` does the same for the ownership rows: the actors whose claim on the
prompt they are cancelling is still its row's revision.  Whoever makes the
ownership unconfirmed, a flight that finds the prompt nowhere
(`app.py:3334-3350`) or an actor whose own cancel failed or was refused,
overtakes the claims of the others, and an acknowledgement that then reaches
them is dropped (`app.py:4676-4709`).

A flight is the task of one pass of `_sync_timeline_job_once`.  There is one
per job (`current`), its waiters share its result (`on`, `got`), a cancel
request preempts one it cannot join and leaves it an heir
(`_director_replacement`); between preemption and unwinding the flight is
`doomed`, still alive beside its heir.  `kind` is what it may do: assemble (the
reconciler's), or not (a request's), or probe whether history from before the
first click already decides.

| Code | Actions |
|---|---|
| flight (`_sync_timeline_job_once`) | `Begin`, `Read`, `Aggregate` (all through `Decide`), `Assembled`, `Unwind` |
| waiters (`_sync_timeline_job`) | `Join` in every caller, `Rejoin` |
| `_run_timeline_reconciler` | `Reconcile`, `Reconciled` |
| request to cancel (`_cancel_timeline_job`) | `Click`, `Probed`, `Send`, `Reply`, `Dispatched`, `Responded` |
| recovery worker | `Recover`, `Send`, `Reply`, `Recovered`, `Rested` |
| process | `Crash`, `Shutdown`, `CancelFlights`, `Startup` |
| ComfyUI | `HostEnds` |

Abstractions: stage `restart` stands for the recovery stages
(`restart_cancel_pending`, ...) and `cancelling` for the stages of a cancel that
the recovery worker does not list, `cancel_failed` among them; which prompts a
cancel may claim is the subject of `PromptOwnership`, here a cancel claims what
is not released, joining a claim that is there, and ComfyUI's answer may be lost
or come too late to be booked; histories are not forgotten; touching the row to
reorder the reconciler's list is left out; the `restart_certificate_required` path and
runtime changes belong to `RayLedger`.  A request is clicked once: a user's
retry is another member of `Requests`.

| Run | Question | Answer |
|---|---|---|
| `sync` | Two segments, two requests, one fault, one stop of the process: the invariants below | hold |
| `sync_ends` | Does every job end, cancelled or not, if one request is ever made? | yes, but for removed prompts that nothing accounts for |
| `sync_recovery_dropped` | And if a second request is made after a restart? | no: a finding |

`ClaimHasOwner`: a row that says assembling has a live owner, whatever failed
or stopped.  `NoAssemblyAfterClick`: a cancel stops every assembly and a job
that needs one does not succeed any more.  `WaitersSurvive`: preempting a
flight kills none of its waiters (a `CancelledError` taken for one's own would
end the reconciler for good).  `CancelReadsCancelled`: a cancel that stopped a
prompt shows in the result.  `AnswersFollowClick`: no request answers
"running", although its own probe may write that.  `CancelIsSettled` says why
these two hold: once a request has gone on from its first pass, the row says
cancelled, cancelling or over, and no probe and no view from before the click
ever takes that back.  `TerminalIsCoherent`: the
row agrees with children and movie.

Bounds: two segments, because one may finish while the other is cancelled; two
requests, because the second joins, replaces or follows the first's probe; one
fault and one stop anywhere (requests are interchangeable in `sync`, whose
instance is `MCTimelineSync`; `sync_ends` has one request); three flights,
because at most two are alive at one time here (no behaviour ever waits for a
free flight; the proofs hold for any number).  Fairness is weak and per task:
the event loop runs what is ready, requests to ComfyUI and ffmpeg have timeouts, both background tasks are loops
that poll, and ComfyUI ends every prompt, with a history unless our own
cancel removed it.  Nothing is assumed of users, faults
or stops.  A request that never comes back after a stop is no promise:
`CancelEnds` and `JobEnds` speak of a process that stays up, and `sync_ends`
includes the job after a restart.

`CancelEnds` has one exception, and the code means it: "temporary queue/history
absence cannot close" a prompt (`docs/architecture.md:150`).  A prompt that our
cancel removed from the queue leaves no history, so if the answer to that cancel
is lost, or is dropped because its claim was overtaken, nothing will ever tell
it from one that is still to come: its child stays open and the job stays
cancelling.  `Unaccounted(s)` is that state and no more: the child is open, its
prompt removed, and no acknowledgement is on the way whose claim still holds.
Everything else ends, whatever fails: a running prompt that was stopped is found
in the history although its acknowledgement was lost, and a pass of the recovery
worker that failed comes back.

`sync_recovery_dropped`: after a restart the job waits for the recovery worker,
which lists it by its stage; a repeated cancel that preempts a flight writes
stage `cancelling` over it.  If the child's prompt has ended meanwhile its
cancel is refused, which is no error and writes no stage back; the sync skips
children that belong to recovery, and the worker no longer lists the job.

## AssetTrash

`doc` and `rev` are the columns `document` and `revision` of
`unified_timeline`, `projects` and `mode_drafts` (no revision); a document is
the set of assets it refers to and the version of its template bundle.
`asset` and `home` are the registrations, `batch` the rows of
`asset_trash_batches` with their `asset_trash_document_changes`, `read` what
each browser has open.  Every write is one `BEGIN IMMEDIATE` transaction, so
actions are transactions:

| Code | Actions |
|---|---|
| browser (`get_..._authority`, `validate_and_put_..._authority`) | `Open`, `Save` |
| `create_project`, `import_project`, `delete_project` | `CreateProject`, `ImportProject`, `DeleteProject` |
| startup (`initialize`, `_migrate_one`) | `Normalize`, `Migrate`: `MigrateInPlace` or `ReplaceDefault` |
| `put_asset` | `Upload` |
| `trash_assets`, `delete_asset_if_unused` | `Trash` |
| `restore_asset_trash_batch` | `RestoreRegistrations`, `RestoreWithReferences` |
| `purge_asset_trash_batch` | `Purge` |

What is hard is between the transactions.  A cascade rewrites every document
that uses the assets and keeps what they were; by the time the batch is
restored other cascades have rewritten the same documents, browsers have saved
views from before, projects are gone and a startup has migrated the rest.  A
save may succeed with its answer lost (`Save` leaves `read` alone): the browser
is then its own competitor.

Abstractions: a digest is equality; the renumbering of tags and the rewriting
of prompts by a cascade are data; whether a document has a projection onto
bundle 6 is a free choice for the default project (one stored at bundle 6 may
have none either), and to any other document that has none nothing happens;
documents that do not parse, which no modelled write produces, are left out;
bundle 4 counts as 5; a normalisation at a startup changes a text but neither
its references nor its bundle, and that of drafts, which have no revision, is
left out (it can only make a restore answer a conflict), so drafts change by
cascade and restore only, because their PUT answers 410.  Ids are never drawn
twice: those of projects are uuids, and that of the backup of a replaced default
is the digest of its text (written with INSERT OR IGNORE), which the default
never holds again, because every save of bundle 6 is projected first
(`database.py:2834-2835`) and none goes back to bundle 5.  The
part of an upload before its row is media work, and a purge leaves the host's
files alone.

| Run | Question | Answer |
|---|---|---|
| `trash` | The invariants below under every order of these transactions | hold |

`SavedReferencesAreLive`: no saved document refers to an asset that is trashed
or purged.  `BatchCanBeUndone`: a batch never disagrees with its registrations
(listing would raise for all batches), and what it would write back is always
valid, so the conflict `inverse_document_unavailable` does not occur.
`RevisionNamesDocument`: whoever remembers a revision, browser or batch, and
finds it current finds the document he remembers, so that comparing revisions
is enough.  `NeverDowngraded`: only `Save` compares bundles, yet a restore
never brings back a bundle from before a startup either.  `TrashTypeOK` is about
the limit of revisions: a save, a cascade, a restore or a migration that forgot
it would fail the CHECK of the table.  The normalisation at a startup does
forget it (`database.py:1264-1269`): at the limit the CHECK refuses the write
and the startup with it, so `Normalize` is not taken there.

Bounds: two assets and two batches, because two cascades through one document
may be undone in either order; one project beside the default one and the
drafts, because owners meet only in a batch; one browser, for the reason above;
three revisions **are** the limit of the revision space, which the code puts
at 2^53 - 1.  Assets and batches are interchangeable (`TrashSymmetry`).
`CHECK_DEADLOCK FALSE`: when assets are purged and revisions are exhausted the
system may stop.

Noted without a run: `delete_project` sets its jobs' project to NULL "for
audit", and every startup gives jobs without a project to the default one
(`database.py:1277-1280`).

## Proofs

`RayLedger_proofs` proves for every number of prompts, boots, keys and every
set of disturbances:

- `TypeCorrect`, `LedgerInvariantHolds`: `Spec => [](TypeOK /\ LedgerInvariant)`;
- `CertificatesAreTrue`: the certificate in the row is what the host did;
- `PoolsAreReusedOnlyAfterSuccess` and `KilledPoolsStayDead`.

The only assumption is `ConstantsAssumption` (None, Standard and the keys
differ; the bounds are natural numbers), evaluated by TLC in every run.

The argument.  `PoolReusedOnlyAfterSuccess` speaks of prompts and not of the
row, so it is not inductive.  `Accounts(l, ps, u, k, n)` says what a row l
asserts of the prompts ps: no issued prompt is ahead of its epoch; behind a
generation at the tail the epoch holds only successful generations of one key
and no RayKill; without one the row is tainted.  `RowsAccount` demands it of
the stored row **and of every copy a dispatcher may still write back**
(`keep_ambiguous_tail`, `ClaimKill`, a refused POST), which is why stale
write-backs cannot break reuse even though they can break planning.
`ChildTruth` makes settling by a terminal child sound.  Each action has its
lemma (`AcquireStep` .. `RestartSteps`), `NextStep` collects them.  The two
pool properties follow from a second invariant over the same steps
(`PoolStepKeeps`).  What the later proofs need of a step is said once:
`StepShape` (it is idle for the host, claims the next prompt, moves one prompt
at the host, or restarts it) and `ProgressShape` (no finished prompt moves
again, `ns` and `kind` of old prompts stay).

`RayPools_proofs` proves, from the same assumption and for the same generality,
what the row is for:

- `BarrierInvariantHolds`: `Spec => []BarrierInvariant`;
- `AtMostOnePool`, `OneGenerationIsVisible`, `OutstandingWorkIsAtTheTail`;
- `BarrierIsImplemented`: `Spec => ImplementsBarrier`, the refinement.

The argument.  The three invariants speak of prompts and pools; the dispatcher
looks at neither but at a row, and often at a copy of it from before an
`await`.  `Guards(l, ...)` says how a row l protects the host: a pending prompt
is its tail; while the host holds any prompt of the ledger's, l has a
descriptor, is tainted and is of that prompt's epoch; the only pool is the one
of its epoch; after a RayKill that succeeded there is none.  `RowsGuard`
demands it of the stored row and of every copy that may be written back.  The
rest is why the copies stay good: `ChildFollowsHost` and `RefreshSound` say
what a terminal child, an acknowledged cancel, an earlier boot and each of the
three host reads of a refresh prove about the host (the queue is read after
the history, so who is in neither is gone), `TopologyGone` covers a host that
came back without its GPUs, and `HostOrder` that once a prompt is claimed every
earlier one is finished, or at most still being interrupted, which keeps the
worker from the later one, and then the two are not both generations.  Each way of rewriting a row has its
lemma (`TaintGuards` .. `SettleGuards`), each kind of move its own
(`ClaimKeeps`, `OutsideRowKeeps`, `MovedKeeps`, `RestartKeeps`), each action
its lemma on top of them, and `BarrierStep` collects the actions.  For the
refinement `StepMaps` goes through the shapes of a step: `GenerationMaps`,
`KillMaps` and `RebootMaps` map what happens at the host, `StartFindsItsPool`
and `ItsPoolIsSound` are the guard of `Begin`.

`PromptOwnership_proofs` proves for every set of requests to cancel and every
set of disturbances:

- `OwnershipInvariantHolds`, `PromptTypeCorrect`: the inductive invariant, with
  the types;
- `OutstandingPromptsAreOpen`, `ClosedChildrenAreReleased`,
  `CertifiedPromptsAreFinished`, `RecoveryExcludesSubmission`,
  `ParentsEndLast`: every safety invariant of the run;
- `NothingIsRevived`: the action property.

The only assumption is `UsersAssumption`: a request to cancel is none of the
process's own coroutines.

The argument.  None of the safety invariants is inductive: a coroutine acts on
what it was told or claimed before its await.  `Evidence` says that what it was
told is still true when it acts (an acknowledged cancel: the host has let go of
the prompt; history: the prompt is finished; an earlier boot: nothing of it is
left).  `ClaimsAreOpen` says that a claim the compare-and-set will honour is a
claim on an unreleased prompt, so that a late answer cannot reopen one.
`Releases` ties a release to the end of the child or to a recorded success, and
`Unsent` covers the child before its POST.  `RecoveryIsLater` keeps the
recovery worker and the requests that work for it away from the dispatcher's
POST.  `CancellingIsSeen` is what `NeverRevived` needs: a sync flight whose row
is still current has seen the cancel.  Each action has its lemma, `NextStep`
collects them, and a part that rests on another part has a step naming it.

`SubmissionTickets_proofs` proves for every number of jobs:

- `TicketInvariantHolds`, `AdmissionOrderHolds`, `OperatorIsAloneHolds`;
- `EntersInOrderHolds`: `Spec => Fifo!Spec`, the refinement.

The only assumption is `SentinelAssumption`.  The argument.  Who waits looks at
his predecessor's ticket only, so order over the whole chain needs `Chain`: the
predecessor is the job admitted just before, a forgotten tail means that
everybody before is through, and released tickets are a prefix of the
admissions.  `Turns` ties tickets to places in the code and `LockHeld` the lock
to its owner.  For the refinement each dispatcher step is a `Leave`, an `Enter`
or a stutter (`LeaveStep`, `EnterStep`, `DispatchMaps`, `StepMaps`).

`TimelineSync_proofs` proves for every set of segments and requests and all
bounds:

- `TimelineTypeCorrect`, `FlightInvariantHolds`: the inductive invariant;
- `ClaimHasOwnerHolds`, `NoAssemblyAfterClickHolds`, `WaitersSurviveHolds`,
  `TerminalIsCoherentHolds`.

The only assumption is `ConstantAssumption`.  The argument.  The invariant has
two halves.  `Flying` speaks of flights and their waiters: the live flights are
the current one and doomed ones (`Registry`), an heir never assembles and is
never preempted by the process itself (`HandOver`), so a waiter is handed over
at most once and never dies.  `Rowing` speaks of the row: a claim is held by
the flight that still owns the version (`Claims`), what only a cancel brings
about is there only with one (`Intents`), and the row agrees with its children.
How a flight ends and how an actor joins one are stated once (`EndKeeps`,
`EndEffect`, `JoinKeeps`, `JoinEffect`, `LeaveKeeps`, `SettleKeeps`); each
action has its lemma, `NextStep` collects them.

`TimelineCancel_proofs` proves on top of it `CancelIsSettledHolds`,
`AnswersFollowClickHolds` and `CancelReadsCancelledHolds`.  The argument.
`Settled`, what the row says once a cancel has been heard, is stable: every
write of the row either follows the request or is refused by the version.
`Heard` says who relies on it: whoever went on from the first pass of a
request finds the cancel settled, and a live probe is always the one its
request still waits for, so that none outlives the request and writes
"running" afterwards.  What an action tells its waiters is stated once per way
a flight ends, an actor moves, joins or leaves (`EndTells`, `ActorTells`,
`JoinTells`, `LeaveTells`); each action has its lemma, `ToldStep` collects
them.

`AssetTrash_proofs` proves for every set of projects, drafts, assets, batches
and browsers and every limit of the revisions: `TrashInvariantHolds`,
`TrashTypeCorrect`, `SavedReferencesAreLiveHolds`, `BatchCanBeUndoneHolds`,
`RevisionNamesDocumentHolds` and `NeverDowngradedHolds`.  The only assumption
is `TrashAssumption` (the kinds of owners are disjoint; `None` is no batch).
`TrashTypeCorrect` speaks of the modelled writers; earlier one-shot conversions
are none of them.  The argument.  `Memories` makes `RevisionNamesDocument` inductive: nobody
remembers a revision to come or a project that is not born, so a new revision
outdates every memory (`AdvanceOutdates`, `ReadersKeep`, `BatchKeeps`).
`Cascades` says that a cascade took nothing out of a document but the batch's
own assets and left its bundle: a restore over an untouched document therefore
writes live references only and no other bundle, whatever happened to other
batches in between.

Every invariant, action property and refinement of the passing runs is a
theorem.  Only model-checked: liveness (`LatePromptIsReleased`,
`DispatchersEnd`, `TicketsComplete`, `CancelEnds`, `JobEnds`), which with
ENABLED is out of the prover's reach.  The types of `PromptOwnership`, `SubmissionTickets` and `TimelineSync` are theorems
and no property of a run.

## Not modelled

- Continuity: failing the unsubmitted successors of a failed segment is a
  synchronous loop, one step of the program; which frame is handed over is
  media data.
- Settings: one row with a revision, compared in one transaction.
- Validation of documents against their schemas and the projection onto bundle
  6: functions of large documents, not of an order of events.
- Jobs from before children and typed ownership existed, which the code reads
  through legacy branches; RayKill children in the aggregate.
- Parsing of progress frames and the preview cache: no durable state.
- The workflow compiler is a pure function of large documents, earlier
  migrations run once, installers and host capabilities are I/O of the machine, plugin and
  frontend are other processes; of RayLight only what initializer and RayKill
  do to actor pools is modelled.

Worth doing next: the composition of `TimelineSync` with typed ownership; an
abstract statement of what a job's row promises that `TimelineSync` refines.

## Running

    tlc -workers 2 -config RayLedger.cfg MCRayLedger.tla
    tlc -workers 2 -config PromptOwnership.cfg PromptOwnership.tla
    tlc -workers 2 -config SubmissionTickets.cfg SubmissionTickets.tla
    tlc -workers 2 -config TimelineSync.cfg MCTimelineSync.tla
    tlc -workers 2 -config AssetTrash.cfg MCAssetTrash.tla
    tlapm RayLedger_proofs.tla        # and the other *_proofs

Violation runs are expected to fail; their counterexample is the finding.
`CHECK_DEADLOCK FALSE` stands in the runs of one job or of a bounded number of
jobs (they end and nothing is left to do) and in the short violation runs.

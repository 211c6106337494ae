# Verification of immich-gphotos

immich-gphotos copies an Immich library to Google Photos. This directory holds
TLA+ models of its engine, TLC configurations that check them on small
instances, and TLAPS proofs of what holds for instances of any size. Paths
below are relative to `src/immich_gphotos/`.

    tlc -workers 2 -config engine_safety.cfg MCSyncEngine.tla
    tlapm SyncEngineRowProofs.tla        # and so for every *Proofs.tla

## The system

One process serves any number of accounts. An account has its own database, a
*runtime graph* (clients, runtime, worker, reconciler, backfill, album mirror,
deletion sweeper; all built by `composition.py` from its settings) and one
background loop thread. A tick of the runtime fans a batch of assets out to the
threads of its pool. The HTTP API runs beside all this and changes the same
tables; a settings save builds a new graph and swaps it in while the old one may
still be ticking.

| Component | State it keeps | Operations | Talks to |
|---|---|---|---|
| Asset table (`store/assets.py`) | one row per asset: state, reason, priority, attempts, two deadlines, media key | one SQL statement per method | everything; it is also the work queue |
| Worker (`sync/worker.py`) | ids already charged for (`_throttle_prepaid`) | `process` one asset: eligibility, two lookups, window, meter, upload, mark; failure handler | table, Google client, byte resolver, throttle |
| Runtime (`sync/runtime.py`) | paused or not, the pool | `tick`, `_run_wave`, `resume`, `close` | table, worker, Immich (allowlist) |
| Background loop (`sync/loops.py`) | next reconcile, when it saw the pause | `iterate`: tick, reconcile, stale sweep, albums, deletions, backfill slice | all of the graph, one step after the other |
| Reconciler, backfill (`sync/reconciler.py`, `sync/backfill.py`) | a cursor each | a pass over all pages of what changed; one page of everything | Immich search, table |
| Webhook, retry, backfill routes (`api/hooks.py`, `api/routes.py`) | nothing | upsert; `retry_now`; set or clear the backfill's cursor | table, cursors |
| Deletion sweeper (`sync/deletions.py`) | nothing | plan within limits, trash, mark | table, Google |
| Album mirror (`sync/albums.py`) | chain of Google albums per Immich album, members added | push in batches, overflow to a new album | tables, Immich, Google |
| Throttle (`sync/throttle.py`) | bucket balance, shared by all accounts | `take` | worker |
| Live swap (`composition.py`) | the graph in use | build, carry a halt over, swap, close, release deferrals | loop, runtime, table, settings |
| Settings routes, wizard (`api/routes.py`, `api/wizard.py`) | rows of two databases | save either half of the settings, connect Immich; then rebuild | databases, registry, live swap |
| Account registry (`accounts/registry.py`) | the accounts served, their services, the limiters they share, a lock | load, create, remove, replace the limiters, rebuild every account | `control.db`, live swap |
| Migration (`accounts/migrate.py`, `accounts/build.py`) | the data directory | move an old install's database, fill `control.db`, trim the account's row; merge the two settings rows | both databases |

What is hard about it, and what makes each part correct:

- *Worker threads, loop thread, API and the process's death* meet in the rows of
  one table. Claims must be exclusive, what is settled must stay settled, and a
  row may say "synced" only if Google has the content; a claim must not outlive
  the thread that held it.
- *Google answers late, wrongly or never.* A repeated upload must not move bytes
  twice, an account's error must not count against its assets, a pause must end.
- *Waiting*: the schedule window, the bandwidth cap and the retry backoff park a
  row; it must get through some day, and the cap must be paid once.
- *Immich's webhook is sent once*, and its search results are pages of a result
  that moves. Nothing that changed may fall between passes.
- *Deletions* are three steps in two systems with users at work in between. They
  may take out of Google only what was trashed, and only so much.
- *A swap under load* must not lose a halt or an asset, leave a row waiting for a
  cap that is no more, or close a client that is in use.
- *Settings live in three places*: two databases and the graph that runs. A save
  writes them one after the other, and may fail or the process die in between;
  what is shown, what runs and what the next boot finds must be the same, and
  all accounts must share one cap. The registry's lock covers some of this only.
- *Moving an old install* to the layout of many accounts crosses file system and
  databases; it must survive a crash anywhere and lose nothing a user set.

The complete list of hazards, each at its line, is in `PROJECT.json`.

## Modules

| Module | Models | State |
|---|---|---|
| `AssetTable` | every writing method of `AssetRepo`, as an operator on one row | none: pure operators |
| `SyncEngine` (extends it) | loop thread, tick, waves, worker threads, webhook, retry, crash, clock | see its VARIABLES; one action per statement or remote call |
| `MCSyncEngine` | instances of it | |
| `AssetTableProofs` | lemmas on its operators | |
| `SyncEngineProofs`, `SyncEngineRowProofs` | theorems on SyncEngine: types, backup, claims; rows, charges, costs | |
| `Discovery` | webhook loss and delay, reconciler, backfill, paging | stamps in place of rows |
| `Deletions` (extends `AssetTable`), `MCDeletions` | the deletion sweep against Immich's trash | table, Google, Immich, the pass |
| `AlbumMirror` | the album pass: chain, counts, marks | one album, its Google albums, the pass |
| `LiveSwap` (extends `AssetTable`), `MCLiveSwap` | a settings save against a tick of the graph it replaces | table, one entry per graph built, the save, the tick |
| `Migration` | the data directory and the boot | both kinds of database, stage of the boot |
| `Accounts` (extends it), `MCAccounts` | the registry, the requests that change it | the process's memory, what each request is doing |
| `SettingsBook` | what a user may count on about settings | a page per account and one for all |
| `DiscoveryProofs`, `DeletionsProofs`, `AlbumMirrorProofs`, `LiveSwapProofs`, `AccountsProofs` | the theorems on each | |

`AssetTable` is the one meaning of a row, and SyncEngine, Deletions and LiveSwap
are composed with it; Accounts composes the registry with the migration it boots
through, and implements `SettingsBook`.

Operators marked "Slip" are plausible mistakes in the definition that follows
them. No specification uses them; put in the place of that definition, each makes
the property it was written for fail, which shows that the property can fail.

### AssetTable

A row is a record. A deadline is kept as the time left until it (`wait`), a
claim as its age, because every query compares them with now and nothing else. A
missing row is `NoRow`, so that `UpsertPending` is total like the statement it
models. `barred` stands for whatever `check_eligibility` refuses an asset by
(in `Deletions`: for `is_trashed`). Texts, sizes and media keys' values are left
out; `hasKey` remains.

### SyncEngine

The grain is that of the code: a worker thread advances by one database
statement or one remote call at a time (`pc`), the loop thread by one phase of
`iterate` and `tick` (`loop`). `Iterate` is the head of `iterate` with the pause
cooldown; `ClaimNext` the claim with the answer of `transfer_allowed`;
`AllowlistFails`, `HandBack`, `HandBackFails`, `HandedBack` the two ways a tick
returns claims; `StartWave`, `WaveEnds`, `WaveHalts`, `WaveRaises` the fan-out and
what `future.result()` brings; `Enqueue` what the reconciler and the backfill do
to the table; `Upkeep` the stale sweep and the end of the pass. A running job
works on the row *as it was claimed* (`item`), as `StoredAsset` does.

Simplifications, each of which allows more behaviour or removes only detail:

- `claim_next` orders by priority and then age; ties are broken any way.
- A wave is any `poolSize` of the batch: `UPDATE ... RETURNING` promises no order.
  `poolSize` is the setting `worker_threads`, chosen from `WorkerThreads` at the start.
- A one-asset wave runs on the calling thread in the code and on a pool thread
  here; nothing can tell.
- The allowlist's answer is a choice per asset, and so is whether a wait of the
  bucket is too long to sleep out; inline waits are part of the upload step.
- `Clock` ticks at any time. Ages stop counting at the one value they are
  compared with.
- Retry delays are jittered, so `next_delay` is a choice from `RetryDelays`.
- The disruptions of `Disruptions` strike at most `Budget` times, those of
  `Recurring` any number of times; an error of a single asset is one of them.

Left out of it: `close` and swapping (see LiveSwap), scratch files, error
classification by message text.

### Discovery

Times are small numbers. Immich stamps a change; the change may show up to
searches up to `MaxSkew` later than its stamp, a webhook up to `MaxDelay` later than
the creation. `OverlapIsEnough` states what the reconciler's five minutes rely
on: overlap greater than the two together. Search results are recomputed for each
page. `Change` touches, trashes or restores an asset; `DeleteForGood` takes it out of
every result, past the trash or out of it, whatever `deletions_enabled` says, and its
id never comes back (`gone`). `Deletable` are the assets that may go that way.
`slipped` is a history variable: the assets that a shrinking result moved from a page
still to be asked for to one already read, as long as no row and no later pass makes
up for it. `BreakOff` is an Immich error, a failed write or a crash in a pass. The
guard against a search whose page number does not advance is left out, the modelled
Immich always advances.

### Deletions

The plan, the call to Google and the marking of rows are separate steps, and
users trash, restore, delete for good and add between them. `TrashFails` lets the
call take effect although it fails; `MarkFails` marks any part of the rows
(`executemany` commits row by row). The worker's run of an asset is a single step
here: it runs on the thread that also sweeps, and SyncEngine has its interleavings.
A webhook may arrive any number of times and however late. Immich refuses to add a
content it has, in its trash too.

### AlbumMirror

One Immich album: albums share no state, only the loop over them (so that one
which keeps failing starves those after it is outside the model). A batch is any
`BatchSize` of what is pending, because Immich lists members in an order of its
own. Recording a batch (`Put`, `Bump`) and marking each member are steps of their
own, and a pass can break off between any two. Google is taken to accept whatever
it is asked to hold: what it does past its limit is not the program's to say,
`WithinLimit` is about what it is asked.

### LiveSwap

The request thread runs `rebuild_runtime` one effect on shared state at a time
(`save`): read the halt, read its time, assign the services, replace the loops,
set `_closing`, shut the pool, release deferrals, close the client or leave that to a
thread which first shuts the pool, in case the tick has made one since, and waits for
it (`CloserShuts`, `CloseDrained`). The loop thread
runs `iterate` and `tick` of whichever graph it found in the handle (`at`,
`ticking`), down to each `submit` to the pool, which is refused once the pool is
shut. What an object owns (`_paused_reason`, `_paused_at`, `_pool`, `_closing`,
`_throttle_prepaid`) is kept per graph, as the code keeps it per object; that is
what makes the outgoing tick write to places nobody reads any more.

A job is one step, with its result; SyncEngine has its inside. A job whose client
was closed may fail with an error of its asset's, or succeed because it had its
bytes already. Left out: errors that have nothing to do with the swap, the
schedule window, the album allowlist (whose lookup
would fail with the client and give the batch back), and `_next_reconcile`.
Saves follow each other here; Accounts lets them overlap.

### Migration, Accounts, SettingsBook

A database is what its setting table holds under the keys that the boot and the
routes touch, a key being absent, null or a value. `MergedSettings` is the rule by
which the control row and the account's row make the settings of an account.
Boot steps are as atomic as the file system and SQLite make them; a crash can
come after each.

A request is a record that says what it read and what it has yet to do, and it
advances by one statement, one critical section under the registry's lock, or one
effect of a rebuild. A limiter has a number, so that "the same bucket" can be told
from "a bucket of the same rate". `StatementFails` covers the closed connection of
an account removed under a request as well as a failing database. `StopLoop` has
both outcomes of the join with its timeout.

The global keys are represented by one, the cap, as the gate differs from it only
in that it always exists; account keys by one, the login by one; the wizard's two
credential rows are two. An old row holds a value or lacks the key; a null in it reads
like a missing key. Labels, positions, tokens, the removal of Immich's workflow and
`stop_all` are left out.

`SettingsBook` says the same from the user's side: pages that only change where
and how a save asked, move once, and vanish only when asked. `KeepsBook` is the
refinement: a page is the valid part of a row, the old install's page is that of
the database without an id, the shared page lives in `control.db` or, before the
migration, in the row it will be taken from. It is an initial predicate and a step
relation over data on disk and requests under way, so a crash between two writes of one
save is allowed, and a write that a save did not ask for is not.

## Runs

| Run | Question | Bounds |
|---|---|---|
| `engine_safety` | types, row consistency, backup, exclusive claims, single transfer, quarantine, prepaid marks, settled rows | 2 assets of different content, 2 threads, a batch of 2 in one wave or in two, 2 attempts, cap, one crash or account refusal |
| `engine_outages` | do halts, outages and aborted ticks strand nothing and cost nothing; does every claim end; is every queued asset decided in the end | a batch of 2 in one wave or in two, refusals, Immich outages and closed windows without end, one more disruption of any kind, a cap that always defers the first time |
| `engine_orphans` (violated) | is a wave always awaited | one failing database call |
| `discovery` | is a change ever out of sight but by a result that shrank; does the backfill reach all | 2 assets, the first of which may be deleted for good, pages of 1, 4 units of time, deletions on, one broken pass |
| `discovery_shrinks` (violated) | is a change ever out of sight | the same |
| `deletions` | only trashed contents leave Google, within limits, rows truthful, interrupted passes finished | 3 assets, at most 2 and 67 % per pass, one failure |
| `deletions_readded` (violated) | is a synced live asset in Google | 1 content under 2 ids, no failure, no fraction limit (in a real library one asset is within it) |
| `albums` | members arrive, one failure costs one album at most, exact without failures | 3 assets, albums of 2, batches of 2, two broken passes |
| `swap` | is a claim kept through a swap, a halt carried, the new cap followed, a client closed after its calls | 2 assets, pool of 2, two saves with a new client, a new cap or both |
| `accounts` | are limiters shared, is what was saved served, is removal final, does the bare webhook path keep its owner, does everything implement `SettingsBook` | 3 ids, 2 requests of any kind, fresh, old and new installs, two disruptions out of a crash, a failing write and the loss of `control.db` |
| `accounts_concurrent` (violated) | is the graph that is reported the one that runs, with two settings requests at once | 2 ids, 2 requests, no disruption |
| `albums_overfull` (violated) | is an album ever asked to hold too much | as in `albums`, with one broken pass |

Why this small is enough. Two assets and two threads are what it takes for one job
to run while another raises, halts or finishes (a pool of two), for one claim to be
dispatched while another is held back (a pool of one, whose first wave leaves the
other claim to a halt), and for two threads to hold the same row if anything could
let them. Two attempts show a retry and the quarantine. Delays of one or two units
put every event before, at and after each deadline. Two pages show what moves
between pages; only the first asset need be deletable for good, as one that leaves
the result moves those after it. `ForgottenOnlyBySlipping` holds with deletions off
as well, where trashing takes the part of deleting. In `deletions` three rows and
67 % put the count below (1 of 2), next to (2 of 3) and above (1 of 1, 2 of 2) the
fraction. Assets with their contents, and threads, are interchangeable where a cfg
declares symmetry; no run of a liveness property does. `deletions` does not check
for deadlock: once all its assets are gone and known nothing is left to happen. In
`albums` a third asset overflows into a second album, and `MaxAlbums` is never
reached with work still to do: the liveness property would fail if it were.

In `engine_outages` outages recur for ever, so that a claim can be interrupted in any
round; its properties about what an outage costs hold as long as nothing else has
gone wrong (`left = Budget`). `MixedReports` lets each source of work report
either a fine or a barred asset but not both, which halves the state space;
`engine_orphans` uses all reports.

In `swap` two saves are needed: with the second a client can have outlived the pool
it was built with, and the tick may be two graphs behind. One pool size is enough,
as a wave of one runs inline whatever the size. Its ticks have a single wave each; a
batch of three in a pool of two with one save, and pools of one and two with two
saves, were checked as well (the second takes too long to keep) and find nothing
new, and the theorems are for any batch and pool. In `accounts` three ids let an
account be added to an install of two, two requests are the least that interleave,
and two disruptions let the replay of a broken-off boot be broken off again or
`control.db` vanish after a crash. Requests are made once each, so that the system
stops when they are used up, and it is not checked for deadlock. Settings requests
come one at a time in `accounts` (`ConcurrentSaves`); adding and removing accounts
overlaps with them and with each other.

### Fairness

`FairSpec` of SyncEngine asks for weak fairness of the loop thread (`run_forever`
catches everything and never leaves its loop), of each worker thread (each call
of `process` returns or raises, the clients have timeouts) and of the clock.
Nothing is asked of Immich, the user, the webhook or the disruptions. The other
steps of the environment never disable a thread's step for good. Deletions and
AlbumMirror ask for weak fairness of the sweep and of the mirror, which `iterate`
comes back to on every reconciling pass.

### What the violated runs show

- `engine_orphans`: `_run_wave`'s docstring (`sync/runtime.py:193-196`) says a wave
  is waited for in full. One database error in a worker's local checks or in its
  failure handler comes out of `future.result()` first, and the tick lets go of
  jobs that still run. Their results are lost, and the stale sweep may then hand
  their rows out again.
- `discovery_shrinks`: an asset deleted for good (Immich's trash emptied, say) between
  two pages of a pass moves the later ones up, and the pass skips one. The pass is
  complete all the same and the cursor moves past the change. With deletions off the
  search leaves out the trash, so trashing alone does it. This is the only way:
  `ForgottenOnlyBySlipping` holds in `discovery`.
- `deletions_readded`: the sweep plans by row and trashes by checksum. An asset is
  trashed and deleted from Immich for good; its file is added again while the item is
  still in Google, and resolves to the key of the old row; then the sweep trashes
  the item the two rows share. The added asset counts as backed up, and its only copy
  is in Google's trash. The other order ends the same way: a file added after the
  sweep resolves to the key that `mark_deleted` keeps (`store/assets.py:296-302`).
  TLC finds it when the model's sweep is made to spare shared contents, so that
  either repair alone is not enough.
- `albums_overfull`: `item_count` is raised after `add_to_album` returned. If the
  pass breaks off in between, the count is behind for good, unless the next batch
  happens to be the same one.
- `accounts_concurrent`: `get_settings` (`api/routes.py:173-178`) says that the
  settings it reports are always the live ones. `rebuild_runtime` assigns the
  settings and then replaces the loops with no lock around the two, so two saves
  about one account can leave one's settings reported and the other's running.

Known and by design, so no property claims otherwise: an asset restored in Immich
after its item was trashed stays terminal and is not uploaded again; two assets of
the same content in one wave may both upload it (Google deduplicates, so this
costs bandwidth only); a reset pressed during a backfill slice is overwritten by
that slice; a swap forgets which assets were charged for, so they are metered
again; of two saves at once one patch can be lost.

What the properties except, because the code lets it happen: a halt that the
outgoing tick raises after the save has looked is not carried over
(`SaveResumesNothing`), and the next refusal halts again; a row the outgoing tick
parks after the release waits on the old cap (`DeadlinesFollowTheCap`); a client
that was carried into a newer graph and is replaced there is closed while the pool of
the older graph may still use it, and so is one whose pool the tick makes only
after the save has looked for it, in spite of the docstring's "once nothing
already dispatched against it can still be running" (`composition.py:48-50`;
`ClientOutlivesItsCalls`); a crash
between filling `control.db` and trimming the account's row leaves a copy of the
global keys there, which `accounts/migrate.py:198-200` calls harmless and which comes
back to life at a boot after the shared value was cleared (`Leftover` in
`SavedIsServed`).

## Proofs

Every invariant, every action property and the refinement that a run checks is
also a theorem of its specification, for instances of any size. What a theorem
assumes of the constants beyond the modules' `ASSUME`s is written in its statement,
and is listed here with the run that shows it is needed. Most properties are not
inductive as they stand; what was added, and why, is the substance of the proofs.

### SyncEngine (`SyncEngineProofs`, `SyncEngineRowProofs`)

For any assets, contents, threads, delays, limits and disruptions.

- `TypeCorrect`, `TypesHold`: `TypeInv` is `TypeOK` with "a running job has an
  asset"; without the latter `Id(t)` of a running thread has no meaning and
  `TypeOK` is not inductive.
- `SyncedIsBackedUp`: a row with a media key names content Google holds. `BackedUp`
  alone is not inductive, because a worker marks a row in a later step than the
  one in which it learnt that Google has the content. `BackedInv` adds
  `MarksAreTrue`: a job at its mark step has content in Google. Nothing in
  SyncEngine takes content out of Google; `Deletions` does, and shows what the
  property turns into then.
- `ClaimsAreExclusive`: `OwnInv` adds to `WorkOwnsItsRow` that jobs run only in the
  wave a tick waits for (`AllAwaited`) and that claims are held only within a tick
  (`BatchInTick`); the stale sweep runs outside of it.
- `SettledIsFinal`: no step changes the verdict or the priority of a settled row,
  since the workers that write verdicts only hold rows that are still uploading.
- `RowsTellOneStory`, `QuarantineIsEarned`: `RowsConsistent` and
  `FailedMeansExhausted`. Both rest on the lemma `EveryRowStep`, which lists all that can
  happen to one row (`RowStep`), and on `OwnInv`: the handler decides on the
  attempts it read with the claim, and that is the row's count only while
  nobody else holds the row.
- `BytesMoveOnce`: `MovedInv` adds to `MovedOnce` that what has landed is in Google
  (`LandedIsThere`), and that a job past `exists()` without a hit still has its
  content missing (`LackingIsTrue`). The second holds because no other job has the
  content, hence the hypothesis `DistinctContents`: two assets of one content in a
  wave may both upload it, as listed under what is known and by design.
- `WavesAreAwaited`: the property `engine_orphans` finds violated.
- `ChargesAreForWaiting`: `PrepaidInFlight`, whatever fails.
- `ClaimsAreWorkedOn`: `NothingStranded` speaks of a run whose budget is unspent, so
  `StrandInv` says that until then `OwnInv` holds and every uploading row is held
  (`NobodyStranded`).
- `OutagesAreFree`: likewise `OutageInv`, that until then no attempt is counted and
  nothing quarantined, by any job in flight either.

`SettledIsFinal`, `ClaimsAreExclusive`, `RowsTellOneStory`, `QuarantineIsEarned`,
`BytesMoveOnce` and `WavesAreAwaited` assume that no database call fails
(`"database" \notin Disruptions`); crashes, refusals, outages and lost answers they
allow. `engine_orphans` is how claims stop being exclusive otherwise.
`ClaimsAreWorkedOn` and `OutagesAreFree` assume only that what the property itself
counts against the budget does not strike without being counted: a failing
database or a crash for the first, a failing database or an asset's own error for
the second.

### Discovery (`DiscoveryProofs`)

For any library, page size, overlap, delays and number of broken passes.

- `DiscoveryTypes`: a page is asked for only if the page before it was full, which
  takes lemmas on integer division, as the bound on pages is a quotient.
- `WalkIsComplete`: `WalkInv` says that what was live at the start of the walk and
  has no row yet is on a page still ahead of the cursor (`StillAhead`), or of
  the place in the slice under way (`AheadInSlice`). It is preserved because what is
  live only grows and a new asset moves the others to later pages, never to earlier
  ones. Trashing or deleting does move them to earlier ones: the walk then owes nothing
  (`toWalk`), and likewise when Start, pressed under a slice, is undone by it.
- `ReconcilerForgetsOnlyBySlipping`: `PassInv` says that webhooks are no older than
  `MaxDelay` (`HooksAreFresh`), that cursors are ordered (`CursorsInOrder`), that a
  page that was read is still what Immich says (`FetchedIsCurrent`), and that what
  changed since the cursor is ahead in the pass or has slipped past it
  (`AheadInPass`). It assumes nothing about who deletes or trashes what, and rests on
  `OverlapIsEnough`.
- `UnshrunkResultsForgetNothing`: under `NothingShrinks` (nothing is deleted for good,
  and deletions are on or the trash is not used) nothing slips, so `NothingForgotten`
  holds. `discovery_shrinks` shows what happens otherwise.

### Deletions (`DeletionsProofs`)

For any assets, contents and limits.

- `DeletionsTypes`; `DeletedIsTrashed`: `VerdictInv` adds that a key goes with a
  verdict (`RowsKeyed`), that the planned rows stay synced until they are marked
  (`PlanIsBound`), and that between Google's answer and the marks nothing puts their
  contents back (`PlanIsOut`), which is what running on the loop thread is for.
- `LossNeedsTrashing`: what left Google had its content in Immich's trash, under
  some id; `LossInv` remembers it for the plan that is under way (`TrashRecalled`).
  With `DistinctContents` this is the asset itself (`LossIsTheOwners`), and so
  a synced asset that was never trashed is in Google (`LiveStaysBackedUp`):
  `deletions_readded` takes a content under two ids.
- `LossStaysBounded`: a plan is within the limits when it is made, and still when
  it is carried out a step later, because the synced rows do not get fewer in
  between (`PlanIsAllowed`).

### AlbumMirror (`AlbumMirrorProofs`)

For any members, limits, batches and number of broken passes.

- `MirrorTypeCorrect`, `AddedStaysThere`: members are marked after the call and the
  writes to the chain, so `ThereInv` adds that the batch is in an album and that the
  chain knows that album by the time the marking starts (`BatchIsThere`).
- `OneAlbumPerFailure`: `LooseInv` says that an album without a mapping is the one a
  running pass has created (`PutIsLoose`) or was lost to a failure, and that no
  album is mapped twice (`MappedOnce`).
- `ExactUntilDisturbed`: `ExactInv` says that until a pass breaks off all that is in
  Google is marked or about to be (`Held`), so that what is pending is in no album yet
  (`Fresh`), and by how much a count is behind at each step of a batch (`Counted`).
- `LimitKept`: with `Budget = 0` no album is asked to hold more than it can;
  `albums_overfull` takes a call that fails after it took effect.

### LiveSwap (`LiveSwapProofs`)

For any assets, pools, caps, delays and number of saves.

- `SwapLosesNoClaim`: `ClaimedOnce` becomes inductive with `Phases`, which says for
  each place of the loop thread where assets can be (none in the pool once a wave
  runs inline, none in the wave while it is awaited).
- `HaltsAreCarried`: `HaltCarried` says that between the look and the replacement
  the new graph is as halted as the old; it needs `GraphTypes`, which ties the
  place of the save to which graph is installed and which one the loop is handed.
- `RowsFollowTheCap`: `DeadlineInv` says under which caps a row can be parked at
  each point of a save, and that a claimed row has no mark, which is why a job that
  ends without deferring cannot leave one.
- `ClientsOutliveTheirCalls`: `ShutInv` says which graph's client a save can have
  closed, and that its pool was shut before unless the tick made the pool after
  the look, or the client outlived the pool's graph; the client of a graph whose pool is
  still to be drained is open (`ClosersOpen`); `AttemptInv` that an asset
  still to be processed has met none but clients closed earlier than the tick's,
  so that each costs it one attempt at most.

### Accounts (`AccountsProofs`)

For any number of accounts and requests, any settings, and however often the
process dies, a write fails or `control.db` is lost.

- `AccountsTypes`: `StructureInv` is `TypeOK` with what each step of the boot finds
  (`BootInv`), what each request must have read at its place (`Shapes`), who holds
  the lock (`LockInv`), and which accounts have graphs, loops and connections
  (`AccountInv`). It is what keeps a request from using the graph or the database
  of an account removed under it.
- `AccountsStayErased`: `RemovedIsGone` at every step of the process (`ErasedInv`).
- `BarePathIsTheOldAccounts`: at most one database is the old install's, and at
  each step of a boot the bare path is bound to it or is still to be (`OldInv`).
- `EveryoneOnOneLimiter`: `SaverInv` says where the one save of global keys is and
  which loops still have to be put on the new limiters by then.
- `SettingsAreServed`: `DataInv` ties the places together for every step of a save:
  what is on disk (`DiskInv`), in a graph being built (`GraphInv`, `FreshInv`), in
  service or still owed by a save (`ServesInv`), in the limiters (`CapsInv`), and
  between services and loop (`SwapsInv`).
- `ReportedStaysLive`: the property `accounts_concurrent` finds violated.
- `AccountsKeepTheBook`: the refinement. Every step of `Spec` is a step of
  `SettingsBook` under the mapping or leaves its variables alone; there is one lemma per
  group of actions. `MoveInv` says what a boot finds on disk at each step of the
  migration, so that the step which takes the shared settings over takes what the
  page showed.

`EveryoneOnOneLimiter` and all after it need that settings requests take turns
(`~ConcurrentSaves`). Nothing in the code makes them; they hold for a user who has
one save answered before the next, and `accounts_concurrent` is what can happen
otherwise. Adding and removing accounts may overlap with saves and with each
other. The first three need nothing. `NoGraphAssumption`, `NoPageAssumption` and
the conjuncts of `PlacesAssumption` on `NoDb` and `NoControl` only say that the marker
of a missing thing is not such a thing.

`AssetTableProofs` has what the proofs about rows rest on: each operator keeps a row a
row, and what it leaves alone.

### Checked by TLC only

The liveness properties `ClaimsEnd`, `EveryAssetIsDecided`, `TrashingIsPropagated` and
`MembersAreMirrored`: liveness under fairness is out of the prover's reach, so
for these the bounds of their runs are all there is.

## Plan

1. AssetTable, SyncEngine, their proofs: done.
2. Discovery, Deletions, AlbumMirror and their proofs: done.
3. LiveSwap; Migration, Accounts, the refinement of SettingsBook, and their
   proofs: done.
4. `BackupLifecycle`: what the engine promises about one asset, from unknown to
   decided, as an abstract specification that SyncEngine implements, checked and
   proved.
5. `TokenBucket`: debt and credit at their bounds with several callers.

Not modelled, and not planned: the wizard's other forms (they store nothing but a
save's settings or a credential), the removal of Immich's workflow with an account
(best effort, outside the databases), pages, metrics, readiness and
event stream (read-only views or request plumbing), logging and redaction (text),
authentication of requests.


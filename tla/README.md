# A verification project for JoyRead

JoyRead is a desktop reader for comics, PDF and novels (Python, PySide6).  This
directory holds TLA+ models of the parts of it in which several actors share
state, the TLC runs that check them on small instances, and the proofs TLAPS
checks for every value of their constants.  Paths below are relative to
`src/src/joyread/`.

* `ArchiveBundles`, `ArchivePool`, `ArchivePoolProofs` - the disk cache of extracted pages
* `PageScheduler`, `PageSchedulerProofs` - admission of random-access page work
* `WarmupCoordinator`, `WarmupProofs` - background extraction of whole documents
* `StorageTransition`, `TransitionProofs` - the phases of moving, selecting or resetting the library, composed with the warmups
* `StorageHome`, `LibraryStartup`, `StorageProofs` - what the disk phase does to directories and settings, and opening a library at start
* `LibraryStore`, `LibraryImport`, `LibraryMaintenance`, `LibraryFiles`, `LibraryProofs` - rows and files of the library under imports, audits, deletions and crashes
* `Bookshelf` - what the library promises its user; `LibraryFiles` implements it
* `LaunchBroker`, `WindowOwnership`, `Launch`, `LaunchProofs` - single instance, the queues of launch requests, and top-level windows
* `ReaderPages`, `ReaderProofs` - one reader window: opening, the page stream, the frame cache, closing
* `DictOrder` - the order of a Python dict, for the pool's index and the scheduler's owners
* `MC*` - instances for TLC

## 1. Inventory

### Archive extraction pool and its leases

`core/services/archive_extraction_pool.py`, `core/services/archive_cache_lease.py`.

*State.*  One zip bundle per document in a cache directory, `<key>.partial.zip`
while it grows and `<key>.zip` when it is complete; an in-memory LRU index of
path and size with a running total against a budget; pins and builds per key;
the set of keys that promised to leave nothing on disk, with a marker file for
each; a schema stamp for the directory.  A lease holds one key and knows whether
the key is ephemeral (one reader session) or persistent.

*Operations.*  open and close a lease, mark it private, read, write a batch of
pages, publish, begin and end a build, promote a session key to a content hash
(move, or merge into a bundle that is already there), resize, clear, reconcile
the index with the directory on the first use in a process.

*Interaction.*  Reader sessions, detail pages and warmups call it from worker
threads, the settings page from the GUI thread.  Every public method takes one
lock, so calls interleave but do not overlap.  The operating system may empty
the directory, any file operation may fail, and the process may die between two
files of one call.

*Hard.*  Two leases on a private document, one of which promotes it; a purge the
file system refuses; a partial bundle and a complete one side by side after a
crash; eviction under pressure beside live pins.

*Correct means.*  Pins match leases; what a private document wrote is gone after
its last lease and never taken over by the next process; a bundle that claims to
be complete is; the total is what is on disk, and all of it can be reclaimed;
what is in use is not evicted, and a lowered budget is met in the end.

### Random-page scheduler

`app/reader_page_scheduler.py`, with `app/task_service.py`.

*State.*  Per owner (a reader's body or its thumbnail strip) a dictionary of
attempts per page, the attempts that hold a slot, the owner last served at each
priority, the executors that are sealed.

*Operations.*  replace and cancel an owner's demand, quiesce and resume an
executor, close; the pump loop that dispatches; the answer of a task and its
finished signal, both queued to the GUI thread.

*Hard.*  A cancelled attempt keeps its slot until its finished signal, and its
owner may have asked again by then; the answer of a page may be on its way while
the demand is replaced; fairness between readers that keep changing their mind;
a sealed executor must drain while another one goes on.

*Correct means.*  Limits hold for the tasks that really exist; no slot is left
idle; no page is prepared twice; owners take turns; a sealed executor drains.

### Archive warmup coordinator

`app/archive_warmup_coordinator.py`, and the chunk loop that calls back into it.

*State.*  The known jobs by document, a queue, the active key, one retired job
(forgotten, still in its worker), the storage root that is sealed.

*Operations.*  acquire, release, invalidate, close_all, quiesce_library,
resume_library, reset; the worker's steps; finish and fail.

*Hard.*  The coordinator forgets jobs whose workers go on, and is asked for the
same document again.  `_finish` and `_fail` find the job by its key, not by its
identity.

*Correct means.*  One extraction at a time; the slot is never idle while a
document is wanted; every request is served or withdrawn.

### Storage transition

`core/services/storage_transition.py`, `app/storage_transition_driver.py`,
`app/app_context.py`, `ui/views/main_window.py`.

*State.*  The driver's phase and clock; the sealed task scopes; open library
readers and what they have not saved; the tasks the executor still has; the
services built on the storage root.

*Operations.*  flush, quiesce, drain, disk phase on a thread of its own, commit,
rebuild, resume, abandon.

*Hard.*  Settings of a reader are saved one after another, so one flush is not enough,
and go on being saved after it was closed; tasks that were cancelled still run to an end;
windows open and close at any time, under the seal as well; the drain may time out; the
rebuild may raise; external readers keep working throughout.

*Correct means.*  The disk phase is alone with the library; what an open reader writes is
flushed or the flush ran out of time; every transition ends; nothing runs against services
that could not be rebuilt.

### Managed library: import, maintenance, deletion

`core/services/import_service.py`, `core/services/library_maintenance_service.py`,
`core/models/storage_layout.py`, `core/repositories/sqlite_book_repository.py`.

*State.*  The rows of `book_files` (path, source hash, stored hash, kind, state)
and `books`; the files under `Books/` and `Books/.staging`; the journal of
renames; the gate that imports and audits hold in turn; the audit plan that waits
for the user.

*Operations.*  An import stages, probes, converts and publishes an artifact and
inserts its row.  An audit scans rows and folder; later, on the user's approval,
each item is adopted, marked, merged into a twin or renamed under the journal,
and what nobody names is swept.  A start recovers the journal and the staging
directory.  A deletion takes rows in a transaction and unlinks afterwards.

*Hard.*  A plan is applied long after its scan; database and file system change in
separate steps, with a crash between any two, and one of them may fail; a deletion unlinks
outside the gate; a file may be adopted, shared or missing; the user alters files from outside.

*Correct means.*  A row owns one file, at the path its kind asks for, with the hash
it has on disk; no rename stays half done; a book opens to the bytes it was given.

### Storage home and library load

`core/services/storage_migration_service.py`,
`core/services/storage_validation_service.py`, `app/app_context.py`,
`app/library_runtime.py`, `infrastructure/config/settings_store.py`.

*State.*  The candidate roots with what is in them; the settings file with its
pointer and its fallback; the worker of the disk phase; the load attempts with
their generation; the library that is open.

*Operations.*  move, select, reset, the rebuild that ends them; load, retry, skip;
settings saved by the GUI thread beside the worker's; drives detached, the process
stopped between any two steps.

*Hard.*  Copy, pointer and removal are separate effects; a load that was superseded
still answers; two threads update one file without a lock.

*Correct means.*  No library is lost that the user did not reset; the settings
name a library that is there; what opens is what was asked; a missing library is
never replaced by an empty one.

### Launch, single instance and windows

`app/launch/`, `app/bootstrap.py`, `app/windows/`.

*State.*  Between processes: the lock file, the socket name, messages in sockets.
In the primary: the broker's and the coordinator's buffers, the gate, the
top-level windows and who owns them.

*Operations.*  arbitrate, forward, accept, wire the handlers, settle, submit,
document events, open, close and reopen windows, quit, dispose.

*Hard.*  Processes start while another quits or has died; building a window pumps
events in the middle of the launch decision; a document is asked for both by
the library and by the system.

*Correct means.*  Whoever holds the lock answers at the name; what was handed over is
answered; a window the system asked for outlives the library.

### Reader window: view model and page pipeline

*State.*  `ReaderViewModel` (`ui/viewmodels/reader_viewmodel.py`): the spread, the
frames it holds, the pages known to be unreadable, the stage of opening.
`ReaderPagePipeline` (`app/reader_page_pipeline.py`): the source, the pages asked for,
and two counters, a generation and a request token, that tell late answers from
current ones.  A window's slice of the shared frame cache.  The sessions, whose close
waits for a read that has begun (`core/archive/session.py:1006`).

*Operations.*  Open (with a password, or without a skipped archive), turn, change the
prefetch window, cancel; in workers: open, prepare one page after the other, close.

*Interaction.*  All tasks run in the library's scope, which a storage transition seals
(`app/storage_transition_driver.py:180`).  A page found in the cache is published from
inside the request that asked for it, and the layout that follows may make another request.

*Hard.*  Requests within requests; a token that moves while a document is being
opened; answers after a cancellation; a frame put into the cache after its
document was left; closing a session that is being read; the seal between any two of these.

*Correct means.*  No session is lost track of while it is open; frames on the screen are of the open
document; a request that was taken for a repetition is really being served; what
the reader waits for comes.

### Parts that are not modelled

| Part | Why |
|---|---|
| Hidden-image extraction pool | the contract of the zip pool with one file per page |
| Document runtime, page sessions | their use of leases and warmups is modelled as the callers' actions; their own state is sequential per reader, but for the hash of an external file (section 7) |
| Thumbnail stream | its demand on the scheduler is `PageScheduler`'s strip; its batches, pins and the timer of the preview are left |
| `StorageRecoveryService.prepare` | only the eager composition calls it; the application starts with the library deferred |
| PDF thread | one thread and a queue with a finaliser; next in the plan |
| Caches in memory, covers | byte-bounded LRU maps, an unpinned case of the pool |
| Collections, progress, bookmarks, tags, hidden space | rows no other component relies on |
| Database interpreter, migrations | transactions are SQLite's; a callback is one step of the models |
| Archive formats, EPUB parsing, canonical writer | sequential, without shared state |
| Tray cleanup, window geometry and activation order, views | presentation |
| Packaging, scripts | tooling |

`PROJECT.json` lists every part with its sources, and every hazard with its line.

## 2. Plan

1. **Caches and background work** (done): the pool and its leases; the
   scheduler; the warmup coordinator; the storage transition composed with the
   warmups.
2. **The library and its home** (done): rows and files with the abstract
   bookshelf they implement; the disk phase, the settings and the load at
   start; launch and windows.
3. **The reader window** (done): view model, page pipeline and the life of its
   documents, with the proofs of all that is safety.
4. **Left.**
   * `ThumbnailStream`: preview and topic batches over the shared thumbnail cache,
     with its pins and budget.
   * `DocumentRuntime`: hash computation against a changing file, generations and
     promotion, over `ArchivePool`; pages would carry the version of the file
     they come from.
   * `PdfThread`: queue, finaliser, restart after a shutdown that timed out.
   * `PoolContract`: what a lease may rely on, refined by `ArchivePool` and a
     `PagePool` for hidden images.
   * Proofs: the library with several damaged files at a time.

## 3. Modules and code

An action is one handler with every call it makes.  Definitions carry the names
of the methods they translate; `map` in `PROJECT.json` gives their lines.
Definitions introduced by a comment "Mutant:" are no part of a specification:
each is the neighbouring definition with a plausible bug, and shows that the
property named with it in `PROJECT.json` would notice that bug.

### ArchiveBundles, ArchivePool

`ArchiveBundles` holds the pure helpers (index, unlink, forget, purge, evict,
merge) as operators from a store to the store the code leaves; `ArchivePool`
holds the public methods.

| Variable | Code |
|---|---|
| `store` | `_index`, `_current_bytes`, and the bundle files |
| `markers`, `stamped` | session privacy markers and the schema marker on disk |
| `active`, `building` | `_active`, `_building` |
| `scoped`, `uncacheable` | `_session_scoped`, `_uncacheable_session_keys` |
| `budget`, `strict` | `_max_bytes`, `_strict_eviction_pending` |
| `lease` | the `ArchiveCacheLease` objects |
| `up`, `faults`, `restarts` | the process, and the bounds' counters |

Abstractions:

* A bundle is a set of pages, a manifest kind and readable or not; its size is
  the number of its entries.  `priv` in a bundle is a history variable: it holds
  pages of a document that asked to leave nothing behind.
* Every failing unlink, write or rename costs one of `MaxFaults`.  A file that
  resists being unlinked resists for the whole call.  Failing to write the
  schema marker is left out, and so are symlink and path checks.
* A crash inside a call leaves each intermediate state of its files that a
  restart can tell apart (`CrashInWrite`, `CrashInPublish`, `CrashInPromote`,
  `CrashInRelease`); `Crash` is the one between calls.
* The order of the index is a `DictOrder`: for each key, the keys that come no later.
  `Evict` is the loop of `_evict_locked` in these terms: a key is tried if what the
  keys before it could give up was not enough.  A sum of sizes (`TotalOf`) is the number
  of their units.
* `Reconcile` takes the bundles in any order, because the order of a directory
  listing and of modification times is not the program's.
* A lease's finalizer does what its `close` does.  Session keys are fresh, as
  they are UUIDs.  A promotion may come whenever a lease may be promoted: the
  hash and generation checks of the document runtime only make it rarer.

### PageScheduler

`want` holds the waiting attempts (a priority per owner and page), `task` the
admitted ones with what the scheduler and the executor each know of them: `held`
(a slot), `live` (still the owner's attempt), `cancelled`, and `phase` in the
executor.  `order` is the order of the dictionary `_owners`, as a `DictOrder`; `lastOwner`
is `_last_owner`, `sealed` is `_sealed`.

Turns of the pump loop are separate steps, but `pumping` keeps every other event
of the GUI thread out until the loop ends, as the code runs it in one call; only
workers go on in between.  A `submit` that raises and one that returns a refused
task both give demand and slot back at once.  An answer with a page and one with
a failure do the same to the scheduler.  Ties among an owner's pages
of one priority are left open.  Reader and executor of an owner never change.

### WarmupCoordinator

A job is a `_WarmupState` object with an identity of its own, because the code
may know another job of the same key.  `states` is `_states`, `queue` `_queue`,
`active` `_active_key`, `retired` `_retired`, `sealed`
`_quiesced_storage_root`.  The worker's loop is `Begin`, `Chunk`, `ChunkDone`:
between two chunks it looks whether it is wanted, and a chunk, once begun, ends.
`Report` is `_finish` or `_fail`, delivered as a queued signal.
`StartNext` takes the values the caller has computed, as `_start_next` is
called at the end of most methods.

What consumers do in their callbacks is left out, as is the shutdown of the task
service.  A view shows one document, so it has released any other.  Opening the
archive is part of the first chunk.  A consumer that joins a job whose worker
has already decided to stop is told that the document is ready; a reader
then finds pages missing and extracts them itself, so nothing is stated about it.

### StorageTransition

EXTENDS `WarmupCoordinator`; a step is one of the
warmups', of the readers and tasks, or of the transition.  `phase` is the
driver's, with "answered" for a disk phase whose signal is queued.  `gate` is the
pair of quiesced task scopes; other library tasks are counted in `work`.

A reader writes two things.  Every turn saves the position (`progress`): the save before
it, if it has not ended, goes on beside it as one more task.  Settings are saved one after
the other: `setting` are the readers with a save in the executor, `pending` those whose
settings have changed since, and the completion of a save submits the next one, also when
the window has closed meanwhile.  A close cancels the position's save, which still has to
come back and may have written; the seal withholds every answer, so what waited for one is not
saved.  `lost` and `gaveUp` are history variables.

A window may open at any time.  Its `reader-open` task is refused under the seal, so a
window without a document is the result, which writes nothing (the settings it would save
are refused as well); `Open` is the answer that brings a document, which the seal
withholds.  Every reader is a new object, so a member of `Readers` is used again only when
its last one's writes have ended.

A poll is told nondeterministically whether its
time has passed.  The result of the disk phase does not matter to the rest: the
application rebuilds in either case.  A save that fails and the maintenance lease
the transition holds are not modelled; what the disk phase does to files is `StorageHome`.

### LibraryStore, LibraryImport, LibraryMaintenance, LibraryFiles, Bookshelf

`LibraryStore` has the state, deletions, the user's hand on the files, and crashes;
`LibraryImport` the steps of one import, `LibraryMaintenance` those of a scan, of an
audit and of the recovery; `LibraryFiles` is their union with the properties.  The
modules form one chain of EXTENDS over the same variables.

| Variable | Code |
|---|---|
| `rows`, `books`, `journal` | `book_files`, `books`, `library_maintenance_journal` |
| `disk`, `staging` | `Books/`, `Books/.staging` |
| `step` | who holds `LibraryMaintenanceCoordinator`'s gate, and where he stands |
| `artifact`, `repair`, `plan` | `_StagedArtifact`, the item being applied, `LibraryAuditPlan` |
| `unlinks` | files of deletions that have committed |
| `edited`, `touched` | history: bytes and rows the user has altered from outside |
| `raced`, `unrecorded` | history: rows whose file a late unlink took, rows whose update failed after a rename |

A hash is the bytes it is the hash of.  A verbatim artifact lives at a path named for
its bytes, a canonical one at a path named for its row, so a path is a member of
`Contents` or of `Ids`.  A callback of the database actor is one step, and so is one
effect on the disk; a crash may come between any two.  Deletions take no gate: `DeleteBook` and
the unlinks it leaves behind (`DeleteFile`) run at any moment of an import, an audit or a
recovery's successor, and an unlink asks nobody whose the path is by then.  The update of a row
after its file was renamed may fail (`RenameUnrecorded`), which costs the item and nothing else.

Two constants say what the user may do besides: `EditsImported` (he imports bytes he wrote over
a managed file) and `MovesOver` (he moves one managed file over another).  They are FALSE in the
passing run and TRUE in `library_shared`; section 7 says what each of them breaks.  Another
alteration of the user waits until the last one is settled (`Settled` in
`AlterFile`), so that what the properties excuse stays what he has done.  Section 7
names what that leaves out (stale entries).

`Bookshelf` has neither rows nor paths: a book opens to the bytes it was given
until it is removed or the user alters a file, except for books gone astray.  A book goes astray
while a removal is being carried out, or after an alteration that an audit follows; all books
of one file do so together, and what becomes of them is left open (`Wander`).  Every other step of an
import, audit, recovery or restart shows nothing.  These are the two ways in which the code
does lose a book (section 7, deletion and failed update).  `LibraryFiles` maps a book to what
its row's path holds, or to where a begun rename has moved it; `KeepsPromise`
says that every step is then one of the bookshelf's or changes nothing it shows.

### StorageHome, LibraryStartup

`StorageHome` has the settings file, the directories and the worker;
`LibraryStartup` composes it with the load at start and the ends of the process.

| Variable | Code |
|---|---|
| `disk`, `drive` | the candidate roots; what is at a root while its drive is detached |
| `file`, `save` | `settings.json`, and each thread's `SettingsStore.update` under way |
| `library`, `at` | `library_state`, `settings.storage_location` |
| `worker` | the disk phase: kind, phase, roots, staging directory |
| `generation`, `loads`, `selected` | `_library_load_generation`, attempts in the executor, `_library_selected_root` |
| `erased`, `vacant`, `collided` | history: libraries the user reset, roots where one is to be made, overlapping updates |

A save is read, open (which empties the file) and write.  A copy is one step into a
staging directory no later step looks at, so what a crash leaves of it is not
kept.  Roots are never inside one another, as the code checks.  A blank database is
not told from none.  One setting (`pref`) stands for all that transitions do
not write.  Drives come and go while the process is down.  A transition begins only
when no load is in the executor: the drain counts it, and `StorageTransition` is
the model of that drain.  A load that was built may still fail while it is adopted, before the
settings follow (`Fail`) or after (`Opened`).

### LaunchBroker, WindowOwnership, Launch

`LaunchBroker` models the processes of one profile: `phase[p]` is where the broker's
code stands, `lock` and `name` are the two files that survive a process.  A
request is named by the process launched with it or by the document event that
brought it; `at[r]` is the queue it stands in, `to[r]` the process whose queue it
is.  `WindowOwnership` has the pure operations on the windows of one process.
`Launch` EXTENDS the first, INSTANCEs the second and adds the coordinator.

The first decision opens windows one at a time (`OpenNext`), because building one
pumps events; everything else that needs no event loop is one step.  Whether the
gate has resolved when the handlers are wired is left open, as is whether the last
window leaves the process in the tray (`Resident`) and whether a window
can be made.  The requests that settle together are merged, as
`merge_open_intents` does.  What the secondary writes it writes at once; wire
format, argument parsing and foreground rights are left out.  A window of the first decision
that cannot be made ends the decision with a logged error (`DecisionFails`); where the gate
resolves at once the exception leaves `run()` instead, which is `Dies`.

### ReaderPages

One window.  `view` is what the view model shows, `pipe` what the pipeline keeps,
`stream`, `opening` and `closing` are its tasks, `doc` the sessions.  Generations and
tokens are only compared with their current value, so the model keeps the task that
holds the current one (`pipe.stream`, `pipe.opening`) instead of counters.

What one handler of the GUI thread does is computed on the record `Now`.  The code
recurses: a request publishes the pages it finds cached, publishing one lays out the
spread, and a layout requests again.  So each of the operators `Ready` (`_publish_ready`
with `_handle_page_prepared`), `Asked` (`_request_pages` with `_request_serial`) and
`LaidOut` (`recalculate_layout`) takes the one it calls as a parameter, and
`Requested` and `Laid` unroll them.  Three levels are enough, because only a page of the spread
that was not shown leads one deeper and a spread has two: a request made when both are shown
publishes none, so `Shown`, in which the unrolling ends, is never reached with a
page to show.  `s.bumps` tells a request whether one
inside it has taken the token.  A stream keeps the pages it has still to prepare as
two sets, which it takes in ascending order, those of the spread first.  A worker's steps are separate where the code looks at
shared state: the token before a page (`Look`), the session when a read begins (`Read`), the token
after it (`Check`), the cache (`Put`).

`Seal` is the quiesce of the scope with the close of the window that follows; a window that
is built only afterwards survives it, and one may be opened while the scope is sealed: its
opening is refused and neither callback is ever called (`Refused`).  `Unseal` ends or abandons the transition.

`ahead` stands for the prefetch window: all pages or none.  A horizontal spread of two
pages is modelled; the vertical layout asks for pages in the same way.  Frames carry the
document they come from and no size.  Every page is one that the shared scheduler
does not take: the others are `PageScheduler`'s.  A frame's cache entry may go at any
time, as the budget is shared with other windows.  Bookmarks, progress, warmups and
hashing are left out.

## 4. Runs

| Run | Instance | Shows |
|---|---|---|
| `pool_lifecycle` | 1 ephemeral, 1 external, 1 managed key, 2 leases, 1 page, budgets 1 and 2, 1 restart (221,923 states) | pins, marks, privacy, books, eviction, shrinking over every method and crash |
| `pool_io_errors` | 2 pages, 2 keys, one I/O error anywhere, 1 restart (179,579) | published bundles are complete; no private bundle is taken over |
| `scheduler` | three bodies, one of them of the library, and a strip, 2 slots, 1 per reader, 1 priority, fair (192,792) | limits, no lost wake-up, no double work, a sealed executor drains, turns are taken |
| `warmup` | 2 views, a library and an external document, 3 jobs, 2 chunks, 1 reset, fair (237,238) | one extraction, requests are served |
| `transition` | 2 library readers, 1 view, 2 documents, 1 other task, a rebuild that may raise, fair (844,410) | the disk phase alone, seals, flush, termination |
| `transition_sealed` | the same | `SealedUntilRebuilt` violated (finding 3) |
| `library` | 3 identifiers, 2 sources that repackage to the same bytes, 1 unreadable content, 1 alteration, 2 audits, 1 crash (864,670 with symmetry) | one file per row, in its place, with its hash; journal settled; the bookshelf's promise kept |
| `library_shared` | the same with 1 audit and the two flags on | `NoSharedFile` violated (finding 1) |
| `storage_home` | 2 libraries, 3 roots, 2 transitions, 2 loads, 1 setting, 2 stops, 1 detached drive (855,483 with symmetry) | no library lost, the pointer usable, what opens was asked for, nothing replaced by an empty library |
| `settings_race` | the same | `PointerAlwaysUsable` violated (finding 2) |
| `launch` | 2 processes, 1 document event, 2 documents of which one is refused, with and without tray, fair (215,909) | name and lock, answers, windows that outlive the library |
| `reader_pages` | 1 window, 2 pages, 2 documents one after the other, 2 tasks of the stream, 1 change of the prefetch window, seals that come off again, fair (468,220) | no session lost track of, frames of the open document, pending pages are coming, waiting ends |

**Why the bounds are enough.**  Two leases meet on every key the pool tells
apart, so every pair of calls is interleaved; one ephemeral key promoted to one
external key that is free, pinned or already published covers the three paths
of a promotion.  One page suffices where properties speak of bundles, two where
they speak of complete ones.  A budget of 1 beside bundles of one page and a
manifest makes every write evict.  One error covers a failure at any point of any
call.  Two slots, three readers and one slot for each make the global and the
per-reader limit bind (the strip's own limit binds only with two strips and is left to the
proof); three task identities leave room for one retired attempt beyond the slots, and three
readers are what it takes to be passed over for two others.  All ask at one priority, because
turns are taken among equals; the safety properties are proved for any priorities.  Three jobs are an active
one, a retired one and a new one of the same document.  Two chunks make a worker
come back to its check.  Two readers let one save while the other changes, closes or opens again.

In the library, two rows meet at a path, a hash or a twin, and a third identifier
lets an import come after both; two sources with one canonical form are the case
in which artifacts could be confused.  Two audits make a plan of the second
meet what the first repaired; one alteration damages a file that a plan then accepts.  The
same instance with 2 alterations has also been checked (3,018,480 states).  One crash suffices because a recovery starts from what any
step leaves and nothing else runs before it ends.  Three roots are the old one, the
new one and the default; two transitions let the second undo or follow the first;
two stops let one come in the recovery from the other.  Two processes are a primary
and a successor or secondary; the event is a second request for one document.
In the reader, two pages are a spread, a page beside it and a page turned away from;
the second document is the one opened after a prompt, while streams, opens and closes of the first
are still in their workers; one of two tasks may be stale.  Three pages with one document
have also been checked (480,746 states).
An instance of `Launch` with three processes, one document and no event has
also been checked (273,995 states).

`CHECK_DEADLOCK` is off in `storage_home` and `settings_race`, where a settings file
torn by a crash ends every later launch, and in `launch`, where all processes of the history end.
It is on in every other run.

**Fairness.**  Workers finish what they run (weak fairness of a task's or job's
steps) and the pump loop ends.  Answers and finished signals of the scheduler's
tasks are strongly fair: they are disabled while the loop of the GUI thread
runs, and Qt delivers posted events in order between its other events, so one
that comes up again and again is delivered.  In the transition the timer ticks
until its time has passed, the disk phase returns and its signal is delivered;
warmups and tasks are assumed nothing of, which is why `TransitionEnds` needs the
timeout.  In the launch a process goes on with the code it is in, the gate resolves
at the latest by its backstop timer, and the event loop reads what a socket holds;
crashes remain possible at every step.  No user or caller is assumed to do anything.
In the reader, workers finish what they run and queued signals are delivered; because
what they do between two actions of the user comes to an end, one weak condition for
all their steps is enough.  It is written with its enabling condition spelled out
(`Busy`), which agrees with ENABLED on the smallest instance.
The library and the storage home have safety properties only, and no fairness.

## 5. Proofs

Each `*Proofs` module extends the module it is about.  Assumptions are the named
ASSUMEs of that module: which sets of keys are disjoint, which constants are
natural numbers, which sets are finite, and that the words for "no file" and the like
are no contents.  No constant is bounded.  Four theorems of the library have a
hypothesis besides, `Careful`: the two flags of section 3 are off.  Both are about what the user does with
managed files, not about the program; finding 1 shows that it cannot be dropped.

| Theorem | Says |
|---|---|
| `ArchivePoolProofs!PinsExact` | `PinsMatchLeases` |
| `ArchivePoolProofs!MarksRedeemable` | `MarkAwaitsRelease` |
| `ArchivePoolProofs!BookTypes` | `BookTypeOK`, the part of `TypeOK` outside the bundle files |
| `ArchivePoolProofs!PoolTypes` | `TypeOK` of `ArchivePool` |
| `ArchivePoolProofs!BooksInductive` | the invariant of the books (`BooksInv`) |
| `ArchivePoolProofs!BooksBalance` | `AccountingExact` |
| `ArchivePoolProofs!ShrinkHonoured` | `ShrinkIsHonoured` |
| `ArchivePoolProofs!StoreInductive` | the invariant of the bundle files (`StoreInv`) |
| `ArchivePoolProofs!PublishedComplete` | `PublishedIsComplete` |
| `ArchivePoolProofs!PrivateDies` | `PrivateDiesWithLastLease` |
| `ArchivePoolProofs!PrivateStaysOut` | `PrivateNotReindexed` |
| `ArchivePoolProofs!PinnedSurvives` | `PinnedSurvivesEviction` |
| `PageSchedulerProofs!SchedulerTypes` | `TypeOK` of `PageScheduler` |
| `PageSchedulerProofs!LimitsHold` | `WorkWithinLimits` |
| `PageSchedulerProofs!NoWakeUpLost` | `NoIdleSlot` |
| `PageSchedulerProofs!EachPageOnce` | `PreparedOnce` |
| `WarmupProofs!OneExtraction` | `SingleUntilReset` |
| `WarmupProofs!WarmupTypes` | `WarmupTypeOK` |
| `TransitionProofs!TransitionTypes` | `TypeOK` of `StorageTransition` |
| `TransitionProofs!SealsComeInPairs` | `SealedWhileRetiring` |
| `TransitionProofs!NoWriteLost` | `WritesFlushed` |
| `TransitionProofs!AloneOnDisk` | `DiskPhaseAlone`, while the cache strategy has not been changed |
| `LibraryProofs!LibraryTypes` | `TypeOK` of `LibraryFiles` |
| `LibraryProofs!ArtifactsInPlace` | `PathFollowsKind` |
| `LibraryProofs!CanonicalNeverShared` | two rows that name one file are verbatim and record the same bytes |
| `LibraryProofs!FilesNeverShared` | `NoSharedFile`, for a careful user |
| `LibraryProofs!BaselineKept` | `BaselineExact`, for a careful user |
| `LibraryProofs!RenamesSettle` | `JournalSettled`, for a careful user |
| `LibraryProofs!PromiseKept` | `KeepsPromise`, the refinement of `Bookshelf`, for a careful user |
| `StorageProofs!HomeTypes` | `TypeOK` of `LibraryStartup` |
| `StorageProofs!NoLibraryLost` | `LibrarySurvives` |
| `StorageProofs!PointerStaysUsable` | `PointerUsable` |
| `StorageProofs!TheAskedIsOpen` | `OpensWhatWasAsked` |
| `StorageProofs!NothingResetImplicitly` | `NeverResetImplicitly` |
| `LaunchProofs!LaunchTypes` | `TypeOK` of `Launch` |
| `LaunchProofs!NameLeadsToPrimary` | `PrimaryReachable` |
| `LaunchProofs!AskedOutlive` | `AskedOutliveMain` |
| `ReaderProofs!ReaderInvariant` | the inductive invariant of the window (`ReaderInv`) |
| `ReaderProofs!ReaderTypes` | `TypeOK` of `ReaderPages` |
| `ReaderProofs!NoDocumentForgotten` | `NoneForgotten` |
| `ReaderProofs!FramesOfTheOpenDocument` | `ShownIsOpen` |
| `ReaderProofs!PendingPagesCome` | `AwaitedComes` |

*Pool.*  `PinsMatchLeases` is not inductive: closing the last lease of a key must
take its mark off, and a promotion moves pins between keys, which is only right
if nobody else holds the source.  The invariant adds that an ephemeral
lease is alone on its key and that ephemeral leases are exactly those on session
keys, and `MarkAwaitsRelease` itself, since a mark moves with the pins.
`Bookkeeping` covers the steps that leave leases' keys alone; opening, promoting and
closing have lemmas of their own that count `Holders` with the cardinality
theorems of the library; crashes and restarts reset everything.

*Bundles.*  `StoreInv` says of every file on the disk what the properties ask at
different moments.  A ready manifest stands over all pages (`StoreOK`).  Without an
error so far, a running process has an entry for every bundle and a promise for every private
one.  With at most one, a private bundle is of a session key or marked: that
is what the next process goes by, and a second error can indeed take
the marker from a bundle that resists (section 7).  The helpers are covered once:
purge, forget and evict only prune (`Pruned`: a bundle stays as it is or goes, and its
entry with it), so each action has to show the invariant of the store it
makes before it evicts (`Upheld`).  How much `Evict` takes depends on its sums, but that
it takes nothing in use does not; that is all
`PinnedSurvives` needs, besides a look at each action for what it does to other keys.

*Books.*  `Books` says of a store that its parts agree: a key is in the order of use if
and only if it has a path, only such a key is charged, and `_current_bytes` is the sum of
the charges.  `Exact` says that a charge is what the file occupies; an
error may leave the two apart, so `BooksInv` asks for it only while there has been none.  Every helper that removes
something leaves what is left as it was (`KeptEntries`), which keeps `Exact`, and takes
from the sum what it takes from the index, which keeps `Books`.  A write, a
move or a merge is exact but for the key it is about, until `Reindexed` charges that one.
Sums can be proved about here because they are cardinalities of sets of units: the
library's theorems on finite sets then say what a sum over a union or without one key is.

The other half of `AccountingExact` is `GuardsExact`: the builds of a key are the sum of the
guards of its live leases, so a promotion that moves a lease has to move its guards.
A key that is being built is therefore pinned.  `EvictMeets` says that an eviction
which no file resists ends within the budget or spares a bundle of the
index: otherwise every key whose turn came has gone, and the first one
whose turn did not come shows that enough had.  A resize and a release, which decide whether
the limit is still owed, spare what is pinned or being built; so if it is owed and
nothing failed, something is pinned (`ShrinkOwed`).  That is `ShrinkIsHonoured`; of the other
actions only a promotion moves pins, to the lease's new key, and only a crash drops them, with
the limit.  After a clear nothing is owed.

*Scheduler.*  What the code bounds is `Active`, the attempts that hold a slot;
what the property bounds is what the executor has.  The invariant adds that each
task in the executor still holds its slot (`SlotsHeld`), so the two are
equal; then a step that starts nothing can only shrink the three sets, and a
dispatch found room in each.

`NoIdleSlot` and `PreparedOnce` share the invariant `DemandInv`.  The loop ends only where nothing can be
dispatched; afterwards a dispatch becomes possible by a slot given back, by new demand or by an
unsealed executor.  The first two run the loop again.  The last finds nothing, because no owner of a
sealed executor waits (`SealedAskNothing`): its demand went with the seal and is refused
while it lasts.  `SameCandidates` says what the choice depends on, so that the steps of the
executor need not be looked at one by one.  For `SchedulerTypes` the order of the owners has
to stay an order, and an owner with jobs has to keep its place in it (`Turns`).

*Warmups.*  As long as no reset has happened, only the job of the active key has
been given to the executor.  The invariant (`Good`) adds that the tables agree:
a known job carries the key it is known by, so no job is known twice.
`StartNextKeeps` is proved once for the values a caller hands over and cited by
each action that ends with it.  The promise stops at a reset because the code
stops it there (section 7, warmups).

What survives a reset is `Tables`: of the jobs that are known, only the one of the active
key has been given to the executor, each is known by its own key, and a job that
has not ended has a chunk left whenever it looks for one.  The types follow, and with the
driver's own (`DriverOK`) those of the transition, each step of which is a step of the
warmups or leaves them alone (`StepOfWarmups`).

*Transition.*  The two invariants are inductive together.  `SealedWhileRetiring`
needs that no step of the warmups or readers touches a seal, and that the flush,
which may itself end in the quiesce, is never polled while the library is
retiring; afterwards only a rebuild that raised leaves the services retired.
`WritesFlushed` rests on the condition under which the flush goes on: no open reader
saves its position or settings, and the settings that still wait behind a save (`pending`
is a subset of `setting`) have been submitted by the poll itself, so what is lost is
empty.  `DiskPhaseAlone`
joins them with the invariant of the warmups (`AloneInv`): from the seal on, no step
of a view or a worker makes a job of the library that may still be given to the
executor (the `...Quiet` lemmas of `WarmupProofs`), and the drain goes on to the disk phase
only when it counts none.  It stops at a reset, because a job the reset forgot in
the executor's queue is not counted (section 7).

*Library.*  A plan and a journal outlive the rows they were made from, and an
import knows the path of a row that does not exist yet.  So `PathFollowsKind` is
strengthened by the shapes of the work in hand (`WorkOK`), by the fact that
an identifier is given out once, so that what outlives its row never meets another
(`Fresh`), and by what a plan, an entry and a repair remember of a row's kind and
target (`Remembered`).  `CanonicalNeverShared` follows from `PathFollowsKind`
alone, since the target of a canonical row is its own identifier, which is no
content: it holds with both flags on, so that it is what finding 1 leaves of
"one file per row".

The other theorems are about a careful user.  Deletions and their unlinks come at any moment,
and the update of a row after a rename may fail.  The invariant, `Tidy`, has six parts:

* `FilesTrue`: no file shared; one file at most that is not what its rows say, by the hand of
  the user, apart from those a late unlink took; and bytes that no import brought are bytes
  the user wrote (`Learnt`), so that an import, which
  brings none of those, never meets a path that an audit has given to altered bytes;
* `Waits`: neither a plan nor an unlink outlives the process;
* `PlanTrue`: what a plan says of a row is true as long as the row is there, however long
  the user thinks about it;
* `ImportTrue`: what is checked and staged stays nobody else's until its row is inserted, and a
  published file is there or a late unlink took it;
* `MendTrue`: during a repair nobody else owns the path to be merged, unlinked or
  moved to, and the bytes in hand are where the step says, unless a deletion has taken the row
  or its file under the repair;
* `JournalTrue`: an entry with a row is the only one, leads to a path nobody owns, and its
  file is in one of the two places or, by the user's hand or a late unlink, in neither; outside
  a repair and a recovery only a row whose update failed (`unrecorded`) has such an entry.

None of these can be had without the others: a merge keeps the baseline only because
the plan is true, the plan stays true only because repairs touch one row, and a recovery completes a
rename into a path that is free only because of `JournalTrue`.  TLC checked the parts of
`Tidy` on the instance of `library` and with 2 alterations (3,018,480 states) before they were proved.

`PromiseKept` is the step simulation.  Under the mapping `Shown` most steps are stutters
(`Steady`): what a row opens to depends on the file at its path and on its entries
(`OpensSame`), and imports, audits, crashes and recoveries disturb neither, or move the
file while an entry leads to it (`RenameFileShown`, `RenameRecordedShown`).  An insertion adds a book,
because its identifier is new; a deletion takes exactly one away; an alteration
changes only books that showed the same (`AlterFileShown`).  The other steps show only on
books gone astray: they move such a book (`WanderIs`), or an unlink or a failed update takes the books of
one file astray (`GoAstrayIs`).  For the latter the invariant `Given` says besides that books and marks are of
identifiers that were given out, and that a merge whose file is gone lost it to a late unlink.

*Storage home.*  `LibrarySurvives` speaks of every moment of a move, so the
invariant follows the copy (`CopyKept`): the staging directory holds what the old
root does until it replaces the target, and the target holds it before the old root
is touched.  That needs the worker to be the only one at the disk (`WorkerAlone`),
loads and the session to be at roots that are attached (`LoadsAttached`,
`SessionAttached`), nothing to lie where a drive is detached (`DrivesClean`), and no
disk phase, load or save to go on when the process is down (`DownQuiet`).

`PointerUsable` excuses the states after two updates of the settings have overlapped,
so its invariant is `~collided => Apart`: not only the file but what each thread is
about to write names usable roots (`Named`), and a root is written to the settings
before the old one is removed (`Prepared`, `Repointed`).  `OpensWhatWasAsked` needs
no such excuse.  Its invariant says that one load at most is of the current generation
(`OneLatest`), and that whatever saves go on beside it write the location the
process has (`SettingsFollow`).  For `NeverResetImplicitly` a load that may make a library
is shown to carry a root that may have one (`LoadsUsable`).

*Launch.*  `PrimaryReachable` is proved together with types,
with `AskedAreRoots` (a reader the system asked for is open and is not owned by the
library) and `SocketOwned` (a request in a socket is for a process).  The lock part
is inductive on its own, since a lock is taken only when its file belongs to
nobody alive; the name part needs it, because the steps that clear the name are
taken by a process that holds the lock.  `AskedOutliveMain` then follows from
`MainGoes`: only the user's closing of the library takes the main window away.

*Reader.*  All four safety properties are parts of one invariant, `ReaderInv`, and none is
inductive by itself.  That what is pending is still being brought (`AwaitedComes`) needs to know
what a stream has left at each step, and that no handler leaves a request half
made.  So `Sound` says of the whole record of the GUI thread that the current stream reads
the document that is open, that what is pending is among its pages or its items, and
that a stream is done only when it has no page left.  `NoneForgotten` needs
`OpensAlone`: when the answer of an opening comes in, no other document is open
that it would replace.  `ShownIsOpen` needs the same of the cache (`Frames`), from which
a request publishes.

The handlers are proved about as values, not as steps: `Request`, `Layout` and `Publication`
say what each may make of a record, which includes that it stays sound, that there was
a place for the stream it submits (`Roomy`), what it leaves alone (`Kept`), and that the pages it
was asked for are coming.  One lemma shows each of these for a handler whose callee has
it (`AskedStep`, `LayoutStep`, `PublicationStep`), and the levels of the unrolling follow
upwards from `RequestedShownStep` to `LaidStep`; the measure is the set of pages of the
spread that are not shown, which every publication makes smaller.  An action of the
GUI thread is then one value (`GuiStep`), a worker's leaves the GUI alone and shows
what its stream has left (`WorkerStep`).

## 6. Model-checked only

* Liveness (`RequestServed`, `SealDrains`, `TurnsTaken`, `TransitionEnds`,
  `RequestAnswered`, `WaitsEnd`) and everything under fairness.
* `SingleUntilReset` and `DiskPhaseAlone` beyond the first reset, where the code does not
  keep them (section 7).

## 7. Findings

Three runs check a statement of the repository that the code does not keep:

1. `library_shared` - "One row of `book_files` owns exactly one file"
   (`core/models/storage_layout.py:3-10`).  An audit that accepts a file the user
   altered moves the row's path and stored hash and leaves its source hash
   (`core/services/library_maintenance_service.py:1106`).  A later import of the
   new bytes finds no duplicate, adopts the file at that path, and two rows share it.
2. `settings_race` - `SettingsStore.update` reads, changes and writes without a
   lock (`infrastructure/config/settings_store.py:352`).  A window's size saved while
   a move adopts the new root restores the pointer to the old one, which the move
   then deletes.
3. `transition_sealed` - "Background work stays sealed until the services around it have been
   rebuilt, including when the rebuild itself failed" (`ui/views/main_window.py:1591-1593`).
   The call below stands in the `finally` of the rebuild, so task scopes and warmups are
   open again after a rebuild that raised, while the services are the retired ones.
   `SealedWhileRetiring` states what is left of it.

Disagreements met while modelling that no run is kept for:

* *Merge.*  An audit merges a row into a twin chosen by its recorded hash
  (`library_maintenance_service.py:698-710`, 1027-1049) without looking at the twin's
  file.  After the user has moved one managed file over another, it unlinks the last
  copy of the bytes.  (The constant `MovesOver` lets it happen.)
* *Deletion.*  `delete_book` unlinks outside the gate that the docstring at
  `library_maintenance_service.py:218` calls process-wide
  (`sqlite_book_repository.py:369-375`): an import in between adopts the file that is
  about to go, or an audit moves one there.  The row that loses its file is `raced`, and
  `BaselineExact` and `Bookshelf` except it.
* *Failed update.*  The update of a row after its file was renamed may raise
  (`library_maintenance_service.py:773`, 1118-1120), and only this item is given up (402-409).
  A scan does not look at the journal: the next one lists the moved file as an orphan and the row as
  missing, and applying that plan unlinks the file, so the book is lost.  Only a restart
  before it completes the rename.  The row is `unrecorded`, and
  `JournalSettled` and `Bookshelf` except it.
* *Stale plan.*  A plan applied after its row was deleted and a book imported again
  under the same bytes can relocate the file of the new row.
* *Stale entries.*  A journal entry whose file the user has removed from both places stays as
  a conflict (`library_maintenance_service.py:540`), and every later start looks at it again: if the
  target exists by then with the recorded hash, the rename is completed
  (`library_maintenance_service.py:517-529`) without a look at whether the row is still at the
  entry's old path or another row has the new one.  It takes bytes of that hash from elsewhere, an import
  of altered bytes or a second file altered alike, which the flags and the rule
  of one alteration at a time exclude; `JournalSettled` says that such entries do stay.
* *Staging.*  The docstring of `_reclaim_abandoned_staging` says "Every in-process
  failure already unlinks its own staging file"; an item that raises leaves its copy
  until the next batch (`ImportRaises`).
* *Hash of an external file.*  `promote_external_cache`
  (`app/reader_document_runtime.py:154-175`) compares the file before and after hashing,
  but not with the file the reader opened.  Replaced in between, the new file's hash
  names a cache with the old file's pages.
* *Pool.*  A private bundle that resists its last release and a later clear loses
  its marker, and the next process indexes it (two I/O errors); an append that
  raises leaves a bundle the index does not name, which no eviction of this process
  reclaims.
* *Scheduler.*  The docstring says that equal-priority readers take turns
  (`app/reader_page_scheduler.py:46-47`).  A reader that withdraws its demand (`cancel`) or runs out of it
  loses its place and is added again at the end, and two that do so again and again can keep a
  third from the only slot.  `TurnsTaken` is therefore stated for behaviours in which readers
  keep their places from some moment on (`PlacesKept`).
* *Warmups.*  After a reset the answer of a forgotten job is taken for that of the
  new job of the same document, so that two extractions run at once; and a job
  that a reset forgot while its task was queued is not counted by the drain.
* *Transition.*  Settings chosen in a reader "should survive closing the reader window"
  (`ui/viewmodels/reader_viewmodel.py:400-401`), and saves go on after the close, one after the other
  (1879-1886).  The flush asks only the readers that are open; the seal cancels what a closed
  one has still to save, and nobody has waited for it.  `WritesFlushed` is about open readers.
* *Opening under the seal.*  A reader may be opened while the library drains or is replaced.
  Its `reader-open` task is refused without a callback (`app/qt_task_service.py:273-277`) and
  `app/reader_page_pipeline.py:274-294` does not look at the refused handle, so the window goes on
  loading until it is closed (`Refused`, the exception in `WaitsEnd`).
* *Launch.*  A secondary tries the lock once and then only the socket: if the primary
  leaves meanwhile, the user is told that JoyRead is running when none is.  A
  message in the socket of a primary that quits is lost, and the secondary has
  already exited with success.  On quitting, the broker's unlock is connected before
  `runtime.close` (`app/bootstrap.py:584` and 340): for a moment a process launched then
  has a runtime beside the old one, which `docs/PACKAGING.md:546-548` rules out.
* *Close of a reader.*  The comment at `app/storage_transition_driver.py:173-179` says
  that sealing before closing "guarantees no handle is still open on the storage root
  when the disk phase starts".  A reader the user closed just before has its
  `reader-source-close` task queued; the seal cancels it like any other task of the
  scope, and its session is never closed (`closing[d] = "dropped"`, the exception in `NoneForgotten`).
* *Stale frame.*  A stream checks its token and then puts the frame into the cache
  (`app/reader_page_pipeline.py:423-430`).  A prompt that clears the cache in between is
  followed by a frame of the old document under an index of the new one, and skipping an
  archive moves the indices (`late`, the exception in `ShownIsOpen`).

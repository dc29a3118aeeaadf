# missing-ebooks in TLA+

missing-ebooks is a web service that walks audiobook libraries, shows the
folders that hold audio but no ebook, and lets a user put a marker file
(`.no_ebook`, `.ebook_elsewhere`) into a folder to say that the gap is meant.
Its core is a cache of raw scan output that page loads, rescans, marks and
undos share (`src/src/state.rs`), filled by a parallel walk (`src/src/scanner.rs`,
`src/src/raw_view.rs`). The modules here model that core, the process around it,
the rows and numbers made of it, the page that shows them and the public demo. TLC
checks them on small instances, and TLAPS proves the properties that matter most for
instances of any size. Paths below are relative to the repository copy in `src/`.

## The system

| part | code | state it keeps | operations |
|---|---|---|---|
| scan cache | `src/state.rs`, `src/raw_view.rs` | the slot (entry, its age, generation), the inflight cell (a weak pointer to the running build and the generation it registered at), the time of the last honored rescan | `current`, `rescan`, `write_mark`, `remove_mark`; inside: `build_coalesced`, `store_if_unchanged`, `edit_fresh`, `bump_generation` |
| directory index | `src/scanner.rs`, `DirIndex` | per root, each directory's mtime and listing | `get_cloned`, `insert`, `invalidate`, `clear` |
| library walk | `src/scanner.rs`, `scan_root`, `scan_warm` | a frontier, the folders found, the skipped counts | one level at a time, each level in parallel |
| in-place edit | `src/raw_view.rs`, `apply_mark_raw` | the stored `RootScan` | flip the marked folder and everything below it |
| tree builder and rendering | `src/tree.rs`, `src/web/package.rs`, `src/web/render.rs` | none (pure) | `build`: scanned folders to the shown forest; badges, row marks, buttons, the gap summary |
| HTTP handlers | `src/web.rs` | one semaphore of 16 permits, shared by every route | `/`, `/refresh`, `/rescan`, `/mark`, `/unmark` |
| page client | `assets/app.js` over htmx | the sections on the page, the last refresh body, marks under way with their retries, the armed `suppressConfirm`, toasts, the body element's request queue | mark, confirm, retry, undo, poll, rescan |
| demo | `src/demo/`, `src/bin/demo.rs` | bounded table of visitor sessions with idle times | create, touch, mark, unmark, reset, reap |
| process | `src/config.rs`, `src/main.rs`, `src/shutdown.rs` | the resolved configuration, the listener, the signal handlers that could be installed | resolve the configuration, refuse or serve, warm the cache, drain, exit |
| telemetry, static assets, search-link queries | `src/telemetry.rs`, `src/web/assets.rs`, `src/query.rs` | none that changes | |

How they interact: a handler calls the store; the store's mutations run in
spawned tasks that the handler awaits, so a client that leaves drops the handler
and not the mutation; builds run in tasks of their own and every caller awaits a
shared future of one of them; builds and the one-root walks of undos run
beside each other on the blocking pool and share the per-root index; the file
system is changed by this process and by others at any time. Every request, a health
probe too, holds one of the process's permits while it is handled; a signal ends the
listening, and the process waits for its connections and for the walks and writes that
run. What a handler
gets from the store is turned into rows and numbers anew for each answer, and the
page counts its rows again whenever a section lands or a row starts to collapse. The
demo is a server of its own: it walks once at startup and lays each visitor's marks
over that walk.

What makes it hard: walks take long (network mounts) and everything else happens
during them. The slot's generation, the inflight mutex, the "join floor"
(`min_generation`) and the index's mtimes and invalidations are what keep
answers right; each guards against particular interleavings, and the unit tests
of `state.rs` pin a handful of them one by one. Around the store, requests pile up
behind slow walks at the cap; in the demo, clocks are read before locks are taken and
cookies get lost; on the page, a count must be right before the rows that it counts
have gone.

## Modules

| module | models | built on |
|---|---|---|
| `RawViewStore` | the scan cache: every call, build and lock step, with failures and clients that leave | |
| `MarkerService` | what the store promises its callers: the abstract specification | |
| `DirIndex` | the index, the walks that use it and the changes around them | |
| `StoreWithIndex` | the store whose walks read through the index: both, and the points where they meet | `RawViewStore` |
| `LibraryTree` | the directories of one root, as constants | |
| `LibraryScan` | one root: the breadth-first walk, the in-place edit, the undo's rewalk | `LibraryTree`, `LibraryView` |
| `LibraryView` | one root's scan as it is published, and the rows, badges and numbers made of it by the server and by the page: what `LibraryScan` implements | `LibraryTree` |
| `PageClient` | one open page and what the server answers it | |
| `Server` | one life of the process: configuration, request cap, tasks and their closures, signal handlers, the drain and the drop of the runtime | |
| `DemoSessions` | the demo's sessions, cookies and reaper | |
| `MCRawViewStore`, `MCDirIndex`, `MCStoreWithIndex`, `MCLibraryScan`, `MCLibraryView`, `MCPageClient`, `MCServer`, `MCDemoSessions` | instances for TLC | the module named |
| `RawViewStore_proofs` | types and control invariant of the store, that a write shows in its own answer, that it implements `MarkerService`, and the safety properties of the slot and its coalescer | `RawViewStore` |
| `StoreWithIndex_proofs` | the same of the store with its index, as far as it holds there | `StoreWithIndex`, `RawViewStore_proofs` |
| `DirIndex_proofs` | the index's properties | `DirIndex` |
| `LibraryScan_proofs` | the walk's and the edit's properties, that they implement `LibraryView`, and so that the numbers on a section are those of the disk | `LibraryScan`, `LibraryView_proofs` |
| `LibraryView_proofs` | what the rows say, and the counts | `LibraryView` |
| `PageClient_proofs` | types, the body element's queue | `PageClient` |
| `Server_proofs` | the cap, starts, signals and graceful stops | `Server` |
| `DemoSessions_proofs` | the session table's properties | `DemoSessions` |

The models divide the code along the lines where one part can be read as
if the others were perfect. `RawViewStore` lets a walk read the disk directly;
that the index in between does not show is `WalkSeesCurrent` of `DirIndex`, and
`StoreWithIndex` puts the two together again. `DirIndex` fixes the shape of the tree; what a walk makes of it is `LibraryScan`.
`LibraryScan` has one walk, mark or undo at a time; how they overlap is
`RawViewStore`; what is made of the outcome is `LibraryView`, whose only state is the
scan that `LibraryScan` is proved to publish. `PageClient` keeps of the server only
which folders are covered in what it answers, and leaves the counts of its rows to
`LibraryView`. `Server` keeps of the store only which requests wait for which task.

### RawViewStore

State: `gen`, `entry`, `fresh` are the `Slot` and whether its entry is younger
than the TTL; `lock` and `inflight` the async mutex and the cell it guards;
`cooling` whether `last_rescan` is within the cooldown; `disk` the marker files.
A request is a call to the store: `op` what it asks, `pc` where its code is,
`minGen` and `target` its locals in `build_coalesced`. A build is named by the
request that began it: `build`, `reg` (`registered_at`) and `scan`, what its walk
has read. `spawned` holds the requests whose work is in a task of its own.
`held` and `tangled` are history variables that only properties read.

A view says of each folder "marked", "bare", or "unread" when its root or a
directory above it could not be walked; an empty slot is the view that shows
nothing. A step is what runs between two points where another task can see or
change shared state: an await, a lock acquired or released, a file system call.
So `edit_fresh`, which runs under the slot's write lock, is one step with the
lock it needs; `bump_generation` after it is another; a walk reads its folders
one at a time, in any order.

`inflight` keeps naming its build when nobody awaits it any more; `Alive` says
whether the `Weak` would still upgrade. `DropHandler` removes a caller wherever
it waits, unless its work is spawned.

### DirIndex

State: each directory's `contents` and `mtime` and the file system's `clock`;
the `index`; for each walk and directory where `read_dir_all` and the level's
sequential pass are (`at`), the mtime read (`stat`) and the listing used
(`got`); `dirty`, how many writes to a directory are not yet invalidated. Any two changes
may share a time stamp. The history variables say where properties have nothing to
promise: `tied` (a directory changed twice in one tick), `outside` (changed by
another program), `late` (a marker write met a listing not yet inserted), `lossy` (a
listing lost an entry). A walker begins its next walk when the last one is over.

### StoreWithIndex

Every step is a step of `RawViewStore` with what it does to the index, or a step of a
walk: `Stat`, then `Reuse` of an entry with that mtime or `List`, and `Insert` when the
whole level has been read; only `Reuse` and `List` read for the store (`scan`). Added to
the store: `MarkerIo` leaves the writer `dirty` until `Invalidate`, before its edit or its
walk; an honored rescan clears root after root (`toClear`) before it enters the coalescer;
a build and an undo's walk have to be `settled` before what they read is used. A folder
has its marker or not, and its mtime moves with every change, unless the clock is
`coarse` and stands still. `late` is history: the folders that changed so while a walk held a
listing it had not inserted.

### LibraryScan

State: `ebooks` and `markers` on disk; the walk's `frontier`, the folders of it
`covered` from above and `depth`; the section: `listed` folders, those with
`missing_ebook` (`missing`), their `cover_files` (`cover`), the directories this
walk could not read (`unread`) and the depth-cap count (`capped`). A mark edits
the section in place, an undo walks again, as `apply_write_mark` on a fresh slot
and `apply_remove_mark` do. An unreadable directory entry is left to `DirIndex`;
`directly_holds_audio` is copied from the listing and decides nothing here: which
folders hold audio is the constant `Audio`.

### PageClient

State: `view`, the view the page was loaded in; `served`, what the server would answer
now; `shown`, the folders the page shows as covered, which have no row in the gaps
view and no mark buttons in either; `mark`, for each mark under way, where it is, whether its button
is still on the page (`here`), its attempts and the section it was answered;
`suppressConfirm`; `toasts`; `lastRefreshBody`; the body element's request in
flight (`call`), its `answer` and the one request htmx queues behind it
(`waiting`); `inFlight` of `pollOnce`; and where the Rescan button is.

A mark goes through idle, confirming (the dialog holds it), sent, answered, swapping
(the 250 ms in which its row collapses) and back, or to backoff and, out of
attempts, to failed (the strip with Retry). In show-all there is no swapping: the row
stays and the section is replaced at once (`FlipInPlace`), and as no row is held
saving, its other button can be clicked meanwhile. A second click on the very button
whose request is in flight, which htmx would queue, is left out. A swap of a section takes the buttons
in it off the page (`Detached`): htmx issues nothing from such an element, its events
reach no listener on the body and its answer swaps nothing. Polls and undos are
`htmx.ajax` calls without a source, so the body element sends them, one at a time,
with a queue of one that keeps the last asked for (`Issue`, `EndCall`).

`OutsideChange` stands for other pages and programs and for a request that this page
gave up on and the server did not. A toast on its way out counts as gone.

### LibraryView

State: whether the slot's `RootScan` is `Walked`, `Failed` or gone (`status`), its
`listed` folders, and which of them are `missing` an ebook and directly hold `audio`.
A `Walk` finds any scan a walk can find: what it lists it lists with all that is
above, and coverage goes down. `Mark` is the in-place edit. Everything else is an
operator on that state, for each view (`Modes`): `Kept` is the filter, `Nodes` with
`HoldsAudio` and `MissingEbook` what `insert_all` leaves behind, placeholders included,
`CountWithin` the two bottom-up fills, `SectionGaps` what `package_section` adds up,
`Badge`, `RowMark`, `HasButtons` and `Summary` what `render.rs` prints of it,
`CountGapRows`, `SpineOf` and `Recomputed` what `app.js` makes of the rows. The root's
own row stands beside the top-level rows, as in the code.

### Server

State: `phase` and exit `code` of `main`; `setup`, everything its start depends on,
until it serves; `roots` and `bind` as the configuration's layers left them (`Configure`);
each request's place (`at`), the `task` it waits for, the `queue` before the semaphore,
its `permits`; `stage`, how far each task is, named by the request that began it; where
`shutdown::signal` is (`listener`), the handlers `installed` and the signals `received`.
`gone` (writes whose client left) and `lost` (writes discarded) are history.

A request is `arriving` until its head is complete, `queued`, `running` with a permit,
`reading` its form if it has one, `awaiting` a task, `answered`, and `sending`. A permit is
held from `Admit` to `Respond`: tower keeps it as long as the handler's future, not the
body's. A handler that waits may wait for its own task, or join a build another began, the
warm-up's too; `Leave` drops the handler and never the task. The store decides whether a
page is answered at once; here it may or may not be, and a page of a warm cache asks no
more than a probe. A rescan counts as a page, and its form (one field) as part of its
head; whether a build inside a write is joined by others is left out too.

A task asks a closure of the blocking pool (`asked`, `walk asked`), a thread takes it up
(`writing`, `walking`), and the task goes on when it has returned (`written`, `walked`): to
a walk of its own (`Rebuild`) or to its end (`Finish`). When `main` returns the runtime
is dropped: a task goes where it awaits (`DropTask`), a closure that no thread has taken
up goes with it, one that runs is `detached`, and the process ends with the last of these
(`Exit`). A build is one closure, where the code has one for each root, run side by side:
its stage stands for them all. Nothing is written by a walk.

`shutdown::signal` is modelled arm by arm: `InstallTerm` and `InstallInt` succeed or fail,
`Awaited` says what each arm waits for, `WithoutInt` what is left when SIGINT's handler
could not be had, `Hear` resolves it. `Deliver` is a signal: without a handler it ends the
process where it stands, which is no graceful stop and is not asked to lose nothing; with
one it is noted, and a second is swallowed. `axum::serve` does not return errors, so
`main`'s arm for one is left out.

### DemoSessions

State: the session table (`sessions`, with the marks and the age of `last_seen`); the
handlers under way (`request`): sent with the cookie of that moment, ready once
they have read the clock, answered when a Set-Cookie is on its way back; the `reaper`'s
clock reading; each browser's `cookie` and its age. Time passes in `Tick`, one unit for
all ages. A clock reading may wait up to `MaxLag` for the session lock: the code has no
such bound, the scheduler does, and `MaxLag < Idle` is the assumption. `Idle` is at
least 1 (`DEMO_IDLE_SECS=0` is out of scope). Random ids are ids nobody holds
(`Fresh`). `/rescan` and `/healthz` leave the table alone; the overlay of marks is
`EditInPlace` of `LibraryScan`, once for each. `quiet` and `applied` are history.

## Runs

Each run is a `.cfg` of the same name, for the `MC` module it names.

| run | properties | what it shows |
|---|---|---|
| `Store_core` | `TypeOK`, `OwnWriteVisible`, `SequentialEditsSettle`, `InPlaceMarkSurvives`, `CoalescedWalks` | an answer never predates its own write; no older walk undoes an edited mark; mutations that do not overlap leave the slot equal to the disk; callers share walks |
| `Store_faults` | `ServiceSpec`, `EveryRequestAnswered` | the store implements `MarkerService`; every call ends |
| `Store_indexed` | `OwnWriteShows`, `RescanSeesHiddenChanges`, `SlotSettles`, `ServesThroughIndex` | where stamps tie and other callers' walks read and fill the index: answers show their own writes, an honored rescan shows what mtimes hide, edits one after another leave the slot equal to the disk, each with the one exception `late`; where they do not tie, the store with its index still implements `MarkerService` |
| `DirIndex_warm` | `TypeOK`, `IndexSound`, `WalkSeesCurrent`, `NothingInvented`, `SelfWritesShow` | where stamps separate changes the index never hides one, unless a listing lost an entry, and then nothing is made up; where they tie, invalidation keeps own writes visible |
| `Scan_exact` | `TypeOK`, `SectionIsExact`, `OmissionsCounted`, `ViewSpec` | walk and in-place edit agree with the definition of a gap; omissions are counted; what is published is a behaviour of `LibraryView` |
| `View_counts` | `TypeOK`, `NodesTellTruth`, `CountsAreTrue`, `SummaryAgrees`, `CollapseLeadsSwap` | for every scan and both views: placeholders say nothing false, sums are what lies below, the page's recount is the server's count, and the count while rows collapse is that of the section to come |
| `Page_live` | `TypeOK`, `MarksComeToAnEnd`, `PollKeepsGoing`, `PollCatchesUp` | however often requests are lost, a mark ends in a collapsed row, a replaced one (show-all) or a failure strip, the poll never stops, and a library that stays as it is gets shown |
| `Server` | `TypeOK`, `NoPermitLost`, `SignalsHeard`, `AwaitedWritesKept`, `ServesAsTold`, `EveryRequestServed`, `StopsWhenTold` | permits are conserved through joins and clients that leave; no request starves behind slow walks; whichever handlers can be installed, the server stops on a signal, on every signal it catches, and then ends; a stop discards no write that its client still waits for; the process serves only what and where it was told to |
| `Demo_sessions` | `TypeOK`, `Private`, `EarlyReturnIsServed`, `SlotsComeBack` | however ids are recycled and answers lost, nobody sees another's marks; a session is there for a visitor who returns within the window less a lag; every place comes back |

Three runs expect a violation, of what a comment or document of the repository
says and the code does not do. They are recorded as findings:

| run | property | what happens |
|---|---|---|
| `Store_undo_race` | `QuiescentSlotMatchesDisk` | an undo walks its root, another folder of that root is marked and edited into the slot, the undo splices its older section over it: a fresh slot without the mark (ADR-0022: a stale build cannot clobber a newer mark or undo) |
| `Page_unasked` | `MarksAreAskedFor` | a retry fires after a refresh took its button off the page and leaves `suppressConfirm` set: the next click writes a marker without the dialog |
| `Demo_cookie` | `ActiveVisitorKeepsSession` | a known session is refreshed and its cookie is not: after one idle window the browser drops it, however active the visitor was (README: changes stay in the session and reset when idle) |

`QuiescentSlotMatchesDisk` cannot hold of the code as it is; `SequentialEditsSettle`
is the part of it that does, and `InPlaceMarkSurvives` says which marks are safe
even when calls overlap. The same property fails without any undo, too
(`Ops <- TwoMarks` in `Store_undo_race.cfg`): a mark finds the slot cold, a walk
older than the mark is stored before the mark bumps the generation, and another
mark edits that entry.

`PollCatchesUp` exempts a library that equals the last `/refresh` body (see below). The rescan's retry, which `Page_live` has too,
ends with the button held disabled for good: `reissue` takes its element for the form
(app.js:737), the attribute is on the button (page.rs:384), and `FormData` cannot
be made of a button.

Other differences between code and comments that no run shows: a mark whose write
failed is answered with 200, so its row collapses and then comes back with an alert,
where app.js:569-571 says that only a written mark hides its row; a mark answered
after its section was replaced loses its undo offer; a mark sent again after its
answer was lost finds the marker there and gets none either.

And in the parts the models have, where they are easily read off:

- An honored rescan joins a walk already in flight (state.rs:390), so its answer may
  predate the click; README:71 says that it walks every directory.
- A listing taken before a same-tick marker write can be inserted after the
  invalidation (scanner.rs:439) and hides the write, which state.rs:446-449 says the
  invalidation prevents: an undo can answer with the marker it deleted. `SelfWritesShow`
  and the properties of `StoreWithIndex` exempt that case by name (`late`).
- A listing that lost an entry to a read error is indexed under a valid mtime
  (scanner.rs:570, 650) and reused, without the skipped count that warned of it, until the
  directory changes; scanner.rs:503-505 says that a reuse gives what a fresh listing
  would. `IndexSound` exempts it by name (`lossy`), and `NothingInvented` says what is left.
- An undo that waits behind another in htmx's queue of the body element is replaced by
  the next poll (app.js:1160); docs/CONTEXT.md:36 says that up to three toasts stack so
  that an earlier mark can still be undone.
- A `/refresh` answer equal to the last one is skipped although a mark's own swap has
  changed the page since (app.js:1735): a folder marked here and unmarked elsewhere
  before the next poll stays hidden while the library stays so.
- A mark of the root's own "." row covers everything, but its count does not lead the
  swap (`CollapseLeadsSwap` exempts it): the rows it covers stand beside it.
- A chip with a scan error is never updated by `recomputeSummary` (app.js:1426), where
  render.rs:110-113 says that app.js keeps every number current. `total_audiobooks` is
  documented as zero for a clean root (package.rs:23) and is not.
- README:98 promises a `no audio` note for an empty root; the code shows none.
- The percentage is computed in floating point on both sides (render.rs:123): 29 of 100
  is printed as 28%. The model floors integers; 100% is the same in both.
- An empty `MISSING_EBOOKS_LIBRARY_ROOTS` gives one blank root and passes validation,
  where config.rs:182-186 says that an empty value is an operator's error (of the
  values `parse_env` reads, it is).
- ADR-0022 (line 19) says of a mutation that once its sequence starts it runs to
  completion whether or not the request survives. When the server stops it does not: the
  drain waits for connections, and a mutation whose client left is dropped with the runtime,
  before its write if no thread has taken that up (main.rs:182, state.rs:591).
  `AwaitedWritesKept` exempts these writes by name (`gone`).
- No timeout ends a request whose head or form does not come (web.rs:137): the form's
  holds a permit meanwhile, and either holds a drain.
- A permit is freed when the response is made, so buffers of slow readers lie outside
  the cap that web.rs:51-53 and ADR-0037 justify with them; and a client that leaves
  frees its permit while the walk it began goes on, so there may be more walks than
  permits.

Two smaller differences between code and comments were met and are not modelled:
`add_marker` appends a marker's name, where `ScannedFolder.cover_files` is
documented as ebooks first, then markers, each sorted; and ADR-0022 still says
that a mark removes the folder's subtree from the raw view, where the code flips
its flags.

### Bounds

Nothing in `RawViewStore` is cut off by a bound: each request makes one call, so
`gen` is at most a few and every behaviour ends. Three requests are what the
interesting interleavings take: a walk that began early, the write it missed, and
a third call that joins or stores in between. A plain
read's steps are taken there by re-marks, which answer with the current view, and
by reads in `Store_faults`. A TTL of 0 is the case where `Expire` follows every
store at once. Two folders under one root
let a mutation of one disturb the other; two roots (`Store_faults`) let one fail
alone. The liveness run has two requests and every kind of call.

`DirIndex` bounds the number of changes to the library (`MaxChanges`); four
changes and two walks exceed what any of its hazards needs (a stat, a change, a
listing, a change, an insert). Walks repeat without bound. One directory is enough
for the mtime's part, since directories interact only through the levels;
`Store_indexed` has two of one level.

`Store_indexed` has two folders of one level, so that a listing waits for its sibling's
before it is inserted, and two requests of every kind. The index it starts from is new
or warm: what a third request would have left there before. Nothing fails to be read,
which the two modules have. Nothing else is bounded.

`Scan_exact` takes a tree of depth 3 with `MaxDepth` 2 in place of 64, one
excluded directory, all placements of ebooks and markers, and every set of
unreadable directories.

`Page_live` has both views, one folder, one mark at a time with one retry (`MaxRetries` 1 in place
of 3) and one toast (`MaxToasts` 1 in place of 3): the waits that could last for ever
are between a mark, the poll and its queue, and one of each meets every state of the
others. `Page_unasked` has two folders of two roots.

`View_counts` has a library of seven folders: an author with a book and a boxed set in
discs, a series with a single book, so that rows are alone in their list and are not,
placeholders stand above gaps, and gaps lie below gaps. A `Walk` may find any
scan of it.

`Server` has two pages that can join one build, a write, and a cap of 2 in place of 16:
full with joined waiters, full with others, and one waiting behind; a write that is
abandoned or awaited when the server stops, beside a build that is joined, a build nobody
awaits and the warm-up. Identities are used again without bound. `Starts` is every way to give and lose the two config paths, every
layering of roots and addresses, and at most one other defect (a number that does not
parse, a usage error, a glob that does not compile, a port in use).

`Demo_sessions` has two visitors, two requests at once (more than one may be the same
visitor's), one place in the table, four ids, a window of 3 with a lag of 1 and a
reaper's period of 1; ages stop at the sum of the three, where nothing more can be told
apart. One place is enough: sessions meet only in the count.

Requests are symmetric, and so are walkers; the liveness runs use no symmetry.

### Fairness

`FairSpec` gives each request's server steps (`Server(r)`) weak fairness: the
runtime polls tasks that can run, blocking calls return, and the mutex is fair, so
a waiter is reached. Nothing obliges a client to call or to leave, the clock to
pass a deadline, or another program to act: `Arrival`, `DropHandler`, `Expire`,
`CoolDown` and `OutsideChange` have none.

`PageClient` assumes that a mark's timers fire and its request ends in an answer or a
timeout (`Progress`), that the body element's does too (`CallProgress`), and that the
interval ticks (`PollTick`): the page stays visible. Polls get strong fairness to be
served and delivered: a connection that fails every one of them shows nothing. The
user is under no obligation; nor is the rescan, whose request may take ten minutes.

`Server` assumes that its own steps are taken (`ServerFairness`): those of `main` and of
`shutdown::signal`, each task's and handler's, and a pool thread for each closure, which
ends (a mount that hangs for ever is outside the model, and would hold a drain for ever).
What it assumes of clients is more than the code gives (`ClientFairness`): that a request
which began gets its head and its form, and that an answer is read, or the connection
breaks. The code has no timeout for any of these, and ADR-0037 rejects one; without
this assumption a form that never comes keeps its permit, and starves others or holds a
drain. Clients need not come, nor signals, and no handler need be available.
`DemoSessions` has no liveness: its clock may stop.

The store deadlocks in no run; a run's natural end is the explicit step
`AllServed`. Only `Server.cfg` turns the deadlock check off: the process exits.

## Proofs

All theorems hold for any values of the constants that meet the modules' named
assumptions.

| theorem | says |
|---|---|
| `RawViewStore_proofs!TypeCorrect` | `Spec => []TypeOK` |
| `RawViewStore_proofs!ControlHolds` | the control invariant below |
| `RawViewStore_proofs!WritesAreVisible` | `Spec => []OwnWriteVisible` |
| `RawViewStore_proofs!ImplementsService` | `Spec => ServiceSpec`: the store implements `MarkerService` |
| `RawViewStore_proofs!WalksCoalesce` | `Spec => []CoalescedWalks` |
| `RawViewStore_proofs!InPlaceMarksSurvive` | `Spec => []InPlaceMarkSurvives` |
| `RawViewStore_proofs!SequentialEditsAlwaysSettle` | `Spec => []SequentialEditsSettle` |
| `StoreWithIndex_proofs!ControlHoldsThroughIndex` | `IndexedSpec => []Control`: the store's control invariant holds with the index too |
| `StoreWithIndex_proofs!WritesShowThroughIndex` | `IndexedSpec => []OwnWriteShows` |
| `StoreWithIndex_proofs!RescansSeeHiddenChanges` | `IndexedSpec => []RescanSeesHiddenChanges` |
| `StoreWithIndex_proofs!SlotSettlesThroughIndex` | `IndexedSpec => []SlotSettles` |
| `StoreWithIndex_proofs!IndexedImplementsService` | `IndexedSpec => ServesThroughIndex`: the store with its index still implements `MarkerService`, wherever the clock tells changes apart |
| `DirIndex_proofs!TypeCorrect` | `Spec => []TypeOK` |
| `DirIndex_proofs!IndexIsSound`, `WalksSeeCurrent` | `IndexSound` and `WalkSeesCurrent`: directories whose stamps separate their changes |
| `DirIndex_proofs!NothingIsInvented` | `NothingInvented`: the same directories, also from listings that lost an entry |
| `DirIndex_proofs!SelfWritesAlwaysShow` | `SelfWritesShow`: any stamps, directories nobody else changes |
| `LibraryScan_proofs!TypeCorrect` | `Spec => []TypeOK` |
| `LibraryScan_proofs!SectionAlwaysExact` | `Spec => []SectionIsExact` |
| `LibraryScan_proofs!OmissionsAlwaysCounted` | `Spec => []OmissionsCounted` |
| `LibraryScan_proofs!ImplementsView` | `Spec => ViewSpec`: the walk and its edits implement `LibraryView` |
| `LibraryScan_proofs!SectionAlwaysCountsGaps` | from the disk to the badge: the number on a walked section is that of the audio folders that can be reached and are not covered, and "no gaps" is said just where there is none |
| `LibraryView_proofs!TypeCorrect`, `RowsTellTruth` | `Spec => []TypeOK`, `Spec => []NodesTellTruth` |
| `LibraryView_proofs!CountsAreAlwaysTrue`, `SummaryAlwaysAgrees` | `Spec => []CountsAreTrue`, `Spec => []SummaryAgrees`: badges, sums and the page's tallies count the gaps there are |
| `LibraryView_proofs!CountAlwaysLeads` | `Spec => CollapseLeadsSwap`: what the page counts ahead of the swap is what the swap brings |
| `LibraryView_proofs!PercentageIsHonest` | the floored percentage is 100 just when the all-clear line says so, for any counts (a model-checked library is too small for rounding to matter) |
| `PageClient_proofs!TypeCorrect` | `Spec => []TypeOK` |
| `PageClient_proofs!BodyIsNeverStuck` | the body element's request and queue, and what `pollOnce` waits for, belong together |
| `Server_proofs!TypeCorrect`, `PermitsConserved` | `Spec => []TypeOK`, `Spec => []NoPermitLost` |
| `Server_proofs!HearsWhatItCatches` | `Spec => []SignalsHeard`: whichever handlers could be installed |
| `Server_proofs!StopKeepsAwaitedWrites` | `Spec => []AwaitedWritesKept`: the drop of the runtime discards no write that its client still waits for |
| `Server_proofs!StartsAreAsTold` | `Spec => ServesAsTold` |
| `DemoSessions_proofs!TypeCorrect`, `SessionsArePrivate` | `Spec => []TypeOK`, `Spec => []Private` |
| `DemoSessions_proofs!EarlyReturnsAreServed`, `SlotsAlwaysComeBack` | `Spec => []EarlyReturnIsServed`, `Spec => []SlotsComeBack` |

The store. None of the safety properties is inductive. The control invariant says
what a request's place implies: the holder of the lock is at its join, a request
that awaits has a target that was begun, a build's registration and a request's
join floor never exceed the generation. `WritesAreVisible` adds that a build
registered at or after a writer's join floor has read the writer's folder, where
it has read it, as the folder has been since the write (or not at all): the bump
comes after the write, the registration after the bump, the read after the
registration. `WalksCoalesce` adds that a build superseded in the inflight cell
had been refused by a floor that still exceeds its registration.
`InPlaceMarksSurvive` adds that while nothing undoes a marker of its root, any build
whose registration still equals the generation, and the entry itself, show an
in-place mark; the edit's own bump is what disqualifies the others.
`SequentialEditsAlwaysSettle` adds that, while mutations come one at a time, every
such build, the section of an undo and the entry agree with the disk except in the
folder of the mutation under way, and that this exception ends with its edit or with
the first store after its bump (a build that finished registered below the
generation, so by the time the mutation is answered something was stored).
`ImplementsService` maps each step to a step of `MarkerService` or to a stutter: the
marker IO is `Write`, the end of a call `Answer`, and `OwnWriteVisible` in the state
reached is what lets a call that wrote take that `Answer`.

The store with its index. A step of the whole is one of `RawViewStore` together with
what it does to the index, or a walk that reads a folder through it, and the two kinds
are dealt with apart. From a request's write (or the click of an honored rescan) on,
there is an mtime since which the folder has held only what that request has seen it
hold. The invariant says what that mtime does: what the index has, and what is on its way
there, is right about the folder or filed under an earlier one, once the invalidation or
the clearing has come; and a walk registered at or after the request's floor has
a stat no earlier. `ListingsTell` is where this starts even if the clock stands still,
and `late` says where it does not. For `SlotSettles`, an entry under the folder's
present mtime is right, or the writer who made it wrong has its invalidation to come.
Where the clock tells changes apart nothing is ever `late`, so `OwnWriteShows` is
`OwnWriteVisible`, and the refinement follows as it does for the store alone.

The index. `StampsPast` (no stamp lies in the future), `PendingSound` (a listing
waiting to be inserted under the directory's present stamp is right) and
`ReusableSeen` (what a walk that has its stat may still reuse, the directory held
since that walk began) strengthen `IndexSound` and `WalkSeesCurrent`. They hold
because the stat precedes the listing. `PartSound` and `PartSeen` are their halves that
survive a listing which lost an entry: nothing in it was invented. Where stamps tie, a smaller invariant
(`OwnInv`) speaks of contents only, for directories no other program changed.

The walk. `Levels` (the frontier is one level, and what it and the section hold
can be reached), `Complete` (each child of a listed folder is listed, next,
unreadable, excluded, or counted as below the cap) and `Coverage` (the flag handed
down says whether an ancestor covers) are kept by each level read. That the
section then has every folder that can be reached goes up from a folder to the
root: `TreeAssumption` says that this ends, in a form (any set of folders has one
whose parent is outside it) that needs no induction principle.

The view. That placeholders tell the truth needs two facts of every scan, kept by
walks and edits: what lies above a listed folder is listed, and what lies above a folder
that lacks an ebook lacks one too. The second is why an edit must clear whole
subtrees. `ImplementsView` draws both from the walk: `SectionIsExact` gives the first
scan, and an in-place edit is a `Mark` step of the view. `SectionAlwaysCountsGaps` puts
the two together: the refinement carries `CountsAreAlwaysTrue` over to the walk, and
`SectionIsExact` says of which folders on disk its count is.

The counts are recursions over the tree (`MapThenSumSet`, `fill_gaps_within`), and
induction over data is out of the provers' reach. The proofs go around it: a solution of
the recursion is exhibited (the size of what lies below, the size of a union of
disjoint parts), and any solution agrees with it, because the set of exceptions, if
it had a member, would have a lowest one, which `TreeAssumption` and the
well-foundedness of strict inclusion among finite sets exclude.

The page. Whatever ends the body element's request lets the next one go, since
`inFlight` is set only while that request is a poll (`BodyElement`): the safety half
of `PollKeepsGoing`.

The server. The invariant adds to the properties that the queue holds exactly the
requests that wait, each once (`QueueOK`), and that nothing is under way before the start
(`Dormant`). A permit moves with the one request whose place changes, so the lemmas on
removing from the queue and on the holders' count carry `NoPermitLost`. Until
`shutdown::signal` resolves, the arm that runs awaits just the handlers that are installed
(`ListenerOK`): this goes through each way of having and not having them, and
`SignalsHeard` follows. A write no thread has taken up is awaited by its client or
abandoned by her (`WritesOK`); when `main` returns nobody awaits anything (`StoppedIdle`), so
what the runtime discards was abandoned. `ConfigOK` ties what is served to the
surroundings it was read from.

The demo. `Window` bounds the age of a session from both sides: `last_seen` is older
than the last use by at most a lag, since a reading waits no longer than that for the
lock (`AgesTrue`), and no session is older than the last sweep left it (`Swept`), whose
clock reading is the one that waits (`ReadingIsSweep`), and sweeps come every period.
`SessionsArePrivate` adds that an id is held by one visitor only (`HeldByOne`): cookies
and requests that name it, live or reaped, are hers, which is what `Fresh` keeps.

Model-checked only: liveness (`EveryRequestAnswered`, `EveryRequestServed`,
`StopsWhenTold`, `MarksComeToAnEnd`, `PollKeepsGoing`, `PollCatchesUp`), because no TLAPS
backend here proves statements with ENABLED; and the properties of the runs that expect
a violation, which are shown false and not proved.

## Not modelled

Panics of spawned tasks and their fallbacks (`spawn_mutation`, the rescan task, the
build's `JoinError` arm): nothing under them panics by design. The path guard of
`write_marker` and `delete_marker` is an IO failure that may happen. Poisoned
locks. Telemetry, static assets, the size of the scan pool, and values of the
configuration that nothing here branches on. Markup and wording; of what `render.rs`
computes, the warning strips, the label that names a row's smell, and sums over several
roots. `query.rs` cleans a folder's name into a search query and percent-encodes it:
it is data only, and property tests enumerate it. Limits on bodies and paths, header
escaping. The demo's banner, log of session counts and seeding. Test scenarios, synthetic libraries,
benches and examples. Natural sorting of names. Vanished or new
directories: the tree's shape is fixed in each behaviour, and what a directory
holds changes. Of the page: search, keyboard moves, folds, themes, the banner, and the
setting that turns the confirmation off.

## Plan

1. Sums and chips over several roots in `LibraryView`.
2. In `PageClient`, the setting that turns the confirmation off, and a second click on a
   button whose request is in flight.

# Verification of the FTTH Manager

TLA+ models of the parts of the FTTH Manager (a network inventory for optical
fiber: FastAPI, SQLAlchemy and PostgreSQL behind a React frontend) where several
requests, sessions, workers or browsers change shared rows, where answers
arrive late, and where a graph is walked. TLC checks small instances, TLAPS proves the main
safety results for every instance. Paths below are relative to
`src/backend/app/` unless they start otherwise.

## The system

| Component | State | Operations | Interacts with | What is hard, what makes it correct |
|---|---|---|---|---|
| Connectivity (`modules/connectivity`) | `terminals.occupancy`, `connections`, `connection_endpoints`, `terminal_reservations` | create, deactivate, batch (release, reserve, disconnect, connect), editor load | topology revision; cables and splitters own the terminals | three records of one fact kept consistent by row locks; a batch is atomic; no terminal in two connections; lock order |
| Topology revision (`modules/gis/service.py`) | one counter row | bump, read | every change of the network | a page or batch based on an old state is recognised |
| Jobs and worker (`modules/jobs`, `backend/scripts/run_worker.py`) | `async_jobs` (status, lease, retries), worker processes | claim, renew, execute, record, cancel, cleanup | imports, exports, storage | crashes, expired leases, late workers; one owner records a result |
| Imports (`modules/imports`) | `import_previews`, stored files | preview, commit (enqueue), execute | jobs, inventory, cables | idempotency keys, files shared by content hash, expiry |
| Exports (`modules/exports`) | export files | request, execute, download, expire | jobs, storage | download beside cancellation and retention |
| Cables (`modules/cables`) | cables, segments, fibers, fiber segments, internal edges | create, update, retire, split | terminals and connections | a split keeps every uncut fiber continuous; checks without locks |
| Splitters (`modules/splitters`) | splitter, its terminals and edges | create, update, delete | connections | dependency check without locks |
| Customers (`modules/customers`) | customers, service links | CRUD, activate, deactivate, occupancy | devices, ports | one active link per port and per ONU |
| Identity (`modules/identity`) | users, sessions, login attempts | login, logout, revoke, administer | every request | last administrator, revocation, back-off |
| Attachments (`modules/attachments`, `core/storage_backend.py`) | rows and files | save, delete, reconcile | storage | a row never without its file, orphans are collected |
| Trace, optical budget (`modules/topology`, `modules/optical`) | none (profiles only) | trace, impact, budget | the graph of terminals | a pure algorithm: every simple path once, hop bound |
| Inventory, measurements, settings, wireless | rows | CRUD with versions | foreign keys | lost updates |
| Audit, reports, metrics, retention, rate limiter, backup | logs, files, memory | append, read, delete | all | mostly I/O |
| Fusion editor (`src/frontend/src/features/connectivity`) | the page loaded, a draft of operations, dialogs | draft, preview, submit, reload, resolve a conflict | connectivity | a draft built on one revision is sent against another; a lost answer is sent again |
| Operational map (`src/frontend/src/features/map`) | drawing, history, selection, features shown | load, draw, edit, undo, save, delete | cables, GIS layers | loads overtake each other; an edit is saved long after its geometry was copied |
| Forms, tables, detail pages (`src/frontend/src/features/*`) | one record or list each, the open form, the query cache | load, fill, type, send with the version read, delete, load again | API, each other through the cache | what is shown, typed and stored drift apart |
| CTO ports and activation (`src/frontend/src/features/customers`) | occupancy shown, selected port, confirmation, wizard | show, activate, deactivate, load | service links | copies of rows outlive the rows; a wizard keeps its choices |
| Import and export wizards (`src/frontend/src/features/imports_exports`) | step, preview, job followed, polls in flight | preview, commit, export, poll, cancel, reset | imports, exports, jobs | answers about one job arrive late or about another |
| Views with questions (trace, budget, simulation, search, comparison, split, audit, reports) | inputs, questions under way, answer shown | choose, ask, answer, fail, close | read-only API | the answer of an older question comes last |

Components talk through the database (row locks, unique indexes, versions, the
topology revision) and through files; only workers run in the background, and
they meet the API in `async_jobs`. In a browser, pages meet in the query cache only. Sessions are READ COMMITTED with autoflush
off, so a statement sees what is committed when it runs, and what a handler
changed on its objects reaches the database at an explicit flush or the commit.

## Modules

| Module | What it is |
|---|---|
| `Connectivity.tla` | the fusion engine, one action per statement that can wait, refuse or change state |
| `PatchPanel.tla` | what the engine promises: a matching of terminals, changed in single steps with a new revision each |
| `ConnectivityReader.tla` | the fusion editor's load beside the writers |
| `Cables.tla` | segments, fibers and the split beside the connection handlers |
| `Trace.tla` | the optical trace as a walk over a plant, with its reference definition |
| `Jobs.tla` | the job queue with workers, leases, cancellation, crashes |
| `Imports.tla` | previews, shared files, idempotency keys, commit requests, retention |
| `FusionEditor.tla` | one browser's editor, the batch it posts and everybody else |
| `MapView.tla` | one browser's map: drawing, loads, save, deletion |
| `Basemap.tla` | the sources MapLibre draws, beside the data React has computed |
| `Forms.tla`, `Records.tla` | the edit forms and pages as tables of what they do; one record and one browser over those tables |
| `Activation.tla` | the ports of a CTO on one screen, the activation wizard, the service-link handlers and everybody else |
| `Wizard.tla` | the import and the export wizard with the polling hook, beside the jobs on the server |
| `Screens.tla`, `Views.tla` | the views that ask a question as a table; one view and its questions under way |
| `Console.tla` | one browser with one page open: the modules from `ConnectivityReader` and `Trace` to `Views` and `Basemap`, each on a route of its own; it extends `Activation` and instantiates the others |
| `Plants.tla` | the plants over which traces are run |
| `ConnectivityProofs`, `CablesProofs`, `JobsProofs`, `ImportsProofs`, `FusionEditorProofs`, `MapViewProofs`, `TraceProofs`, `ConsoleProofs` | proofs about the module of that name; those about `Activation`, which `Console` extends, and about the other pages are in `ConsoleProofs` |
| `MCConnectivity`, `MCCables`, `MCTrace`, `MCJobs`, `MCImports`, `MCFusionEditor`, `MCMapView`, `MCWizard`, `MCConsole` | instances for TLC |

An operator introduced as a *fault* is a variant of the definition after it with
one plausible bug. No specification uses it; substituting it shows that a
property notices the bug.

### Connectivity

A session (`Txn`) executes one request. `Begin` takes the request and the
version or revision the client had read (others may commit before it is
checked). `LockConnection`, `LockStructure`, `CheckRevision` and `LockTerminal`
are the SELECT ... FOR UPDATE statements, one row at a time in the order of the
query; `StartBody` loads the locked rows. The operations then run on the
session's own copy (`wOcc`, `wResv`, `born`, `dead`) as the ORM objects do, in
the order of the payload; `Insert` is the flush of a connection and its
endpoints with the key-share lock the foreign key takes on the structure. `Bump`
is the UPDATE of the revision row, `Commit` the final flush and commit. `Refuse`
covers the 404, 409 and 412 answers, `DeadlockVictim` PostgreSQL's detector and
`LoseSession` a timeout, a lost connection or a dead process.

Abstractions: `is_occupied` is always written with `occupancy` and is not kept
apart; an endpoint row is active exactly when its connection is; loss, kind,
notes, labels and audit rows are left out; a terminal has one location, its
structure or its site. `late` holds reservations whose release is not flushed
yet, because the next query still returns them. The IntegrityError branches
have no action: `Exclusive` shows that the unique index never refuses an insert.

### Jobs

`status`, `owner`, `lease` and `retries` are the columns; the clock is reduced to
a lease being live or expired, and `Expire` may come at any moment, since the
renewing thread may be late, fail or die. `Claim` is the locked query and its
commit in one step (rows locked by others are skipped). `ReadFile`, `CheckCancelled`,
`Insert`, `InsertRefused`, `BumpRevision`, `AssertLease`, `CommitResult` are the
statements of an import; an export is `WriteExport` and then the same ending.
`Raise` is any other failure, `Reload` and `WriteVerdict` are the exception handlers
(the read and the later UPDATE by id), `Abandon` a failure inside them, `Crash` the
death and restart of a worker under a new id. `CancelRead` and `CancelWrite` are
the two halves of `cancel_job_by_id`. The entities of an import are reduced to its
set of unique codes; a cable counts as a batch of its own.

Not in this model: a COMMIT whose acknowledgement is lost (the worker would
take its success for a failure), the removal of export files, the progress
column. The cleanup of previews is in `Imports`.

### Cables

A request (`Client`) reads its segment (`View`), may wait for the topology row or
for terminals, and then runs to its commit under the locks it holds, which is
one action: `CreateSegment`, `UpdateSegment`, `RetireCommit`, `SplitCommit`. What it
checked before the wait is not checked again unless the code does. A split
replaces the segment by two halves, splices the uncut fibers in the box and
leaves the cut ones open; fibers keep their outer terminals (`Halves`, `Continuity`).
`ConnectLock`, `ConnectCommit`, `DisconnectLock` and `DisconnectCommit` are the connection
handlers of `Connectivity` as this module meets them: terminals first, topology
row last, the opposite of the split. `DeadlockVictim` ends a wait cycle. `spans` and
`joints` are history: the ends of each fiber as laid and the joints splits made.

### Trace

One behaviour is one request: `Load` selects the subgraph within the hop limit
(the recursive CTE), `Visit` takes one node from the deque and records a path or
appends its successors, `StopAtResultLimit` and `CutAtHopLimit` are the limits, `Respond`
the status. `Part` is what the loader keeps of a table: the rows with both ends in
reach, in their order. The reference, `ExpectedPaths`, is computed from the plant alone
(`PlantHops`) and knows neither the loaded part nor a queue: `SimpleWalks` are the walks
that enter no terminal twice, by their length. A net is what the tables hold, and
`WellFormed` what their keys say of it: rows have ids of their own and lead to
terminals that exist, an output belongs to one splitter, an input is no output.
Losses, labels and lengths are not in it. The impact analysis asks for 200 hops; its run
takes 100, since no walk of its plants has 15.

### Imports

A preview is uploaded (`SavePreview`, `CommitPreview`; the file is named by the hash of
its content and shared), commit requests read the preview, look up the key,
check, insert and commit in separate statements (`ReadPreview` .. `CommitJob`, with the
unique index in `InsertJob` and `YieldToWinner`), jobs execute in one step (`Execute`), and
the worker's retention selects, deletes files one at a time and commits
(`SelectExpired`, `DeleteFile`, `CommitSweep`), or dies in between (`CrashSweep`).

### FusionEditor

`page` is the data of the query, `draft` the operations of the user, `dialog` an open
dialog, `pending` the batch on its way, `conflict` the refused one. `Preview` is what the
editor shows of the draft over the page. A load is two steps, because revision
and content are read by two statements; the handler is `Check` under the lock
and `Apply`; `Outside` is everybody else. An answer may arrive, be refused or be
lost after the commit (`FailRequest`), and the user may send again.

### MapView

Every pointer, keyboard and toolbar handler that changes the drawing is an
action; so are the debounce timer, the load in flight, its abort, and the
requests with their late answers. A coordinate is a model value; `base` is history,
the version from which the geometry under edit was copied. `fresh` says whether
a load was asked for after the map was last moved and after the last change of
this user that was acknowledged. Of the modal only that it is open is kept: what it
reviews and passes on, `presetOrigin` with it, changes nothing else.

### Basemap

`Render` is the effect that updates the sources, or returns early because the
style is not loaded (`isStyleLoaded`); `setupSourcesAndLayers` is the handler of
`style.load`, which adds the sources again from `geoJsonRef`; `SwitchTheme` calls
`setStyle`, whose style arrives later and drops the sources. MapLibre itself is
external. `skipped` is history: the last update met a busy style.

### Forms and Records

`Forms` says of nine forms which attributes each fills in, requires, lets the
operator change and sends, what PATCH does with a null, and of fifteen pages
whether their form edits a copy of the row or the current data, what a save loads
again and where a deletion leads. `Records` is one record, one of its attributes
and one browser over any of these: `Visit`, `Read` and `Arrive` are the query
cache (a load under way is joined, data is shown again within two minutes), `Open`,
`Type`, `Close` and `Submit` the form, `Serve` the version check and the UPDATE, whose WHERE
holds the version; a deletion removes the record or, of a site, a structure or a cable
that retired parts refer to, retires it with a new version, after which its table
may leave it out (`Retired`, `Answers`). `Saved`, `Deleted` and `Fails`
are the answer. The effect that fills a form runs in `Arrive` (`Refill`). `base` of a dialog is what it was last filled from; `saved` is
history. Creation, searching, sorting and paging are left out.

### Activation

`page` is the occupancy shown, `load` its query, `selected`, `ending` and `wizard` the
states of `CtoPortsGrid` and `ServiceLinkDialog`; `Target` is what the two effects of the
wizard do to its port. `CheckUnused` and `InsertLink` are the two statements of
`create_service_link`, with the partial unique indexes in `Insert`; `EndLink` is
`deactivate_service_link`; `Others` creates, ends, changes and revives services.
`Activated` and `Ended` are the success handlers, which close whatever is open by then.

### Wizard

`Track`, `Tick`, `ReadJob`, `PollArrives` and `Cancel` are `useJobPolling`: polls overtake each
other and are aborted only with the effect. The steps of both wizards, their
requests and `handleReset` follow. The jobs on the server are reduced to their
status; `Jobs` and `Imports` have the rest.

### Screens and Views

`Screens` says of each view when it asks, which answer it takes, what clears the
answer and which inputs are shown beside it; `Views` runs one view with one of its
inputs. A question has a number and the value it was about; `Answer` and `Fails` come in
any order; `off` marks a question whose answer the code drops.

## Checks

| Run | Shows | Instance |
|---|---|---|
| `conn_core` | `TypeOK`, `Exclusive`, `LinkedMeansConnected`, `OccupancyHasItsRecord`, `HistoryKept`, refinement `PanelSpec` | 2 sessions, 4 terminals, 3 connections, 3 creations, deactivations, 7 batches, revision up to 5 |
| `conn_locks` | `NoDeadlock` and `Terminates` without batches | 3 sessions, 3 terminals, 2 connections |
| `cables` | `SplitKeepsTheLight`, `ConnectionsKeepTheirFiber`, `SplitSeesCurrentPlant`, `RequestsEnd` | 2 clients, 3 boxes, one route, 1 fiber, 5 segment rows (two splits), revision up to 4, version up to 3 |
| `cables_retire` | violated: `RetiredCarriesNoConnection` | as `cables` |
| `trace_impact` | violated: `ImpactIsExact` | lines of 5 and 6 segments |
| `jobs_core` | `OnlyOwnerCommits`, `NoRevival`, `AttemptsHonest`, `AllOrNothing` | 2 workers, 1 operator, 2 imports sharing a code, 2 retries |
| `jobs_live` | `Finishes` | 2 workers, an import and an export |
| `imports` | `Idempotent`, `SolePreviewKeepsFile`, `ExpiredArePurged` | 2 previews of one content, 2 accounts, 1 key text, 2 requests, 2 jobs |
| `fusion_editor` | `OneBatchPerRevision`, `ConflictExplained`, `AppliedAsPreviewed` | 3 terminals, 2 batches, draft of 2, revision up to 2 by others |
| `map_view` | `EndpointsKept`, `SettledIsFresh`, `NoLostUpdate` | 4 coordinates, 4 vertices, history of 2, one request at a time, 2 versions |
| `import_commit` | violated: `CleanImportStarts` | the wizards with 2 jobs and 2 polls in flight |
| `console`, all routes | `Typed`, the types of its pages | |
| route box | `PageIsCurrent` | 2 writers, 2 terminals, 1 reader, revision up to 4 |
| route trace | `PathsAreExact`, `CompleteLeavesNoLooseEnd`, `LimitCutsTheFarthest` | every pairing of 9 terminals in 2 boxes, 3 starts, both directions, full and tight limits |
| route record | `NothingOverwritten`, `OwnSaveShown` | 9 forms, each kind of attribute they treat alike, all their pages, version up to 3 |
| route cto | `OneServicePerPort`, `ActivatesChosenPort`, `EndsWhatWasShown` | 2 ports, 2 ONUs, 1 customer, 2 services, version up to 2 by others |
| route job | `EndShownIsReal` | both wizards, 2 jobs, 2 polls in flight |
| route view | `ShowsLastAnswer`, `SplitsOwnFibers` | 12 views, each kind of input, 2 values, 3 questions |
| route map | `StyleKeepsTheNetwork` | 4 versions of the data |

The routes of `console` share no state: `route` is chosen at the start and each
behaviour stays on its page, so that the run is seven checks in one. Types are
checked by `conn_core` and `console`, and are part of the proved invariants of the
modules that have proofs. A CTO nobody looks at has no services.

Bounds. `MaxRevision` is the only bound on behaviours of `Connectivity`: no call
begins once the revision is reached, so four or three commits happen, enough for
create, disconnect, reconnect and reserve on one terminal with another session
in between. Because of it a run stops, so `CHECK_DEADLOCK` is off in its cfgs
and a wait cycle is caught by `NoDeadlock`; the fusion editor and the map never stop, and
their runs check for deadlock. The fourth terminal lies outside the structure, and 1 and 3 are the faces of one DIO port, so that both refusals
happen. `Jobs` has no bound but its constants: retries bound the executions
(`MaxRetries` is 2 in the runs and 3 in the code; with 2 a job is begun, begun
again and given up), and a finished job ends everything, which is why those runs
stop too. Sessions, workers and connection ids are symmetric except in the
liveness runs.

In `Cables` a segment split twice leaves five rows, so that `MaxSegment = 5` lets a
fiber be cut in one half and whole in the other; `MaxRevision` and `MaxVersion` leave
room for the two splits and an update that makes a request stale. `Trace` has no
bound: the plants are enumerated, and a walk ends. The two limits are met by
`<<3, 2>>`. In `Imports` ids and slots are the bounds; two previews of one content are
enough to share, and two requests enough to race. In `FusionEditor` two batches
are the least that can repeat one another. In `MapView` a drawing of four
vertices has two that can move, a history of two can be undone and redone, and
the constraint of `MCMapView` leaves out what follows a third version or a load
that failed while a request was under way.

In `conn_core` every batch names both ends of what it disconnects, as the editor
does; `OccupancyHasItsRecord` needs that (see below).

In `console` two services, two ports and two ONUs let an activation meet another
one on its port, on its ONU, or on neither; three versions let a form be stale,
saved and stale again; three questions let an answer be late and another one later;
four versions of the map's data allow an update in each phase of a style.
Attributes and inputs that a form or view treats alike are represented by one
(`Alike`, `SameInput`). `BoundedRecord` and `BoundedCto` name what is not followed
further: two loads at once of different pages, more than one page in use except
for one site attribute and the notes of a splitter (`Wandering`), a failed load
out of sight, a load of the ports beside a request of the same screen, an
activation beside a deactivation, a request or a load beside a wizard opened for no
port or after a port was picked by hand. The steps that lead there are still
checked, and what is proved of these pages is proved without the constraint.

Fairness. A handler that can go on does (threads of the API server, the worker's
loop). Strong fairness of `Step` stands for PostgreSQL's row-lock queue: a
statement whose row is free again and again gets it; the detector breaks wait
cycles (weak fairness of `DeadlockVictim`). In `Jobs` the lease of a job whose
owner no longer executes it expires (`Lapse`); nobody is assumed to stay alive,
and renewals, crashes and failures happen at will. In
`Cables` strong fairness of the steps that end a request (`Commits`) is the same
lock queue. In `Imports` the retention routine is called by the worker's loop
again and again, whatever becomes of a call (weak fairness of `Sweep`); crashes
are not excluded. The browser modules state no fairness, since a user may stop.

### What the violated runs say

* `cables_retire`: `delete_cable_segment` looks for connections before it waits and
  without a lock, so a connection made meanwhile outlives its segment; and its
  join compares end a twice (`modules/cables/service.py:507`).
* `trace_impact`: `analyze_cable_impact` reads a walk of at most 50 paths as the whole
  route of a customer (`modules/topology/service.py:201`). Each segment of a line doubles
  the paths, because a fiber is recorded both as a segment row and as an
  internal edge; from six segments on the customer is missed.

* `import_commit`: the wizard commits with `collision_strategy` only
  (`src/frontend/src/features/imports_exports/api.ts:47`) and the server requires `import_id` and
  `file_hash` (`schemas/imports_exports.py:64`), so that no import can be committed from the
  console. The tests of the wizard replace the request by a mock.

### Disagreements without a run of their own

Backend:

* A batch that names one end of what it disconnects leaves the other end
  `connected` for ever (`modules/connectivity/service.py:601`).
* `docs/progress-backend.md:271` claims that the lock order excludes deadlocks. It
  orders terminals, but a deactivation takes the connection row before them and
  a batch after them.
* A worker that lost its lease and then fails or sees a cancellation writes `failed` or
  `cancelled` by id over the `succeeded` of the new owner
  (`modules/jobs/service.py:489`, `:503`), and `cancel_job_by_id`
  overwrites a job that finished after it was read (`modules/jobs/service.py:98`). `NoRevival`
  allows these two writers and no other.
* One preview committed under two keys becomes two jobs
  (`modules/imports/service.py:820`; `docs/runbooks/deployment-and-maintenance.md:232` promises one).
* The retention of an expired preview deletes the file that a newer preview of
  the same content shares (`modules/jobs/service.py:541`); `SolePreviewKeepsFile` is what remains true.
* `cancel_job_by_id` may answer `cancelled` for an import that has committed, while the
  wizard then says "nenhuma alteração foi mantida".
* The server knows no collision strategy: an import with collisions is refused
  whichever one the wizard offers (`docs/progress-frontend.md:529`).
* `update_service_link` revives a service without clearing `deactivated_at`, and the
  unique index it may meet is not handled (`modules/customers/service.py:390`);
  `create_service_link` takes no notice of a technical reservation of the port.
* An export request has no idempotency key: sent again after a lost answer it is a
  second export.

Fusion editor (`src/frontend/src/features/connectivity`): operations added while a
batch is pending are lost when it succeeds, and a dialog that was open then adds
to the emptied draft; the conflict dialog's text is wrong for repeated
operations and for a batch of one's own whose answer was lost; reservations
cannot be released from the editor.

Operational map (`src/frontend/src/features/map`): undoing to an empty drawing keeps
`presetOrigin`; the answer to a save or a creation wipes a drawing begun meanwhile;
the answer to a deletion clears the selection under an edit, whose "Salvar"
then does nothing; a reload cuts a drag short; the end of an aborted load clears
`isLoading` of the next; Ctrl+Z works under the open dialog; an update that meets a
busy style is skipped until the next one (`operational-map.tsx:586`; `skipped`).

Forms and pages:

* Moving a device between a site and a structure always ends in 422, since both
  ids are then set. The condition of a structure is ok, degraded or damaged in the
  form and ok, damaged or unknown on the server; its form has no kind "rack".
* Emptied addresses, notes, phones and serial numbers are ignored with a 200
  (`KeptOnNull`).
* Every 409, also for a dependency, and a 412 after a save of one's own whose answer was lost, are
  shown as "alterado por outro usuário" (`site-form-dialog.tsx:173`;
  `docs/progress-frontend.md:320`); a 409 of the user form as an e-mail that exists, the
  last administrator's too.
* A load that arrives under an open dialog of a detail page fills it again, and what
  was typed is gone; so do the settings. An older load of the settings can put back
  what `setQueryData` has just written.
* A save on a detail page leaves the list of the cache as it was, and the other way
  round, for up to two minutes; a page left while its save was under way shows
  older data as long (`saved` counts only where the code loads again). A list that is not
  shown is only marked, and an older load under way clears the mark.
* After a deletion the list may still show the record; a deletion answered late
  leads to the list although the operator has left; the answer of a save closes a
  dialog opened meanwhile on the same page. `deleteUser` sends no If-Match. A radio
  link created from page 2 may be missing on the cached page 1.

Activation: "Reseta estado ao abrir" (`service-link-dialog.tsx:74`) resets the step
only: customer and ONU of the last use, and without a selected port its port, stay
chosen; the answer of an activation closes a wizard opened again for another port.

Wizards and jobs: the idempotency key survives "Trocar Arquivo"; a late poll can
show "running" after a cancellation and restart nothing, so that the wizard stays
there; the answer to the cancellation of an older job is shown for the new one;
`client.ts:136` ignores `timeoutMs` when a signal is given.

Views: budget links, simulation, comparison, split preview and audit have no guard
against a late older answer (`Unguarded`). A calculation may therefore use the link of the
previous customer, an ended simulation come back, a comparison or a preview belong
to other inputs. The lists of measurements and attachments have the same flaw: a
created row can be missing or doubled, a deleted one return. The
split dialog's choice of structure is set back by its list; an aborted search
clears the flag of the next one, and "Nenhum resultado encontrado" is shown before
the answer; the filters of the inconsistencies act on one page; the
trace suggests customers by an id that the server looks up as a terminal
(`modules/topology/service.py:60`); a link to another trace leaves the input
box as it was. The simulated cut shows the same numbers for every segment
(`simulations-view.tsx:128`), where `docs/progress-frontend.md:481` speaks of the impact
API and line 741 of no false simulations.

## Proofs

The eight proof modules hold for any number of sessions, workers, terminals, jobs,
requests, coordinates, ports, ONUs, services, fibers and segments, so also beyond the bounds
above. They rest on the named assumptions of the modules and on nothing else: terminal
ids and job ids are ordered (naturals), a location is a structure or a site but not both,
`None` is no id, no network, no job and no choice (`NoneAssumption`, `NoNetworkIsNone`,
`NoJobIsNone`, `NoChoiceIsNone`), a request has the shape its schema validates
(`RequestAssumption`, `RequestsFormed`), the plants traced are finite and keep the keys of
their tables (`QueriesFormed`), the forms and views followed are those of the
tables (`FormsFollowed`, `QuestionsScreened`), a record is not `None` (`NoRecordIsNone`), the
ports of a CTO are numbered in the order of their names (`PortsNumbered`), `MaxRetries` is positive, an import of no
batches has no codes, a cable has at least one fiber and joins two different boxes
(`CountAssumption`, `RouteAssumption`), the two ends of the segment on the map differ.

* `Connectivity`: `Typing`, `NoDoubleConnection`, `OccupancyIsHonest` and `Refinement` follow
  from `Inductive`. The three properties speak of committed rows, but a commit is
  only as good as the copy a session works on, so the invariant says the same
  of each writing session's view (`ViewInv`), and that the view stays true while
  the session works because all its terminals are locked (`LockInv`), because a
  deactivation still holds the row that says its connection is active
  (`RowInv`), and because what others insert is pending and their own (`SessionInv`).
  `DeactivatedOnce` adds `HistoryInv`: what a session deactivates is still active, since it
  holds the connection's row and ends, or the structure in which all of them lie.
  `NothingBlockedForNothing` is the converse of `OccupancyIsHonest`: every occupied terminal has
  its connection or reservation (`RecordInv`). Its premise `BothNamed` says that a
  batch names both ends of what it disconnects, as
  `src/frontend/src/features/connectivity/components/disconnect-dialog.tsx:38` does; without
  it the property is false, as listed above. `SingleCallsNeverDeadlock` has the premise
  `SingleCalls` (no batches) and finitely many sessions: a session waits only
  for terminals above those it holds (`WaitInv`), so those waited for in a cycle would climb for ever. With batches the property is false.
* `Jobs`: `OnlyOwnerCommits`, `AttemptsHonest`, `AllOrNothing` and `NoRevival` follow from
  `Inductive`: between `assert_lease_owner` and the commit the row is locked
  (`CommitInv`), `retry_count` is one behind the executions begun (`CountInv`), and
  uncommitted entities clash with nothing, committed or not (`WriteInv`).
* `Cables`: `SplitIsCurrent`: a split holds the topology row from the moment it compares the
  revision to its commit, and every change of the plant takes that row first.
  `ConnectionsStay` needs the shape of the plant (`PlantInv`): terminals are numbered without a
  gap (`Counted`), so that those a split or a new segment adds are new; every terminal is
  an end of exactly one fiber row, every segment has a row for each of its fibers
  (`RowsOK`). `SplitsKeepTheLight` adds `LightInv`: no fiber row joins the two sides of a joint, a
  joint that nobody cut or opened has its connection, and over rows and joints
  each fiber still leads from end to end (`SpansOK`). `LitLeast` shows that `Lit`, computed in as
  many rounds as there are links, is the least set closed under the links: a round
  that reaches no new terminal is the last, any other completes a link.
* `Imports`: `KeysAreIdempotent`: a session past the lookup of its key has either found the
  row or is alone to have inserted one (`InsertedIsAlone`), and every answer given
  names a row with the key of its request (`AnswersAreRows`). `ValidPreviewsKeepFiles` (`FileInv`):
  a preview that has not expired and shares its content with none has its file, because a
  retention deletes the files of expired rows only (`SweepsExpired`).
* `FusionEditor`: `NeverAppliedTwice`: the revision has left behind every applied batch
  (`AppliedIsPast`), and a batch between its check and its application is alone
  there, with a revision no applied batch has (`CheckedIsAlone`). `ConflictsAreExplained` and
  `BatchesLandAsPreviewed` follow from `EditorInv`: as long as the revision of the page stands, what
  the draft relies on is in the network, so that the fold of the preview and the fold
  of the server agree step by step (`LeavesAgree`).
* `MapView`: `EndsAreKept` (what is drawn, held by the pointer or remembered in the
  history of an edit keeps the ends of the segment, `Drawn`), `NothingIsOverwritten` (a
  geometry under edit is sent with the version it was copied from, `Sent`),
  `RestShowsNewestLoad` (unless the timer runs, no load in flight is stale, `Loaded`).
* `Activation`, as the page of a CTO: `OneActiveService`, `WizardActivatesItsPort` and `EndsOnlyWhatWasShown`
  follow from one invariant, `CtoInv`. Every copy of a row, on the page, in a load, under the details, in the
  confirmation and in the request (`Copies`), is of a service that has at least that
  version, and is active if it has no later one (`Known`); so a version that matches at
  the server matches what was shown. `Begun` says that a selected port is the one the
  wizard was opened for. The unique index is part of the model's guards, the check
  before it is not needed.
* `Console`, one page after the other. Box: `CurrentPages`, because every commit raises the
  revision and nothing else changes what a load reads (`BoxInv`, `PageOK`). Record: `OwnSavesStay` and
  `SavesOverwriteNothing` (`RecordInv`): a form is filled from one version and sends it, and a place
  that must show the save is loaded again or loading since. Job: `EndsAreReal` (`JobInv`): an
  end that was read of a job is its end. View: `LastAnswerShown` and `FibersOfTheSegment`
  (`ViewInv`): a question still listened to is the last one or is marked as overlapped. Map:
  `NetworkSurvivesStyles` (`MapInv`): unless the last update was skipped, a ready style shows the newest
  data, and the viewport is reported with the first style only. All pages: `PagesAreTyped` (`PagesTyped`),
  which needs more than the types: whoever stands at the last step of the activation has
  passed the ones that ask for a port and an ONU, a debounce timer runs only for an input that
  is filled in, a view that can be asked again has asked, and a load holds a record
  exactly while it is read and not yet shown.
* `Trace`: `TracesAreExact`, `CompleteIsComplete` and `LimitsCutTheFarthest` hold for every plant that is
  `WellFormed` and every limit. The nodes of the search are the simple walks shorter than the
  limit, or as long (`Nodes`; `SimpleWalksAre` says that the recursive reference computes them).
  The invariant `Walked` says of the deque and the paths: no queued node lies on from
  another one (`Apart`), so that each node waits under exactly one queued walk or has been
  visited (`Past`); the paths are the results of the visited nodes, each once
  (`Lists`); the deque is in order of length within one step and no path is longer than its head by more
  (`Levels`); and the flags say of each visited node whether it met a loop, the hop
  limit or a bad end (`Marked`). A visit replaces a node by its extensions, which are apart
  again (`WalkedStep`); with an empty deque every node is past, and the results of all nodes are
  `ExpectedPaths` (`ExpectedAreResults`). Two lemmas tie the loaded part to the plant:
  `TransitionsList` (within the limit, the loader's rows allow the same hops as the plant's,
  each once, because `Reach` is closed that far) and `ReachLeast` (`Reach` lies in every set
  closed under hops, so that every terminal in reach is the end of a node). `Console` has the trace on a route of its own: `TP` is the
  instance of `TraceProofs` with its variables, and the lemmas `Same...` identify its
  definitions with those of `T`.

Inductions over data (the rounds of `Lit`, `Reach` and `SimpleWalks`, the folds over a batch, the steps
of a wait cycle) are inductions over sets of natural numbers: a set without a least
member is empty (`LeastMember`), which the library's theorem on well-founded relations gives
without an operator as parameter. So what a recursive function computes is proved by
its least counterexample. No operator is declared `RECURSIVE`.

Every invariant of a passing run, every action property and the refinement are proved.
Only model-checked is liveness, which is out of the prover's reach: `Terminates`, `Finishes`,
`RequestsEnd` and `ExpiredArePurged`. What the runs with an expected violation show are
counterexamples, and need no proof.

## Not modelled

* Splitters, identity, inventory, measurements, settings, customers on the server:
  writes of single rows decided by a version check, a unique index or a foreign
  key, which turn a lost race into an error; the version check they share is
  `Serve` of `Records`. The exceptions are listed as hazards: two administrators
  demoted at once, a login beside a deactivation.
* Attachments: files saved before the commit, with compensation and a reconciler
  run by hand.
* The optical budget: floating-point arithmetic, which TLC does not have.
* Parsers and writers of file formats, reports, metrics, backup tools, rate
  limiter, audit trail, HTTP plumbing: I/O and formatting, or state nobody else reads.
* In the browser: creation of records, lists without a cache, searching, sorting,
  paging, layers, icons and the simulated cut, which asks nothing.
* Geometry, lengths, losses, labels, notes and everything else that no decision
  of a modelled handler depends on.

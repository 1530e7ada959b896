# Verification of jumbox

This directory holds TLA+ specifications of jumbox, a server for file transfers
on a local network, with the TLC configurations that check them on small
instances and the proofs that TLAPS checks for every instance. Paths such as
`sessions_service.py:310` name files of the repository by their last component;
`PROJECT.json` gives, for every definition that models code, the full path and
the lines.

Contents: [the system](#1-the-system), [the modules](#2-the-modules),
[the runs](#3-the-runs), [fairness](#4-fairness), [the proofs](#5-the-proofs),
[disagreements and other observations](#6-what-the-models-showed),
[what is not modelled](#7-what-is-not-modelled), [plan](#8-plan).

To check a run: `tlc -config <run>.cfg <module>`; to check the proofs: `tlapm`
on `ChunkUpload_proofs.tla`, `BrowserUpload_proofs.tla`,
`SessionLifecycle_proofs.tla`, `ChunkLifecycle_proofs.tla`,
`Accounts_proofs.tla`, `ShareCodes_proofs.tla`, `Transfers_proofs.tla` and
`RateLimiter_proofs.tla`.

## 1. The system

jumbox is one asyncio process (FastAPI) with a relational database (SQLite in
the standalone mode, PostgreSQL on a server), a directory of uploaded files, a
directory of temporary files, optionally Redis, and a page in the browser.
Handlers interleave at every `await`; file operations run in worker threads.
There are no locks: what protects state is the order of the steps in a handler,
and the database's own locking inside one unit of work.

| Component | State | Operations | Talks to |
|---|---|---|---|
| Browser upload engine (`static/app.js`, `uploadFileResumable`) | offset, attempt, the request it waits for | initialise, probe, send a chunk, retry with back-off | the chunk routes, over HTTP |
| Resumable chunk uploads (`append_item_chunk`, `ChunkStorage`) | `temp/<session>/<item>.part`, the stored file, the item row | append at an offset, hash, move, complete; offset probe; `delete_part` | item and session rows, the disk |
| Transfer sessions (`SessionService`) | session row (status, expiry, burn flag), item rows, files | create, upload in one request or in chunks, look up by code, download and burn, delete | persistence, file storage |
| Session domain (`domain/sessions.py`) | none: status of a session from those of its items | `status`, `mark_*` | all of the above |
| Background cleanup (`CleanupService`) | none between passes | remove expired sessions, expired transfers, old temporary files | rows and files of everyone else |
| Single transfers (`TransferService`) | transfer rows, `uploads/<owner>_<name>` | upload, register a finished file, resolve, mark downloaded | persistence, file storage |
| Legacy chunked uploads (`ChunkedUploadService`) | session in Redis with a byte count, `temp/<owner>_<name>.part` | create, append (no offset), complete | Redis, `TransferService` |
| Rate limiter (middleware) | per client and route, a list of times | admit or refuse | the wall clock |
| Persistence (repositories, unit of work) | the tables | `add`, `merge`, `delete`, queries | SQLite or PostgreSQL |
| Local file storage | the uploads directory | `save_upload`, `delete` | worker threads |
| Accounts (`AuthService`, `security.py`, `get_current_user`) | user rows; signed tokens held by clients | register, log in, accept a token without a look at the table | persistence; every route that needs an owner |
| Share codes (`create_session`, `_create_unique_transfer_code`, `get_by_code`) | the unique code columns of sessions and transfers | draw a code and look for it, insert, resolve, save the copy found | accounts, persistence |
| Folders, search, pages, headers, settings, logging | folders | insert, list | persistence |

What is hard in it:

- *Stale copies.* A repository's `save` is an SQLAlchemy `merge` of a copy read
  earlier, possibly in another unit of work: it overwrites what was committed
  since, and inserts the row again if it has been deleted.
- *Check, then act.* The part's size is compared with the client's offset in
  the event loop, the bytes are appended later in a thread; the part is hashed
  and moved in two steps; a download is admitted now and burned after the
  response.
- *Two stores.* A file operation and a commit are never atomic. A crash or an
  error between them leaves one without the other.
- *Retries.* The page repeats requests whose answer it did not get, and, when
  the connection breaks, requests that are still being carried out.
- *Two databases.* SQLite takes a write lock at the first UPDATE of a unit of
  work and, as `PRAGMA foreign_keys` is never set, does not cascade; PostgreSQL
  (READ COMMITTED) lets commits in between two statements, and cascades.
- *Unique columns.* Registrations and searches for a free code look first and
  insert later; only the unique column decides between two that looked at once.

What makes each part correct: a part file is a beginning of the file; what is
published is the file, with its checksum, and stays published; the page calls
ready only what is stored; a session's end (expiry, burn, deletion) is final,
whatever is still in progress, and comes when it is due; a transfer's row tells
the truth about its file; who is let in with a token the service answered is an
account of a database under the URL at work, and an account once answered stays
as it was made; a code once answered leads to its share alone; the limiter's
window holds at most the limit. The hazards against these, each at its line, are
in `PROJECT.json`.

## 2. The modules

| Module | Models |
|---|---|
| `SessionDomain` | the states of sessions and items; `DerivedStatus` is the property `TransferSession.status` (used by `ChunkUpload`) |
| `UploadPromise` | abstract specification: what the upload of one item promises its owner |
| `ChunkUpload` | the server's side of one resumable item, its session row, deletion, cleanup, expiry, crash |
| `BrowserUpload` | the page's engine and the network, composed with `ChunkUpload` |
| `SessionOffer` | abstract specification: what a session promises those who have its code |
| `SessionLifecycle` | a session with uploads of both kinds, downloads and burns, lookups, deletion, cleanup, expiry, crash, on either database |
| `ChunkLifecycle` | one resumable upload from its initialisation on: the handlers of `ChunkUpload` shown to do what `SessionLifecycle` says of an upload |
| `Accounts` | registration, login, tokens, restarts on another database |
| `ShareCodes` | sessions and transfers under their codes, composed with `Accounts` |
| `Transfers` | single transfers, legacy chunked uploads, their downloads and both cleanups |
| `RateLimiter` | the sliding window with two clocks |
| `ChunkUpload_proofs`, `BrowserUpload_proofs`, `SessionLifecycle_proofs`, `ChunkLifecycle_proofs`, `Accounts_proofs`, `ShareCodes_proofs`, `Transfers_proofs`, `RateLimiter_proofs` | theorems and proofs |
| `MC...` | the TLC instances: symmetry sets and functions used as constants |

A step of a model is what a handler does between two awaits that let others
run, one file operation of a worker thread, or one committed unit of work. A
unit of work that reads, awaits and writes is two steps (`Load`/`Save`), the
second writing the copy that the first one read. Where a step changes the
database, a file or Redis, it may fail instead, leaving what the code leaves,
background tasks, deletions and cleanups included. (A step that only reads and
fails ends its request with nothing done. Some modules have a step for it; in the
others it is a request that stops where it is, as is a download of `Transfers`
whose save fails: no property there expects it to go on.)

**ChunkUpload.** `part` and `stored` are the two files, `item` and `session`
the two rows, `req` the PATCH handlers in progress, each with its program
counter, chunk, copy of the item and computed hash; `del` and `cln` are the
deletion and the cleanup. The steps of a handler follow `append_item_chunk`
line by line: `AdmitMissing/Expired/Item` (first unit of work; one that finds
the session past its expiry saves the copy it read as expired, `SaveExpired`,
which inserts a row that has gone meanwhile), `Check`
(compare sizes in the event loop), `Write` or `WriteFails` (worker thread; a
failed write leaves any beginning of the chunk), `Hash`, `Move`, then `Load`
and `SaveProgress/SaveCompleted/SaveMissing` (second unit of work; `Mergeable`
says when the merge inserts an item that has gone); a refused offset takes
`AnswerConflict`, and any other step may fail (`StepFails`). The deletion looks
for the part when there is an item's row to find it by (`DeleteStart`), removes
it (`DeletePart`) or fails to, which the code swallows (`DeletePartFails`), and
deletes the rows (`DeleteRow`, `DeleteFails`); a cleanup may fail at either of
its steps (`CleanupFails`). A byte of the file is its position, so a content is a
sequence of positions and `<<1,2,2,3>>` is a file with a repeated byte; a SHA-256
is the content it was computed from. One thing is coarser than the code: `Hash`
reads the part once for its checksum and its size, where `finalize_chunk_upload`
asks the file system for the size after hashing (`chunk_storage.py:58`); only
with overlapping requests can the two differ. `Next` lets any number of requests
overlap; `SerialNext` starts a request only when no handler is at work, which
is how the page behaves as long as no connection breaks under a working handler
(the property `OneAtATime` of `BrowserUpload`, checked and proved, says exactly
that).

**UploadPromise** knows four things: what was received, what was filed, whether
it is published, and whether the offer is withdrawn. `ChunkUpload` implements it
(`KeepsPromise`) with `received` the part file, `file` the stored file,
`published` the item's `storage_path`, and `withdrawn` the session's expiry or
deletion. The mapping hides the values once the offer is withdrawn: the owner or
the clock has ended it.

**BrowserUpload** extends `ChunkUpload`: `Send` is its `Receive` done by the
page, `Answered` its `Finish`. The engine probes the offset once, sends a chunk
at a time, after a 409 probes again, and gives a chunk `MaxRetries` attempts.
`ProbeAnswers` is whether the offset route answers the page: as shipped the page
sends the probe without its token and gets a 401 (`FALSE`); with `TRUE` the
probe works as the tests and the README suppose. The network may lose a request,
an answer, or the connection while the handler works (`LossKinds`).

**SessionLifecycle** has one session, items uploaded in one request (`Items`)
and items uploaded in chunks (`Resumables`). Contents are abstracted to "item
`i` has a file" and "has a part" (`disk`, `parts`); of the statuses only what is
read again is kept: a session's row is `"live"` or `"expired"`, an item's
`"begun"` or `"published"` (has a storage path). What it keeps in full are the
rows, the merges and the two databases: `postgres`, chosen in `Init`, selects
cascading deletes, foreign keys that refuse an item's row, and commits between
the statements of a unit of work. A resumable upload is `"open"` between two
chunk requests; its requests come one at a time here, with contents, offsets and
overlaps left to `ChunkUpload`. Every unit of work may fail: that of an upload
(`UploadFails`, `StoreFails`, `AppendFails`, `MoveFails`), after which
`MarkFailed` saves an item uploaded in one request and may bring its row back; a
burn or the saving of an expiry (`DownloadFails`), the deletion
(`DeletionFails`) and the cleanup (`CleanupFails`). A download that finds the
session over its expiry, or expired, saves it as such, which is also what a
lookup by code does. `burned`, `removed` (who removed the row first) and `excused`
(items whose part a deletion may leave: it is in use by a chunk request, comes
after the deletion, or could not be unlinked) are history. A crash ends every
handler; a download it ends is `"failed"`.

**SessionOffer** has a `phase` (open, closed by a download, over) and the items
`offered`. `SessionLifecycle` implements it (`KeepsOffer`): an item once offered
stays so until the session is over, nothing is offered again after that, and a
single-use session closes once and for all. The exception it has to make is
visible in it: on PostgreSQL (`stale`) a closed session may be opened again.

**ChunkLifecycle** joins the two accounts of a resumable upload. It extends
`ChunkUpload` by the request that initialises the item (`InitAdmit`,
`InitExpire`, `InitInsert`, `InitFails`) and by the history variables of
`SessionLifecycle`, and shows (`KeepsLifecycle`) that every step of the handlers
is a step of `SessionLifecycle`, or none: the bytes, offsets and checksums are
forgotten, a program counter becomes the step it stands for (`StepOf`), the
item's row becomes `"begun"` or `"published"`, the files become "the item has
one". A deletion that fails to unlink the part (`KeepPart`) is excused for it. A
failed write and a refused offset are both `AppendFails` there, and the look at
the offset that follows a refusal belongs to the append. Its two other
properties are what `SessionLifecycle` says of sessions and deletions, in the
terms of the handlers. It holds on SQLite: on PostgreSQL `SessionLifecycle` lets
a commit come between the two statements of the finalisation, which
`ChunkUpload` has as one step.

**Accounts** has per database the rows of users, the registrations in progress,
and the tokens not yet past their expiry. A registration is three steps (look,
insert, answer); the unique column is the test in `RegisterInsert`, which may
fail for other reasons too. A hash tells only which password it is of, a
signature only by which key; the key depends on the database's URL, as in
`get_token_service`, and `UrlOf` may give several databases one URL: the default
URL is a relative path (`settings.py:45`), which leads elsewhere from another
directory, or to a file made anew. `RestartAccounts` starts the process again,
perhaps on another database, under the same URL or another one. The tokens are
those the service answered; section 7 has the others.

**ShareCodes** extends `Accounts`: a creation begins with an identity taken from
an accepted token (`CurrentUsers`), draws codes and looks for them with the
bounds of the two searches, and inserts. What the code does not look at is
kept: the session code drawn after the last look is inserted unchecked, and a
transfer's code passes when its owner already holds it. An insert may fail, for
a code taken, for an owner without a row (the foreign key of PostgreSQL) or for
the database's own reasons, and so may a reader's save. Readers resolve a code
and save the copy they found, by a merge; a transfer's download resolves its
code twice. Codes are members of a set, and removal is `Remove`, any deletion or
cleanup that has committed.

**Transfers** counts in chunks. A post opens its file for writing (`PostOpen`:
what was there is gone), writes it and registers a row. A chunk request of the
legacy protocol reads its session (`Receive`), appends in the event loop
(`AppendChunk`), opens the file again in a thread (`Reopen`; the code really
calls `write_chunks` twice), then saves the session or moves, hashes, registers
and forgets it. Any step after the first may fail (`RequestFails`). `Sweep` is the
cleanup of orphaned temporary files, which may take the file of an upload that
has paused for an hour, also under a request that has read the session and is
about to append. `PathOf` says which sources
share a stored name. `begun`, `overlapped`, `repeated`, `again` and `swept` are
history and say what befell an upload.

**RateLimiter** has the elapsed time and `time.time()` as separate clocks; a
list of `_history` is the set of the positions, in the order of admission, that
it still holds. A request is one step: `dispatch` has no await between reading
and writing the list. The client is whoever `X-Forwarded-For` says it is, when
that header is there (`rate_limiter.py:27`), and the route one of the configured
prefixes: the limit is one per value of the header, which the caller chooses.

## 3. The runs

Twelve runs; the four named as violations are described in section 6.

| Run | Distinct states | Shows |
|---|---|---|
| `ChunkLifecycle` | 1,028,000 | one item from its initialisation to its removal, one chunk request at a time: `PartIsPrefix`, `PublishedIsWhole`, `ServedMatchesChecksum`, `PublicationIsFinal`, `NeverServedAgain`, `NoPartLeft`, and two refinements, `KeepsPromise` of `UploadPromise` and `KeepsLifecycle` of `SessionLifecycle`, through failed writes, failed steps, crashes, repeated and stale offsets, a second upload of the same item, expiry, deletion and cleanup, also ones that fail |
| `ChunkUploadRaces` | 6,355,000 | with two requests at a time, on PostgreSQL, which promises survive: `DeclaredChecksumKept`, `PublishedHasFile` |
| `BrowserShipped` | 37,000 | the page as shipped, with lost requests and answers and a failing or crashing server: `ReadyMeansStored`, and `OneAtATime` (the composed system is a behaviour of `SerialSpec`, so that what is proved of it holds here) |
| `BrowserCuts` | 1,836,000 | with broken connections, hence overlapping handlers, and a probe that is answered: `EngineEnds` (liveness) |
| `Lifecycle` | 711,000 | an upload of each kind, a download with its burn, a deletion and the cleanup, each of which may fail, on both databases: `PublishedHasFile`, `RemovedStaysClosed`, `BurnedStaysExpired`, `DeletionLeavesNoPart`, the refinement `KeepsOffer`; liveness `ServedIsBurned` and `ExpiredIsRemoved` |
| `ShareCodesRaces` | 689,000 | two registrations, two creations and a reader that race, and a restart that finds the same database, another one under the same URL, or one under another URL: `LetInIsAccount`, `RegisteredKeepsAccount`, `OwnersAreAccounts`, `AnsweredCodeIsItsShare`, `MarksWhatItServes` |
| `TransfersInterleaved` | 3,277,000 | two posts of one name, or a chunked upload with two requests at a time: `StoredAsRecorded`, `WholeUnlessRepeated`, `RemovedWithItsFile` |
| `RateLimiterWindow` | 176,000 | `WithinLimit`, `RetryAfterIsRight` |

Bounds, and why they are enough:

- *File sizes.* `Size = 3` bytes with every pair of offsets gives chunks that
  begin, continue and end the file, empty chunks, a chunk that fails half way
  and stale or repeated ones; what the theorems add is every size. In the races
  `Size = 1` is enough to append twice, finalise twice and hash what another
  request is still writing. `BrowserShipped` has `Size = 3`, `ChunkSize = 2`: a
  full chunk and a short last one.
- *Overlap.* Two requests for an item, in the races and for the page: a cut
  connection leaves one handler at work and the page sends one more.
  (`ChunkUploadRaces` is symmetric in them.)
- *Databases.* `Cascade`, whether a session's deletion takes the item's row with
  it, is `TRUE` in the races and `FALSE` in the other runs of `ChunkUpload`;
  `SessionLifecycle` chooses the database in `Init`. The theorems cover both,
  those of `ChunkLifecycle` SQLite.
- *Attempts, losses, faults.* `MaxRetries` is 2 or 3 instead of 5, with as many
  losses and faults as attempts, so that both the recovery after a fault and the
  exhaustion of the attempts occur. A deletion or cleanup that fails is no
  request's fault and is not counted. `ChunkUpload` itself bounds neither faults
  nor crashes nor requests.
- *Sessions.* One item of each kind: enough for one upload's save to undo what
  another handler saved. One download, which can come again as long as it is
  refused, and which competes with both uploads, the deletion and the cleanup;
  `LifecycleServedTwice` has the two downloads its question needs. Crashes
  and failing units of work are not bounded. The theorems cover any number of
  each.
- *Handlers in their session.* As requests come one at a time, one of them is
  enough: it begins anew when it is over. Faults and crashes are not bounded.
- *Codes and accounts.* Two of everything that can collide (e-mails, passwords,
  registrations, codes, creations), two databases under one URL and a third
  under another, one reader, one restart; two looks instead of 5 and 20, so that
  a creation runs out of them. The theorems cover all bounds.
- *Transfers.* Two posts on one path; one upload of two chunks (a first and a
  completing one) with two requests; two registrations of it; two faults. The
  theorems cover all of these bounds.
- *Rate limiter.* Two requests in six ticks, time for more than two windows and
  two set-backs. `Second = 2` gives times between whole seconds, which the
  truncation in Retry-After needs.

Deadlock is checked for `ChunkUpload` and `RateLimiter`, whose systems never
stop; the runs of the others say `CHECK_DEADLOCK FALSE`, as the page, the
uploads and downloads of an instance can all be over.

`TransfersInterleaved` states exceptions, and each is needed: dropping any one
of "no other source has its path", "no two requests at a time", "not completed
twice" from `StoredAsRecorded` or `RemovedWithItsFile`, or "no repeated chunk"
or "no sweep" from `WholeUnlessRepeated`, gives a counterexample. What the
properties say is that the list is complete: failures, crashes, the expiry of
the Redis session, downloads that save stale rows and the cleanup do no damage
of their own.

Every property of a passing run has a mutant in the modules: a definition
written as a plausible bug would have it, next to the definition it replaces and
marked `Mutant`. With it the run fails.

## 4. Fairness

Only liveness properties use it, and only two specifications state it.

- `BrowserUpload`: weak fairness of the engine (a page that is open runs its
  loop), of each handler and of the delivery of its answer (the event loop runs
  every coroutine to its end, also when the client has gone), and of a deletion
  that has begun. None of losses, faults, the clock, the cleanup, or of the
  owner's wish to delete. `BrowserCuts` has no server faults, because with a
  crash or a failure in the middle of a deletion the engine need not
  end (section 6).
- `SessionLifecycle`: weak fairness of three things only. The background burn,
  once its download has been served, runs to its end or its failure; an upload
  that has computed the session's status commits it (a removal waits for it; if
  the unit of work fails, the model has it fail before, with nothing done); the
  cleanup passes, which `main.py` runs in an endless loop that survives
  exceptions (Celery's schedule does with Redis), follow one another. None of
  users starting anything, of the other steps of their requests, of deletions,
  of time passing, or of crashes. `ServedIsBurned` excuses a crash and a
  background task in which the database failed, since nothing runs a burn a
  second time; `ExpiredIsRemoved` excuses cleanups that fail, or are cut short
  by a crash, again and again.

`ChunkUpload`, `Transfers`, `Accounts`, `ShareCodes` and `RateLimiter` have
safety properties only.

## 5. The proofs

`ChunkUpload_proofs` proves, for every `Size`, every set of `Requests`, both
values of `Cascade`, and without a bound on faults:

- `TypeCorrect`: `Spec => []TypeOK`. The inductive invariant `TypeInv` adds that
  a request's offsets are in order and that a handler past its first unit of
  work holds a copy of the item.
- `DeclaredChecksumIsKept`: `Spec => []DeclaredChecksumKept`, with any number of
  overlapping requests. The strengthening `DeclaredInv` says that every copy of
  the item a handler holds carries the declared checksum, and that a computed
  hash that passed the comparison equals it.
- `PublishedFilesAreThere` of `Spec`, for `PublishedHasFile`, from `FileInv`: a
  handler about to publish has moved a file that is still there, and so has one
  that holds a copy of a published row (`Backed`), until the session is due; only
  then may a cleanup be under way (`CleanupIsDue`).
- `SerialPartIsPrefix`, `SerialPublishedIsWhole`, `SerialPublicationIsFinal` of
  `SerialSpec`, from `SerialInv`:
  - `AtMostOne`: at most one handler is not idle;
  - `CleanupIsDue`: a cleanup pass in progress means the session has expired
    (so that its deletion of the stored file is not seen by a download);
  - `GoneTogether`: when the item of a handler about to save has gone, so has the
    session, so that its merge cannot bring the item back;
  - unless the part was discarded by a deletion, `PartSound` (the part is a
    beginning of the file), `StoredSound` (the stored file, once there, is the
    whole file, in the states a publication can follow), `ItemSound` (a
    published item has its size and checksum) and `HandlerSound` (per step, what
    the handler holds fits the disk: at `write` the part ends at its offset, at
    `hash` and `move` the part is the whole file, after a move the stored file
    is).

  The invariants the runs check are not inductive by themselves: that a chunk is
  appended at the right place follows from a comparison made two steps earlier,
  and `HandlerSound` carries it across.
- `SerialServedMatches` of `SerialSpec`, for `ServedMatchesChecksum`, from
  `SumInv`. `PublishedIsWhole` does not give it, as it says nothing once a
  deletion has taken the part: there the file may be the end of an upload only.
  `NamesFile` says that a published row names the stored file while that can be
  served; `Follows` says per step what the handler adds: the copy it compares
  with carries the checksum of the published row, the part it moves is the one
  it hashed, and the file it moved is the one it is about to publish.
- `SerialKeepsPromise`: `SerialSpec => Promise!Spec`. Each step maps to a step of
  `UploadPromise` or to a stutter: `Write` and `WriteFails` to `Accept`, `Move`
  to `File`, `SaveCompleted` to `Publish`, expiry and deletion to `Withdraw`.

`BrowserUpload_proofs` carries this over to the page, for every size of the file
and of chunks, number of attempts, losses of requests and answers, and number of
failing steps and crashes. `NeverCut` says that no connection breaks under a
working handler; a hypothesis is needed, as `BrowserCut` shows.

- `PageIsSerial`, for `OneAtATime`: the page with its server is a behaviour of
  `SerialSpec`. The inductive `PageInv` ties the two sides: a handler that is not
  idle is that of the request the engine waits for (`Awaited`), and the part is
  never longer than the file, even when a deletion took it from under a handler
  about to append (`OffsetFits`), so that a probe gives an offset in the file.
- `PageTypeCorrect`, for `BrowserTypeOK`; `PageKeepsPromise`: page and server
  together implement `UploadPromise`.
- `ReadyIsPublished`, for `ReadyMeansStored`, with the probe as the page sends it
  and a file that is not empty (section 6 has the counterexamples without). The
  inductive `ReadyInv` says that while the session stands the request that ends
  the file still carries its end, has hashed and moved the part when it comes to
  the second unit of work, and is answered with 200 only after the row was saved
  with its path (`Carries`); and that a publication lasts until the engine has
  seen it.
- `PageServedMatches`, of `ServedMatchesChecksum`: under `NeverCut` the run
  `BrowserCut` has no counterexample, for any losses and faults.
- `FailureHasAReason`, for `FailsForAReason`: with a probe that is answered the
  engine past its first probe fails only after as many losses and faults as
  attempts. The inductive `ReasonInv` says, while the session stands, that no
  handler has a reason of its own to refuse (`Unopposed`: the item is there, no
  copy holds a foreign checksum), and that every attempt used up was met by a
  loss or a fault, the one that is failing now included (`Charged`). A conflict
  costs no attempt, as the probe resolves it: that is the hypothesis the run
  `BrowserLostAnswer` lacks. (No passing run states it; with `ProbeAnswers = TRUE`
  in `BrowserShipped.cfg` TLC finds it to hold.)

`SessionLifecycle_proofs` proves, for any number of items of either kind, of
downloads and of crashes, and on both databases:

- `TypeCorrect`: the inductive `TypeInv` adds that a single-request upload is
  never at a step of a chunk request, hence has no part.
- `PublishedItemsHaveFiles`, `RemovedSessionsStayClosed`,
  `BurnedSessionsStayExpired`, for `PublishedHasFile`, `RemovedStaysClosed` and
  `BurnedStaysExpired`, from one inductive invariant `SafeInv`:
  - `RowsAreRemoved`, `ItemsAreRemoved`: rows go by removal only, the cleanup
    works only on a session that is due, and a handler about to mark the session
    expired has a reason to;
  - `FilesBehind`: what is published, or about to be, has its file unless the
    session is due or removed;
  - `StatusesHeld`: only PostgreSQL has a status computed and not yet saved, and
    while there is one the row is there (a deletion waits for the item's row);
  - `ClosedWhenRemoved`, `ClosedWhenBurned`: after a removal no copy is live,
    in the table or in a handler; after a burn on SQLite the table's is not;
  - `OnlySingleCloses`: before the session is over only a single-use one is
    expired, or held as expired by a handler.

  None of the three properties is inductive: an upload may hold a status that it
  saves after a deletion or a burn, and the argument is about which statuses
  handlers can hold.
- `DeletionsLeaveNoPart`: `DeletionLeavesNoPart`, from `PartsAccounted`: until
  the deletion every part belongs to an item's row, so that a deletion, repeated
  after a crash or a failure if need be, finds all of them, and removes all but
  those it excuses.
- `SessionKeepsOffer`: `Spec => Offer!Spec`. `UploadSave` maps to `Publish`,
  `BurnSave` to `Burn`, `UploadSession` on PostgreSQL to `Reopen`, `TimePasses`
  and the commits of deletion and cleanup to `Finish`, everything else to a
  stutter.

The safety theorems rest on lemmas that assume the initial states and the steps
only (`SafeOfSteps`, `RemovalOfSteps`, `DeletionOfSteps`), without fairness, so
that they can be applied to whatever implements the steps.

`ChunkLifecycle_proofs` does that. For every size and set of requests, and any
number of crashes, on SQLite (`~Cascade`):

- `HandlersKeepLifecycle`, for `KeepsLifecycle`: each step of the handlers maps
  to a step of `SessionLifecycle` or to a stutter. The invariant `LifeInv` has
  what the mapping needs: there is at most one chunk request (`AtMostOne`) and
  none before the item is there (`Opened`), the item's row outlives its
  session's, a handler about to save the session as expired has a reason, and
  its copy of the row is still the row (`Held`). The abstract module saves rows
  without reading copies, so the last is why a serial client's stale copies do
  no harm.
- `HandlersNeverServeAgain`, `HandlersLeaveNoPart`, for `NeverServedAgain` and
  `NoPartLeft`: not proved anew but taken from `SessionLifecycle_proofs`, which
  is instantiated under the refinement mapping, its assumptions on constants
  shown to hold (`LifecycleIsApplied`). What `NoPartLeft` excuses is therefore
  what `DeletionLeavesNoPart` does: overlapping and later chunk requests, and an
  unlink that failed.
- `HandlersServeTheFile` (`PartIsPrefix`, `PublishedIsWhole`,
  `ServedMatchesChecksum`), `HandlersKeepPublication` (`PublicationIsFinal`) and
  `HandlersKeepPromise` (`KeepsPromise`): what the run `ChunkLifecycle` checks
  besides. Every step is a step of a serial client, for which the lemmas of
  `ChunkUpload_proofs` are there, or one of the initialisation; before that has
  inserted the item there is none (`NotYet`) and nobody is at work, so it can
  neither undo a publication nor surprise a handler.

`ShareCodes_proofs` (with the lemmas of `Accounts_proofs`) proves, for all sets
of e-mails, passwords, databases, registrations, codes, creations and readers,
any number of restarts and any bounds of the searches:

- `SharesKeepToAccounts`: `Spec => AccountsSpec`, so that what the lemmas say of
  `Accounts` holds in the composition.
- `OnlyAccountsAreLetIn`, `AnsweredAccountsAreKept`, from `AccountsInv`: e-mails
  are unique in a database (`EmailsAreUnique`), a registration about to be
  answered, or answered, has its row (`RowsAreThere`), and every token, also one
  signed before a restart, is about a row of some database that its key is of
  (`TokensAreSigned`). `UrlOf` is any assignment of URLs: where it is injective
  the theorem speaks of the database at work itself.
- `TypeCorrect`, `EveryShareHasItsOwner`, `CodesLeadToTheirShares`,
  `DownloadsMarkWhatTheyServe`, from `CodesInv`: the row of a creation has an
  owner in a database under its own URL (`MakersOK`), a row in a table is the
  one its creation inserted, and stays until it is removed (`SharesAreMade`),
  codes are unique per database and table (`CodesAreUnique`), and a copy in a
  reader's hands is of the row its share was created with (`ReadersOK`).
  `CodesAreUnique` holds because every insertion, a merge's included, passes the
  unique column, and because a save that finds its row writes what is there:
  that takes `ReadersOK` and `SharesAreMade`.

`Transfers_proofs` proves, for any posts and uploads, any assignment of stored
names to them, any numbers of chunks, requests in progress, downloads,
registrations and faults:

- `TypeCorrect`: `TypeInv` adds what each step of a request knows of its locals,
  so that only a request with chunks to come saves the session.
- `RowsTellTheTruth`, `RemovedTransfersLeaveNoFile`, for `StoredAsRecorded` and
  `RemovedWithItsFile`. Two invariants carry them:
  - `ReachInv`: nothing is kept of, or under way for, a source that was not
    begun (`BeginningsFirst`); rows, copies of rows and lists of rows are of
    registrations, and the cleanup lists only what is due (`RowsAreMade`); two
    requests of one upload make it an overlapped one (`OneAtATime`);
  - `FilesSound`: of a source none of the three exceptions befell, the stored
    file is what a row, a download's copy of a row or a request about to register
    says of it, as long as it is not due, and a file the cleanup has deleted
    stays away.

  The copies make neither property inductive: a download may write a row back
  after its removal, and a request registers a checksum it computed steps before.
- `UploadsArePublishedWhole`, for `WholeUnlessRepeated`, from `WholeInv`: of an
  upload that is in order, what the client was told is at most what the session
  counts, which is at most what was sent; when the session counts all that was
  sent, the temporary file is that prefix of the upload (`InOrder`); a request's
  step says which prefix the temporary file is and that the count of the session
  is still the one it read (`InStep`); and every row and every copy of one is the
  right one (`RowsRight`). There is no second completion (`again`) among them,
  since a chunk sent after the registration is a repeated one; so the property
  need not except it.

`RateLimiter_proofs` proves, for all clients, routes, limits, windows and
resolutions of the clock, and any number of set-backs:

- `LimiterTypeCorrect`, `LimitIsKept`, `AdviceIsRight`, for `TypeOK`,
  `WithinLimit` and `RetryAfterIsRight`. The inductive invariant `RInv` is
  - `TypeInv`;
  - `ClockInv`: every entry lies in the past, the entries are in the order of
    their admission in elapsed time, and by the wall clock an entry looks at
    most as old as it is (a clock set back only makes entries look younger);
  - `DroppedInv`: a request the list no longer holds is as old as the window;
  - `ToldInv`: what the last refusal said, in terms of the entries, which stay
    as they are until a request is admitted;
  - `WithinLimit` itself.

  The core of the argument is `AdmitWithinLimit`: a request is admitted when
  fewer than the limit are fresh, so the one that lies the limit before it has
  been dropped or is dropped now, and is a window old in elapsed time, since it
  is at least as old as it looks.

The proofs assume of the constants what the `ASSUME`s say (sizes are naturals,
limits, windows and chunks are positive, sentinels differ from values, the two
kinds of items, and posts and uploads, are disjoint); TLC evaluates these in
every run. Everything else is derived, but for the hypotheses of the theorems
about the page (`NeverCut`, `ProbeAnswers`) and about the handlers in their
session (`~Cascade`), which are stated in them.

Only model-checked: liveness (`EngineEnds`, `ServedIsBurned`,
`ExpiredIsRemoved`), which is out of the proof system's reach, as is ENABLED.
Every invariant, action property and refinement that the passing runs check is
also proved. No theorem rests on induction over data: a file's content is a
sequence, or a prefix of one, that the invariants speak of as a whole.

## 6. What the models showed

Four runs state what a document of the repository says, and find it violated by
what the code does.

- `BrowserLostAnswer` (`FailsForAReason`). The README promises an upload that
  "recovers seamlessly from network drops", the changelog retries. After one
  lost answer the retried chunk is a 409, the page probes the offset without its
  token, gets a 401, and so on until its attempts are used up. With an answered
  probe the promise holds: `FailureHasAReason`.
- `BrowserCut` (`ServedMatchesChecksum`). A connection that breaks under a
  working handler lets the retry overlap it; both append, or one hashes what the
  other changes, and a completed item is served with a checksum that is not its
  file's. The broken connection is the only way to it: `PageServedMatches`.
- `LifecycleServedTwice` (`ServedOnce`). A single-use session is burned by a
  background task after the response; a second download admitted before is
  served.
- `LifecycleNotPurged` (`PurgedFromDisk`). `burn_session` calls `storage.delete`
  with a string where it takes a `StoredFile`; the exception is swallowed and the
  file stays on disk: an item is published, downloaded and burned, and its file
  is there when everything has ended. The property speaks of published items of a
  burned session; `delete_session` makes the same call, with the same effect.

Seen by changing a constant or a property, and kept here only in words:

- `ReadyMeansStored` is false for a file of zero bytes (`app.js:333`: the page
  says ready, nothing completes the item), and, with an answered probe, after
  one server fault behind the last append: the part is complete, the probe tells
  the page so, and no request is left that would finalise it
  (`sessions_service.py:310`). With the unanswered probe the page reports a
  failure instead.
- On PostgreSQL `BurnedStaysExpired` is false: an upload that computed the
  session's status before the burn saves it after it (`sessions_service.py:176`);
  this is the `Reopen` that `SessionOffer` has to allow.
- A burned session still accepts uploads: they ask only whether `expires_at` has
  passed, not for the status. `KeepsOffer` says that what they publish is not
  served as long as the session stays closed.
- A save of a stale copy brings a deleted session row back, marked expired
  (`repositories/sessions.py:33`); the next cleanup removes it.
- An upload that finishes after its session was cleaned up leaves a file that no
  row names (`sessions_service.py:154`); the cleanup of expired sessions removes
  stored files but not parts, and the cleanup of orphaned temporary files looks
  only at files directly in its directory, while parts lie one level deeper
  (`cleanup_service.py:71`). `DeletionLeavesNoPart` and `NoPartLeft` are stated
  for the owner's deletion only, and excuse parts of requests that overlap or
  follow it, and parts that could not be unlinked: that exception is swallowed
  (`sessions_service.py:111`) and the rows that name the part are deleted.
- A burn whose unit of work fails is not tried again, and the single-use session
  stays open to the next download (`sessions_service.py:77`,
  `routes/sessions.py:305`). The properties except it; without that
  `ServedIsBurned` is false.
- A token outlives its database: after a restart on a new file under the same URL
  its holder is let in without a row there, and on SQLite, which checks no
  foreign key, creates shares whose owner has none (`dependencies.py:39`,
  `settings.py:45`). `LetInIsAccount` and `OwnersAreAccounts` therefore speak of
  the databases under one URL; stated of the database at work both are false when
  two share a URL.
- One file that cannot be deleted ends `cleanup_all` before anything is
  committed, at every pass (`cleanup_service.py:51`): hence the exception of
  `ExpiredIsRemoved` for cleanups that fail for ever.
- The session code drawn after the fifth look is not looked up, and a transfer's
  code passes when its owner holds it already (`sessions_service.py:60`,
  `transfers_service.py:175`). No code leads astray, as the unique columns refuse
  the row, but the request ends in a 500.
- `EngineEnds` is false when a connection is cut and a deletion fails, or the
  process crashes, between `delete_part` and the deletion of the row: the part
  starts again from nothing while a stale handler appends to it.
- In `Transfers`: two posts of one owner and name share a file; a repeated
  legacy chunk is appended twice; an upload whose session outlives its
  registration can be completed again, and replaces the registered file by the
  chunks sent since; the second `open("ab")` of `write_chunks` recreates a part
  that has been moved away; a pause of more than an hour loses the beginning of
  an upload whose session lives on (`cleanup_service.py:74`);
  `mark_downloaded` may insert a removed row again,
  until the next cleanup.

## 7. What is not modelled

- *Download counter, timestamps, permissions, lists, search, metadata, QR
  codes*: no property of the modelled state depends on them; lists, search and
  metadata are queries.
- *Folders*: one insert and queries. Nothing is kept between steps and nothing
  is decided by a folder; a transfer's folder is a column nobody updates.
- *`TransferStatus`*: the code writes it and never decides by it.
- *Formats of hashes, tokens and codes*: a hash tells which password it is of, a
  signature by which key it is, a code is a member of a set.
- *Other settings in the signing key*: `Accounts` varies the database and its URL
  and keeps the application's name and the Redis URL fixed.
- *Tokens the service did not answer*: whoever knows those three settings, whose
  defaults are in `settings.py`, can sign tokens, and the tests do, for users that
  have no row (`tests/conftest.py:42`, `tests/test_standalone.py:48`). `Accounts`
  assumes that every token was answered by the service, and says nothing of who
  is let in otherwise.
- *Who a client of the limiter is*: an address, or what `X-Forwarded-For` says.
  Of the prefixes with a limit of their own, `/api/v1/sessions/code` matches no
  route of the application, so nothing is ever counted under it.
- *The second look at a part's size* when it is finalised (`chunk_storage.py:58`):
  one step with the hash.
- *Contents of a download response*: the file is opened by the framework after
  the handler returns; a download is one `Serve` step.
- *Two processes on one directory* (Celery's cleanup with Redis): the cleanup is
  a process of its own in the models, so that it may be either; two cleanups at a
  time are not modelled.
- *Pages, health, security headers, settings, logging, schemas, migrations*:
  static answers and declarations.

## 8. Plan

What the models leave to do, in the order of its worth:

1. The refinement of `ChunkLifecycle` on PostgreSQL, for which `ChunkUpload`
   has to take the finalisation's two statements apart as `SessionLifecycle`
   does.
2. Overlapping chunk requests under the same mapping: `SessionLifecycle` would
   need a set of requests per upload in the place of one.

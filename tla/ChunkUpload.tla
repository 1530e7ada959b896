----------------------------- MODULE ChunkUpload -----------------------------
(***************************************************************************)
(* The server's side of one resumable item: PATCH .../chunks (route        *)
(* upload_item_chunk, SessionService.append_item_chunk, ChunkStorage), and *)
(* what else touches the item's part file, its stored file and its row:    *)
(* deletion of the session, the periodic cleanup, the passing of the       *)
(* expiry time and a crash of the process.                                 *)
(*                                                                         *)
(* The server is one asyncio process.  An action is what runs between two  *)
(* awaits, or one file operation in a worker thread, or one committed unit *)
(* of work; anything else may run between two actions of a request.        *)
(*                                                                         *)
(* Abstractions.                                                           *)
(*  - The file being sent is <<1, ..., Size>>: a byte is its position, so  *)
(*    a content is a sequence of positions, and a SHA-256 is the content   *)
(*    it was computed from (no collisions).                                *)
(*  - Requests are well formed and sent by the owner: Upload-Offset is i   *)
(*    and the body is the file's bytes from i to j.                        *)
(*  - A session row is [row, due, status]: whether it exists, whether its  *)
(*    expires_at has passed, its status column.                            *)
(*  - repository.save is SELECT, compare, UPDATE; here it is one step that *)
(*    overwrites the row with the caller's copy, or brings it back.        *)
(***************************************************************************)
EXTENDS Naturals, Sequences, SessionDomain

CONSTANTS
    Size,       \* total_size_bytes declared when the item was initialised
    Requests,   \* handlers of PATCH requests that may be in progress at once
    Cascade,    \* TRUE: deleting a session row deletes its items' rows
                \* (PostgreSQL); FALSE: it leaves them (SQLite without
                \* PRAGMA foreign_keys, the standalone mode)
    None,       \* no file, no checksum, no row
    Wrong       \* a declared checksum that is not that of the file

ASSUME SizeAssumption == Size \in Nat
ASSUME CascadeAssumption == Cascade \in BOOLEAN
\* The bytes of the file from offset i up to offset j.
Slice(i, j) == [k \in 1 .. (j - i) |-> i + k]

Whole == Slice(0, Size)

Contents == Seq(1 .. Size)

\* expected_sha256 of init_resumable_item.
Declarable == {None, Whole, Wrong}

VARIABLES
    part,       \* content of temp/<session>/<item>.part, or None
    stored,     \* content of uploads/<session>/<item>_<name>, or None
    item,       \* the item's row, or None
    session,    \* the session's row
    declared,   \* the checksum declared when the item was initialised
    req,        \* the PATCH handlers in progress
    del,        \* progress of DELETE /sessions/{id}
    cln,        \* progress of cleanup_expired_sessions
    discarded   \* history: delete_part has removed the part

disk == <<part, stored>>
rows == <<item, session>>
vars == <<part, stored, item, session, declared, req, del, cln, discarded>>

-----------------------------------------------------------------------------
\* Rows and local state

Items == [status : ItemStatus, size : Nat,
          sha : Contents \cup {None, Wrong}, path : BOOLEAN]

ASSUME SentinelAssumption ==
    None \notin Contents /\ Wrong \notin Contents /\ None # Wrong
    /\ None \notin Items

Sessions == [row : BOOLEAN, due : BOOLEAN, status : SessionStatus]

Steps == {"idle", "admit", "expire", "check", "write", "hash", "move", "load", "save",
          "probe", "done"}

Codes == {"none", "ok", "conflict", "notfound", "gone", "bad", "error"}

\* What a handler holds: the chunk, the copy of the item it read last, the
\* hash it computed (None until then) and the answer it will give.
Handlers == [pc : Steps, from : 0 .. Size, to : 0 .. Size,
             snap : Items \cup {None}, sha : Contents \cup {None},
             code : Codes]

NoRequest == [pc |-> "idle", from |-> 0, to |-> 0, snap |-> None,
              sha |-> None, code |-> "none"]

NoCleanup == [pc |-> "idle", path |-> FALSE]

Init ==
    /\ part = None
    /\ stored = None
    /\ declared \in Declarable
    /\ item = [status |-> "queued", size |-> Size, sha |-> declared,
               path |-> FALSE]
    /\ session = [row |-> TRUE, due |-> FALSE, status |-> "pending"]
    /\ req = [r \in Requests |-> NoRequest]
    /\ del = "idle"
    /\ cln = NoCleanup
    /\ discarded = FALSE

\* ChunkStorage.get_offset, and current_size of append_chunk.
Offset == IF part = None THEN 0 ELSE Len(part)

\* What open("ab") finds.
Existing == IF part = None THEN <<>> ELSE part

-----------------------------------------------------------------------------
\* PATCH /sessions/{session_id}/items/{item_id}/chunks

At(r, pc) == req[r].pc = pc
Goto(r, pc) == req' = [req EXCEPT ![r].pc = pc]

\* From here on the handler uses nothing but the hash it computed, if any ...
Conclude(r, pc, sha) ==
    req' = [req EXCEPT ![r] = [NoRequest EXCEPT !.pc = pc, !.sha = sha]]

\* ... or nothing but its answer.
Answer(r, code) ==
    req' = [req EXCEPT ![r] = [NoRequest EXCEPT !.pc = "done", !.code = code]]

\* A request arrives: offset and body are those of a piece of the file.
Receive(r, i, j) ==
    /\ At(r, "idle")
    /\ i <= j
    /\ req' = [req EXCEPT ![r] =
                  [NoRequest EXCEPT !.pc = "admit", !.from = i, !.to = j]]
    /\ UNCHANGED <<disk, rows, declared, del, cln, discarded>>

\* The first unit of work of append_item_chunk.
AdmitMissing(r) ==
    /\ At(r, "admit")
    /\ ~session.row \/ (~session.due /\ item = None)
    /\ Answer(r, "notfound")
    /\ UNCHANGED <<disk, rows, declared, del, cln, discarded>>

AdmitExpired(r) ==
    /\ At(r, "admit")
    /\ session.row /\ session.due
    /\ Conclude(r, "expire", None)
    /\ UNCHANGED <<disk, rows, declared, del, cln, discarded>>

\* The copy read is saved, an INSERT when the row has gone since.
SaveExpired(r) ==
    /\ At(r, "expire")
    /\ session' = [row |-> TRUE, due |-> TRUE, status |-> "expired"]
    /\ Answer(r, "gone")
    /\ UNCHANGED <<disk, item, declared, del, cln, discarded>>

AdmitItem(r) ==
    /\ At(r, "admit")
    /\ session.row /\ ~session.due /\ item # None
    /\ req' = [req EXCEPT ![r].pc = "check", ![r].snap = item]
    /\ UNCHANGED <<disk, rows, declared, del, cln, discarded>>

\* Mutant: the offset the client sent is not compared with the part's size.
CheckNothing(r) ==
    /\ At(r, "check")
    /\ Goto(r, "write")
    /\ UNCHANGED <<disk, rows, declared, del, cln, discarded>>

\* append_chunk up to the worker thread: compare the part's size, in the
\* event loop, with the offset the client sent.
Check(r) ==
    /\ At(r, "check")
    /\ Goto(r, IF Offset = req[r].from THEN "write" ELSE "probe")
    /\ UNCHANGED <<disk, rows, declared, del, cln, discarded>>

\* The 409 branch of the route reads the offset again, which needs the
\* session and the item: an exception raised there is a 500.
AnswerConflict(r) ==
    /\ At(r, "probe")
    /\ Answer(r, IF session.row /\ item # None THEN "conflict" ELSE "error")
    /\ UNCHANGED <<disk, rows, declared, del, cln, discarded>>

\* Mutant: off by one, the last byte is not waited for.
LastChunkEarly(q) == q.to + 1 >= q.snap.size /\ q.snap.size > 0

\* Does this chunk complete the item?  The size is that of the copy read in
\* the first unit of work.
LastChunk(q) == q.to >= q.snap.size /\ q.snap.size > 0

\* Mutant: the part is opened with "wb" instead of "ab".
WriteTruncating(r) ==
    /\ At(r, "write")
    /\ part' = Slice(req[r].from, req[r].to)
    /\ IF LastChunk(req[r]) THEN Goto(r, "hash") ELSE Conclude(r, "load", None)
    /\ UNCHANGED <<stored, rows, declared, del, cln, discarded>>

\* The worker thread appends the chunk.
Write(r) ==
    /\ At(r, "write")
    /\ part' = Existing \o Slice(req[r].from, req[r].to)
    /\ IF LastChunk(req[r]) THEN Goto(r, "hash") ELSE Conclude(r, "load", None)
    /\ UNCHANGED <<stored, rows, declared, del, cln, discarded>>

\* The write stops half way (disk full, I/O error): an OSError, a 500.
WriteFails(r) ==
    /\ At(r, "write")
    /\ \E m \in req[r].from .. req[r].to :
          part' = Existing \o Slice(req[r].from, m)
    /\ Answer(r, "error")
    /\ UNCHANGED <<stored, rows, declared, del, cln, discarded>>

\* Mutant: the declared hash is not compared.
HashIgnored(q, content) == TRUE

\* finalize_chunk_upload: hash the part and compare with the declared hash.
HashMatches(q, content) == q.snap.sha \in {None, content}

Hash(r) ==
    /\ At(r, "hash")
    /\ part # None
    /\ IF HashMatches(req[r], part)
       THEN Conclude(r, "move", part)
       ELSE Answer(r, "bad")
    /\ UNCHANGED <<disk, rows, declared, del, cln, discarded>>

\* finalize_chunk_upload: move the part to its final place.
Move(r) ==
    /\ At(r, "move")
    /\ part # None
    /\ stored' = part
    /\ part' = None
    /\ Conclude(r, "load", req[r].sha)
    /\ UNCHANGED <<rows, declared, del, cln, discarded>>

\* The part has been removed by someone else: FileNotFoundError, a 500.
PartVanished(r) ==
    /\ At(r, "hash") \/ At(r, "move")
    /\ part = None
    /\ Answer(r, "error")
    /\ UNCHANGED <<disk, rows, declared, del, cln, discarded>>

\* The second unit of work reads the item again ...
Load(r) ==
    /\ At(r, "load")
    /\ req' = [req EXCEPT ![r].pc = "save", ![r].snap = item]
    /\ UNCHANGED <<disk, rows, declared, del, cln, discarded>>

\* ... and writes it back by merge, which INSERTs an item that has gone since:
\* the foreign key allows that only if an expired copy of the session has been
\* saved after its deletion.
Mergeable(r) == req[r].snap # None /\ (item # None \/ session.row)

\* A missing item is an AttributeError in the route, one whose session has gone
\* an IntegrityError.
SaveMissing(r) ==
    /\ At(r, "save")
    /\ ~Mergeable(r)
    /\ Answer(r, "error")
    /\ UNCHANGED <<disk, rows, declared, del, cln, discarded>>

\* Mutant: an item that is uploaded again loses its storage path.
SaveProgressReset(r) ==
    /\ At(r, "save")
    /\ req[r].sha = None
    /\ Mergeable(r)
    /\ item' = [req[r].snap EXCEPT !.status = "uploading", !.path = FALSE]
    /\ Answer(r, "ok")
    /\ UNCHANGED <<disk, session, declared, del, cln, discarded>>

\* mark_uploading and save_item.
SaveProgress(r) ==
    /\ At(r, "save")
    /\ req[r].sha = None
    /\ Mergeable(r)
    /\ item' = [req[r].snap EXCEPT !.status = "uploading"]
    /\ Answer(r, "ok")
    /\ UNCHANGED <<disk, session, declared, del, cln, discarded>>

\* Mutant: the session is the copy read when the request was let in.
SaveCompletedStale(r) ==
    /\ At(r, "save")
    /\ req[r].sha # None
    /\ Mergeable(r)
    /\ item' = [status |-> "completed", size |-> Len(req[r].sha),
                sha |-> req[r].sha, path |-> TRUE]
    /\ session' = [session EXCEPT !.row = TRUE, !.status = "ready"]
    /\ Answer(r, "ok")
    /\ UNCHANGED <<disk, declared, del, cln, discarded>>

\* mark_completed, the final size, save_item, and the session's status.
SaveCompleted(r) ==
    /\ At(r, "save")
    /\ req[r].sha # None
    /\ Mergeable(r)
    /\ item' = [status |-> "completed", size |-> Len(req[r].sha),
                sha |-> req[r].sha, path |-> TRUE]
    /\ session' = IF session.row
                  THEN [session EXCEPT
                          !.status = DerivedStatus(@, {"completed"})]
                  ELSE session
    /\ Answer(r, "ok")
    /\ UNCHANGED <<disk, declared, del, cln, discarded>>

\* A database or file operation of the handler raises: a 500, nothing done.
StepFails(r) ==
    /\ req[r].pc \notin {"idle", "done"}
    /\ Answer(r, "error")
    /\ UNCHANGED <<disk, rows, declared, del, cln, discarded>>

\* The answer leaves the server.
Finish(r) ==
    /\ At(r, "done")
    /\ req' = [req EXCEPT ![r] = NoRequest]
    /\ UNCHANGED <<disk, rows, declared, del, cln, discarded>>

Handle(r) ==
    \/ AdmitMissing(r) \/ AdmitExpired(r) \/ SaveExpired(r) \/ AdmitItem(r)
    \/ Check(r) \/ AnswerConflict(r)
    \/ Write(r) \/ Hash(r) \/ Move(r) \/ PartVanished(r)
    \/ Load(r) \/ SaveMissing(r) \/ SaveProgress(r) \/ SaveCompleted(r)

Fault(r) == WriteFails(r) \/ StepFails(r)

-----------------------------------------------------------------------------
\* DELETE /sessions/{session_id}.  storage.delete is called with a string
\* where it expects a StoredFile; the AttributeError is swallowed, so the
\* stored file stays.  delete_part does remove the part.

\* Mutant: delete_part is called for an item with a storage path only.
DeleteStartStored ==
    /\ del = "idle"
    /\ session.row
    /\ del' = IF item # None /\ item.path THEN "part" ELSE "row"
    /\ UNCHANGED <<disk, rows, declared, req, cln, discarded>>

\* delete_session has read the session with its items.
DeleteStart ==
    /\ del = "idle"
    /\ session.row
    /\ del' = IF item = None THEN "row" ELSE "part"
    /\ UNCHANGED <<disk, rows, declared, req, cln, discarded>>

DeletePart ==
    /\ del = "part"
    /\ part' = None
    /\ discarded' = TRUE
    /\ del' = "row"
    /\ UNCHANGED <<stored, rows, declared, req, cln>>

\* An exception of delete_part is swallowed, and the rows go all the same.
DeletePartFails ==
    /\ del = "part"
    /\ del' = "row"
    /\ UNCHANGED <<disk, rows, declared, req, cln, discarded>>

\* repository.delete_by_id, for the session's only item.
RowsDeleted ==
    /\ session' = [session EXCEPT !.row = FALSE]
    /\ item' = IF Cascade THEN None ELSE item

DeleteRow ==
    /\ del = "row"
    /\ RowsDeleted
    /\ del' = "idle"
    /\ UNCHANGED <<disk, declared, req, cln, discarded>>

\* The database fails: the rows stay, without the part.
DeleteFails ==
    /\ del = "row"
    /\ del' = "idle"
    /\ UNCHANGED <<disk, rows, declared, req, cln, discarded>>

-----------------------------------------------------------------------------
\* cleanup_expired_sessions: list the expired sessions with their items,
\* delete the stored file of each item that had one when listed, then the
\* row.  The part file is left; cleanup_orphaned_temp_files looks only at the
\* files directly under temp/, and a part lies one directory deeper.

\* Mutant: the cleanup takes every session.
CleanupListAny ==
    /\ cln.pc = "idle"
    /\ session.row
    /\ LET hasFile == item # None /\ item.path IN
          cln' = [pc |-> IF hasFile THEN "file" ELSE "row", path |-> hasFile]
    /\ UNCHANGED <<disk, rows, declared, req, del, discarded>>

CleanupList ==
    /\ cln.pc = "idle"
    /\ session.row /\ session.due
    /\ LET hasFile == item # None /\ item.path IN
          cln' = [pc |-> IF hasFile THEN "file" ELSE "row", path |-> hasFile]
    /\ UNCHANGED <<disk, rows, declared, req, del, discarded>>

CleanupFile ==
    /\ cln.pc = "file"
    /\ stored' = None
    /\ cln' = [cln EXCEPT !.pc = "row"]
    /\ UNCHANGED <<part, rows, declared, req, del, discarded>>

CleanupRow ==
    /\ cln.pc = "row"
    /\ RowsDeleted
    /\ cln' = NoCleanup
    /\ UNCHANGED <<disk, declared, req, del, discarded>>

\* The file cannot be deleted, or the database fails: a matter of the next
\* cleanup.
CleanupFails ==
    /\ cln.pc # "idle"
    /\ cln' = NoCleanup
    /\ UNCHANGED <<disk, rows, declared, req, del, discarded>>

-----------------------------------------------------------------------------
\* The environment

TimePasses ==
    /\ ~session.due
    /\ session' = [session EXCEPT !.due = TRUE]
    /\ UNCHANGED <<disk, item, declared, req, del, cln, discarded>>

\* The process stops and starts again: rows and files stay.
Crash ==
    /\ req' = [r \in Requests |-> NoRequest]
    /\ del' = "idle"
    /\ cln' = NoCleanup
    /\ UNCHANGED <<disk, rows, declared, discarded>>

-----------------------------------------------------------------------------
HousekeepingFails == DeletePartFails \/ DeleteFails \/ CleanupFails

Housekeeping ==
    \/ DeleteStart \/ DeletePart \/ DeleteRow
    \/ CleanupList \/ CleanupFile \/ CleanupRow
    \/ HousekeepingFails
    \/ TimePasses \/ Crash

\* Any number of requests for the item at once.
Next ==
    \/ \E r \in Requests, i, j \in 0 .. Size : Receive(r, i, j)
    \/ \E r \in Requests : Handle(r) \/ Fault(r) \/ Finish(r)
    \/ Housekeeping

Spec == Init /\ [][Next]_vars

\* A client that sends the next request when the last one is answered or
\* failed: the discipline of the loop in app.js while no connection is cut
\* under a request the server is still working on.
AllIdle == \A r \in Requests : At(r, "idle")

SerialNext ==
    \/ \E r \in Requests, i, j \in 0 .. Size : AllIdle /\ Receive(r, i, j)
    \/ \E r \in Requests : Handle(r) \/ Fault(r) \/ Finish(r)
    \/ Housekeeping

SerialSpec == Init /\ [][SerialNext]_vars

-----------------------------------------------------------------------------
\* Properties

\* Every variable holds a value of its kind.
TypeOK ==
    /\ part \in Contents \cup {None}
    /\ stored \in Contents \cup {None}
    /\ item \in Items \cup {None}
    /\ session \in Sessions
    /\ declared \in Declarable
    /\ req \in [Requests -> Handlers]
    /\ del \in {"idle", "part", "row"}
    /\ cln \in [pc : {"idle", "file", "row"}, path : BOOLEAN]
    /\ discarded \in BOOLEAN

\* A download may be served: get_session_item finds the session, neither
\* past its expiry nor marked expired.
Servable == session.row /\ ~session.due /\ session.status # "expired"

Published == item # None /\ item.path

\* The checksum declared when the item was initialised is never replaced by
\* another one, whatever the requests in progress: append_item_chunk stores
\* the computed hash in the column it was checked against.
DeclaredChecksumKept ==
    declared # None /\ item # None => item.sha = declared

\* While the session can be downloaded from, an item with a storage_path has
\* its file: the move precedes the row, and only the cleanup of an expired
\* session removes files.
PublishedHasFile == Servable /\ Published => stored # None

\* With one request at a time, what the part file holds is a beginning of
\* the file, across failed writes, crashes and retries.
PartIsPrefix ==
    ~discarded /\ part # None => part = Slice(0, Len(part))

\* With one request at a time, a published item is the file that was sent,
\* whole, with its size and its checksum: no failed write, crash, retry,
\* second upload of the same item or cleanup publishes anything else.
PublishedIsWhole ==
    ~discarded /\ Servable /\ Published =>
        /\ stored = Whole
        /\ item.sha = Whole
        /\ item.size = Size

\* With one request at a time a published item stays published with the same
\* checksum until its row is deleted, even when it is uploaded again.
PublicationIsFinal ==
    [][Published /\ item' # None /\ ~discarded'
          => Published' /\ item'.sha = item.sha]_vars

\* The promise this module keeps when requests do not overlap.  It ends when
\* the session is no longer servable or its deletion has begun.
Withdrawn == discarded \/ ~Servable

Promise == INSTANCE UploadPromise WITH
    received  <- IF Withdrawn THEN <<>> ELSE Existing,
    file      <- IF Withdrawn THEN None ELSE stored,
    published <- ~Withdrawn /\ Published,
    withdrawn <- Withdrawn

\* With one request at a time the handlers, with their failed writes, crashes,
\* retries and second uploads, implement the promise: received bytes are not
\* lost before the whole file is filed, and what is published is the file.
KeepsPromise == Promise!Spec

\* README: "End-to-End Integrity ... to protect against corrupted transfers".
\* The file served for a completed item is the one its checksum names.
ServedMatchesChecksum ==
    Servable /\ Published /\ item.status = "completed" => stored = item.sha

=============================================================================

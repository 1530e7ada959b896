--------------------------- MODULE SessionLifecycle ---------------------------
(***************************************************************************)
(* One transfer session from its creation to its removal: single-request   *)
(* uploads (SessionService.upload_item), resumable ones (init_resumable_   *)
(* item and append_item_chunk, a chunk request at a time: ChunkUpload has  *)
(* their contents, offsets and overlaps), downloads with the burn that     *)
(* follows them, lookups by code, deletion by the owner, the periodic      *)
(* cleanup of expired sessions, the clock and crashes.                     *)
(*                                                                         *)
(* repository.save is a merge: SELECT by key, then UPDATE with the copy    *)
(* the caller read earlier, or INSERT when the row has gone.  A step here  *)
(* is one committed unit of work, one read in a unit of work whose write   *)
(* comes after another await, or one file operation.                       *)
(*                                                                         *)
(* Two databases.  On SQLite the write lock taken by the first UPDATE      *)
(* lasts until the commit, and no item row is deleted with its session     *)
(* (PRAGMA foreign_keys is never set).  On PostgreSQL (READ COMMITTED)     *)
(* another commit may come between two statements of a unit of work, and   *)
(* rows cascade; a DELETE of the session waits for a unit of work that has *)
(* updated one of its items.                                               *)
(*                                                                         *)
(* Left out: the download counter and the owner's permissions.             *)
(***************************************************************************)
EXTENDS Naturals, FiniteSets

CONSTANTS
    Items,      \* the items that will be uploaded in one request each
    Resumables, \* the items that will be uploaded in chunks
    Downloads,  \* the downloads that will be attempted
    None

All == Items \cup Resumables

\* Of a session's status only EXPIRED is ever read: any other is computed anew
\* from the items (DerivedStatus in SessionDomain).
SessionRows == {"live", "expired"}

\* Of an item only its storage_path is.
ItemRows == {"begun", "published"}

ASSUME LifecycleAssumption ==
    /\ Items \cap Resumables = {}
    /\ None \notin SessionRows \cup ItemRows \cup All

VARIABLES
    postgres,   \* which database
    row,        \* the session's row, or None
    burn,       \* burn_after_download
    due,        \* expires_at has passed
    item,       \* per item its row, or None
    disk,       \* the items that have a file in the uploads directory
    parts,      \* the items that have a part in the temporary directory
    up,         \* the uploads: step, and the session status about to be saved
    dl,         \* the downloads: step, and the item
    del,        \* a deletion by the owner: step, and the parts still to go
    cln,        \* the cleanup: step, and the files it has listed
    burned,     \* history: burn_session has committed
    removed,    \* history: who removed the row first
    excused     \* history: items with a chunk request under way when the
                \* owner's deletion began, or admitted since, or whose part
                \* could not be deleted

settings == <<postgres, burn>>
files == <<disk, parts>>
handlers == <<up, dl, del, cln>>
history == <<burned, removed, excused>>
vars == <<settings, row, due, item, files, handlers, history>>

-----------------------------------------------------------------------------
\* Between two requests a resumable upload is "open".
UploadSteps == {"idle", "expire", "insert", "file", "load", "save", "session",
                "open", "append", "progress", "note", "move", "done"}
DownloadSteps == {"idle", "expire", "serve", "burnload", "burnsave", "done", "failed"}

NoCleanup == [pc |-> "idle", files |-> {}]
NoDeletion == [pc |-> "idle", parts |-> {}]

\* The state after create_session.
Init ==
    /\ postgres \in BOOLEAN /\ burn \in BOOLEAN
    /\ row = "live" /\ due = FALSE
    /\ item = [i \in All |-> None]
    /\ disk = {} /\ parts = {}
    /\ up = [i \in All |-> [pc |-> "idle", status |-> None]]
    /\ dl = [d \in Downloads |-> [pc |-> "idle", item |-> None]]
    /\ del = NoDeletion /\ cln = NoCleanup
    /\ burned = FALSE /\ removed = "nobody" /\ excused = {}

Published(i) == item[i] = "published"

\* get_session_item lets a download through.
Servable == row = "live" /\ ~due

\* A foreign key refuses the row of an item; merge INSERTs one that has gone.
Refused(i) == postgres /\ row = None /\ item[i] = None

\* Mutant: the copy is saved without its new status.
SaveUnmarked == row' = IF row = None THEN "live" ELSE row

\* sessions.save of a copy whose status has been set to EXPIRED: an UPDATE, or
\* an INSERT when the row has been deleted since the copy was read.
SaveExpired == row' = "expired"

\* Mutant: an expired session's status follows its items too.
RecomputedFresh(status) == "live"

\* TransferSession.status of the copy that an upload saves.
Recomputed(status) == IF status = "expired" THEN "expired" ELSE "live"

-----------------------------------------------------------------------------
\* Uploads: SessionService.upload_item, init_resumable_item, append_item_chunk

\* What no upload changes.
beside == <<settings, due, dl, del, cln, burned, removed>>

UpTo(i, pc) == up' = [up EXCEPT ![i] = [pc |-> pc, status |-> None]]

\* Where the requests of an upload end.
Rest(i) == IF i \in Items THEN "done" ELSE "open"

\* upload_item or init_resumable_item lets the request in.
UploadAdmit(i) ==
    /\ up[i].pc = "idle"
    /\ UpTo(i, IF row = None THEN "done" ELSE IF due THEN "expire" ELSE "insert")
    /\ UNCHANGED <<beside, row, item, files, excused>>

UploadExpire(i) ==
    /\ up[i].pc = "expire"
    /\ SaveExpired
    /\ UpTo(i, Rest(i))
    /\ UNCHANGED <<beside, item, files, excused>>

\* Mutant: the item is inserted with its storage path, before its file.
UploadInsertPublished(i) ==
    /\ up[i].pc = "insert"
    /\ item' = [item EXCEPT ![i] = "published"]
    /\ UpTo(i, IF i \in Items THEN "file" ELSE "open")
    /\ UNCHANGED <<beside, row, files, excused>>

\* add_item and commit.
UploadInsert(i) ==
    /\ up[i].pc = "insert"
    /\ IF Refused(i)
       THEN UpTo(i, "done") /\ UNCHANGED item
       ELSE /\ item' = [item EXCEPT ![i] = "begun"]
            /\ UpTo(i, IF i \in Items THEN "file" ELSE "open")
    /\ UNCHANGED <<beside, row, files, excused>>

\* Mutant: a copy is left in the temporary directory.
StoreFileCopy(i) ==
    /\ up[i].pc = "file"
    /\ disk' = disk \cup {i} /\ parts' = parts \cup {i}
    /\ UpTo(i, "load")
    /\ UNCHANGED <<beside, row, item, excused>>

StoreFile(i) ==
    /\ up[i].pc = "file"
    /\ disk' = disk \cup {i}
    /\ UpTo(i, "load")
    /\ UNCHANGED <<beside, row, item, parts, excused>>

\* mark_failed changes nothing but the item's status, but its merge may insert
\* the row of an item that has gone since it was read.
MarkFailed(i) ==
    \/ UNCHANGED item
    \/ item[i] = None /\ ~Refused(i) /\ item' = [item EXCEPT ![i] = "begun"]

\* The write fails; a file, cut short, may be left.
StoreFails(i) ==
    /\ up[i].pc = "file"
    /\ disk' \in {disk, disk \cup {i}}
    /\ MarkFailed(i)
    /\ UpTo(i, "done")
    /\ UNCHANGED <<beside, row, parts, excused>>

\* A chunk request is let in; expired or not is all it asks of the session.
PatchAdmit(i) ==
    /\ up[i].pc = "open"
    /\ row # None /\ (due \/ item[i] # None)
    /\ UpTo(i, IF due THEN "expire" ELSE "append")
    /\ excused' = IF del.pc = "row" \/ removed = "owner" THEN excused \cup {i} ELSE excused
    /\ UNCHANGED <<beside, row, item, files>>

\* The last chunk is followed by the finalisation, another one by mark_uploading.
Append(i) ==
    /\ up[i].pc = "append"
    /\ parts' = parts \cup {i}
    /\ UpTo(i, "progress") \/ UpTo(i, "move")
    /\ UNCHANGED <<beside, row, item, disk, excused>>

\* The offset is refused, or the write fails.
AppendFails(i) ==
    /\ up[i].pc = "append"
    /\ parts' \in {parts, parts \cup {i}}
    /\ UpTo(i, "open")
    /\ UNCHANGED <<beside, row, item, disk, excused>>

ProgressLoad(i) ==
    /\ up[i].pc = "progress"
    /\ UpTo(i, IF item[i] = None THEN "open" ELSE "note")
    /\ UNCHANGED <<beside, row, item, files, excused>>

\* Mutant: mark_uploading takes the publication of an earlier upload back.
ProgressSaveAnew(i) ==
    /\ up[i].pc = "note"
    /\ item' = [item EXCEPT ![i] = "begun"]
    /\ UpTo(i, "open")
    /\ UNCHANGED <<beside, row, files, excused>>

\* save_item keeps the path that was read; of an item that has gone since, it
\* may be either.
ProgressSave(i) ==
    /\ up[i].pc = "note"
    /\ IF Refused(i)
       THEN UNCHANGED item
       ELSE \E copy \in ItemRows :
               /\ item[i] \in {None, copy}
               /\ item' = [item EXCEPT ![i] = copy]
    /\ UpTo(i, "open")
    /\ UNCHANGED <<beside, row, files, excused>>

\* finalize_chunk_upload
Move(i) ==
    /\ up[i].pc = "move" /\ i \in parts
    /\ disk' = disk \cup {i} /\ parts' = parts \ {i}
    /\ UpTo(i, "load")
    /\ UNCHANGED <<beside, row, item, excused>>

\* The part has gone, has another checksum, or cannot be moved.
MoveFails(i) ==
    /\ up[i].pc = "move"
    /\ UpTo(i, "open")
    /\ UNCHANGED <<beside, row, item, files, excused>>

\* When the item has gone upload_item fails; append_item_chunk still saves the
\* session, which is there only when an expired copy brought it back.
UploadLoad(i) ==
    /\ up[i].pc = "load"
    /\ UpTo(i, IF item[i] # None THEN "save"
               ELSE IF i \in Items \/ row = None THEN Rest(i) ELSE "expire")
    /\ UNCHANGED <<beside, row, item, files, excused>>

\* mark_completed and save_item, then the session's status is computed; on
\* SQLite it is saved under the same lock, on PostgreSQL in a later step.
UploadSave(i) ==
    /\ up[i].pc = "save"
    /\ ~Refused(i)
    /\ item' = [item EXCEPT ![i] = "published"]
    /\ IF row # None /\ postgres
       THEN up' = [up EXCEPT ![i] = [pc |-> "session", status |-> Recomputed(row)]]
            /\ UNCHANGED row
       ELSE UpTo(i, Rest(i)) /\ row' = IF row = None THEN None ELSE Recomputed(row)
    /\ UNCHANGED <<beside, files, excused>>

UploadSession(i) ==
    /\ up[i].pc = "session"
    /\ row' = up[i].status
    /\ UpTo(i, Rest(i))
    /\ UNCHANGED <<beside, item, files, excused>>

UploadSaveRefused(i) ==
    /\ up[i].pc = "save"
    /\ Refused(i)
    /\ UpTo(i, Rest(i))
    /\ UNCHANGED <<beside, row, item, files, excused>>

\* The database fails, and nothing of the unit of work is done.  (Where the
\* unit has two steps here, it fails at the first.)
UploadFails(i) ==
    /\ up[i].pc \in {"expire", "insert", "load", "save", "progress", "note"}
    /\ UpTo(i, IF up[i].pc = "insert" THEN "done" ELSE Rest(i))
    /\ IF i \in Items /\ up[i].pc \in {"load", "save"} THEN MarkFailed(i) ELSE UNCHANGED item
    /\ UNCHANGED <<beside, row, files, excused>>

Upload(i) ==
    \/ UploadAdmit(i) \/ UploadExpire(i) \/ UploadInsert(i) \/ UploadFails(i)
    \/ StoreFile(i) \/ StoreFails(i)
    \/ PatchAdmit(i) \/ Append(i) \/ AppendFails(i)
    \/ ProgressLoad(i) \/ ProgressSave(i) \/ Move(i) \/ MoveFails(i)
    \/ UploadLoad(i) \/ UploadSave(i) \/ UploadSaveRefused(i) \/ UploadSession(i)

-----------------------------------------------------------------------------
\* GET /sessions/{code}/items/{item_id}/download, and the burn after it

DownTo(d, pc) == dl' = [dl EXCEPT ![d] = [pc |-> pc, item |-> None]]

\* The session can be served, the item is published and its file exists.
DownloadAdmit(d, i) ==
    /\ dl[d].pc = "idle"
    /\ Servable /\ Published(i) /\ i \in disk
    /\ dl' = [dl EXCEPT ![d] = [pc |-> "serve", item |-> i]]
    /\ UNCHANGED <<settings, row, due, item, files, up, del, cln, history>>

\* Neither a session past its expiry nor one that has been burned is served; a
\* lookup by code (get_session_by_code) does the same with the former.
DownloadExpired(d) ==
    /\ dl[d].pc = "idle"
    /\ row # None /\ ~Servable
    /\ DownTo(d, "expire")
    /\ UNCHANGED <<settings, row, due, item, files, up, del, cln, history>>

DownloadExpire(d) ==
    /\ dl[d].pc = "expire"
    /\ SaveExpired
    /\ DownTo(d, "idle")
    /\ UNCHANGED <<settings, due, item, files, up, del, cln, history>>

\* The response; background tasks run after one that was sent.
Serve(d) ==
    /\ dl[d].pc = "serve"
    /\ DownTo(d, IF burn /\ dl[d].item \in disk THEN "burnload" ELSE "done")
    /\ UNCHANGED <<settings, row, due, item, files, up, del, cln, history>>

BurnLoad(d) ==
    /\ dl[d].pc = "burnload"
    /\ DownTo(d, IF row = None THEN "done" ELSE "burnsave")
    /\ UNCHANGED <<settings, row, due, item, files, up, del, cln, history>>

\* record_download, EXPIRED, save, commit.  storage.delete is then called with
\* a string instead of a StoredFile and its exception swallowed: no file goes.
BurnSave(d) ==
    /\ dl[d].pc = "burnsave"
    /\ SaveExpired
    /\ burned' = TRUE
    /\ DownTo(d, "done")
    /\ UNCHANGED <<settings, due, item, files, up, del, cln, removed, excused>>

\* The database fails.  The burn is a task that is run once, after the response:
\* nothing takes it up again.
DownloadFails(d) ==
    /\ dl[d].pc \in {"expire", "burnload", "burnsave"}
    /\ DownTo(d, IF dl[d].pc = "expire" THEN "idle" ELSE "failed")
    /\ UNCHANGED <<settings, row, due, item, files, up, del, cln, history>>

Download(d) ==
    \/ \E i \in All : DownloadAdmit(d, i)
    \/ DownloadExpired(d) \/ DownloadExpire(d)
    \/ Serve(d) \/ BurnLoad(d) \/ BurnSave(d) \/ DownloadFails(d)

-----------------------------------------------------------------------------
\* Removal: delete_session, cleanup_expired_sessions

\* Mutant: an upload saves the session's status in a unit of work of its own,
\* for which a deletion does not wait.
DeleteRowsAtOnce(who) ==
    /\ row' = None
    /\ item' = IF postgres THEN [i \in All |-> None] ELSE item
    /\ removed' = IF row # None /\ removed = "nobody" THEN who ELSE removed

\* DELETE of the session's row.  On PostgreSQL it waits for uncommitted
\* updates of the items it cascades to.
DeleteRows(who) ==
    /\ \A i \in All : up[i].pc # "session"
    /\ row' = None
    /\ item' = IF postgres THEN [i \in All |-> None] ELSE item
    /\ removed' = IF row # None /\ removed = "nobody" THEN who ELSE removed

\* The chunk requests that the deletion about to begin overlaps.
Overlapping == (IF removed = "owner" THEN excused ELSE {})
                  \cup {i \in Resumables : up[i].pc = "append"}

\* Mutant: delete_part is called for items with a storage path only.
DeleteStartStored ==
    /\ del.pc = "idle"
    /\ row # None
    /\ del' = [pc |-> "row", parts |-> {i \in Resumables : Published(i)}]
    /\ excused' = Overlapping
    /\ UNCHANGED <<settings, row, due, item, files, up, dl, cln, burned, removed>>

\* delete_session has read the session with its items.
DeleteStart ==
    /\ del.pc = "idle"
    /\ row # None
    /\ del' = [pc |-> "row", parts |-> {i \in Resumables : item[i] # None}]
    /\ excused' = Overlapping
    /\ UNCHANGED <<settings, row, due, item, files, up, dl, cln, burned, removed>>

\* delete_part, whose exceptions are swallowed.  For an item with a path,
\* storage.delete(str) before it fails again: no file goes.
DeletePart(i) ==
    /\ i \in del.parts
    /\ \/ parts' = parts \ {i} /\ UNCHANGED excused
       \/ UNCHANGED parts /\ excused' = excused \cup {i}
    /\ del' = [del EXCEPT !.parts = @ \ {i}]
    /\ UNCHANGED <<settings, row, due, item, disk, up, dl, cln, burned, removed>>

DeleteCommit ==
    /\ del.pc = "row" /\ del.parts = {}
    /\ DeleteRows("owner")
    /\ del' = NoDeletion
    /\ UNCHANGED <<settings, due, files, up, dl, cln, burned, excused>>

\* The rows stay; the parts have gone.
DeletionFails ==
    /\ del.pc = "row" /\ del.parts = {}
    /\ del' = NoDeletion
    /\ UNCHANGED <<settings, row, due, item, files, up, dl, cln, history>>

Deletion ==
    \/ DeleteStart \/ DeleteCommit \/ DeletionFails
    \/ \E i \in Resumables : DeletePart(i)

\* Mutant: the cleanup passes over sessions already marked expired.
CleanupListUnmarked ==
    /\ cln.pc = "idle"
    /\ row = "live" /\ due
    /\ cln' = [pc |-> "files", files |-> {i \in All : Published(i)}]
    /\ UNCHANGED <<settings, row, due, item, files, up, dl, del, history>>

CleanupList ==
    /\ cln.pc = "idle"
    /\ row # None /\ due
    /\ cln' = [pc |-> "files", files |-> {i \in All : Published(i)}]
    /\ UNCHANGED <<settings, row, due, item, files, up, dl, del, history>>

CleanupFile(i) ==
    /\ cln.pc = "files"
    /\ i \in cln.files
    /\ disk' = disk \ {i}
    /\ cln' = [cln EXCEPT !.files = @ \ {i}]
    /\ UNCHANGED <<settings, row, due, item, parts, up, dl, del, history>>

\* No part is deleted.
CleanupCommit ==
    /\ cln.pc = "files"
    /\ cln.files = {}
    /\ DeleteRows("cleanup")
    /\ cln' = NoCleanup
    /\ UNCHANGED <<settings, due, files, up, dl, del, burned, excused>>

\* A file cannot be deleted, or the database fails: the rows stay until the next
\* cleanup, which lists the files again.
CleanupFails ==
    /\ cln.pc = "files"
    /\ cln' = NoCleanup
    /\ UNCHANGED <<settings, row, due, item, files, up, dl, del, history>>

Cleanup ==
    \/ CleanupList \/ CleanupCommit \/ CleanupFails
    \/ \E i \in All : CleanupFile(i)

-----------------------------------------------------------------------------
\* A session created with expires_in_seconds = 0 is one this never happens to.
TimePasses ==
    /\ ~due
    /\ due' = TRUE
    /\ UNCHANGED <<settings, row, item, files, handlers, history>>

\* Handlers and background tasks are lost; rows and files stay, and a client
\* goes on with a resumable upload.
Crash ==
    /\ up' = [i \in All |->
                IF up[i].pc \in {"idle", "open", "done"} THEN up[i]
                ELSE [pc |-> IF up[i].pc = "insert" THEN "done" ELSE Rest(i), status |-> None]]
    /\ dl' = [d \in Downloads |->
                IF dl[d].pc \in {"idle", "done"} THEN dl[d] ELSE [pc |-> "failed", item |-> None]]
    /\ del' = NoDeletion /\ cln' = NoCleanup
    /\ excused' = IF removed = "owner" THEN excused ELSE {}
    /\ UNCHANGED <<settings, row, due, item, files, burned, removed>>

Next ==
    \/ \E i \in All : Upload(i)
    \/ \E d \in Downloads : Download(d)
    \/ Deletion
    \/ Cleanup
    \/ TimePasses
    \/ Crash

\* The cleanup is scheduled for ever.  Of the handlers that the event loop runs
\* to their ends only two matter to what is promised: a background burn, and an
\* upload about to commit, for which a removal waits.  Nothing is assumed of
\* the users, the clock, faults or crashes.
Fairness ==
    /\ \A i \in All : WF_vars(UploadSession(i))
    /\ \A d \in Downloads : WF_vars(BurnLoad(d) \/ BurnSave(d) \/ DownloadFails(d))
    /\ WF_vars(Cleanup)

Spec == Init /\ [][Next]_vars /\ Fairness

-----------------------------------------------------------------------------
\* Properties

\* Every variable holds a value of its kind.
TypeOK ==
    /\ postgres \in BOOLEAN /\ burn \in BOOLEAN /\ due \in BOOLEAN
    /\ row \in SessionRows \cup {None}
    /\ item \in [All -> ItemRows \cup {None}]
    /\ disk \subseteq All /\ parts \subseteq Resumables
    /\ up \in [All -> [pc : UploadSteps, status : SessionRows \cup {None}]]
    /\ dl \in [Downloads -> [pc : DownloadSteps, item : All \cup {None}]]
    /\ del \in [pc : {"idle", "row"}, parts : SUBSET Resumables]
    /\ cln \in [pc : {"idle", "files"}, files : SUBSET All]
    /\ burned \in BOOLEAN
    /\ removed \in {"nobody", "owner", "cleanup"}
    /\ excused \subseteq Resumables

\* In a session that can be downloaded from, an item with a storage_path has
\* its file, whatever uploads, deletions and cleanups are under way.
PublishedHasFile == \A i \in All : Servable /\ Published(i) => i \in disk

\* Once the row has been removed no row is ever servable again, although a
\* merge may bring it back: only copies marked expired are saved that late.
RemovedStaysClosed == removed # "nobody" => ~Servable

\* Once a burn has committed the session is expired for good: no other save of
\* the row undoes it.  (On SQLite: on PostgreSQL an upload that computed the
\* session's status before the burn may save it after the burn.)
BurnedStaysExpired == ~postgres /\ burned /\ row # None => row = "expired"

Over == due \/ removed # "nobody"
Phase == IF Over THEN "over" ELSE IF row = "expired" THEN "closed" ELSE "open"
Offered == IF Over THEN {} ELSE {i \in All : Published(i)}

\* What the session offers is SessionOffer: an item once offered stays so until
\* the session expires or is removed, and a single-use session closes once and
\* for all, except that on PostgreSQL an upload may save it open again.
Offer == INSTANCE SessionOffer WITH
    phase <- Phase, offered <- Offered, single <- burn, stale <- postgres
KeepsOffer == Offer!Spec

\* A single-use session that has been downloaded from is closed in the end,
\* whatever uploads, deletion and cleanup do meanwhile: unless the process
\* crashes while the burn is pending, or the database fails in that background
\* task (sessions_service.py:77-85, run by routes/sessions.py:305), as nothing
\* retries it.
ServedIsBurned ==
    \A d \in Downloads :
        dl[d].pc = "burnload"
            ~> (row \in {None, "expired"} \/ dl[d].pc = "failed")

\* A session past its expiry is removed by the cleanup in the end, even if
\* lookups, downloads and chunk requests keep saving it: unless one cleanup
\* after another fails, or is cut short by a crash, for ever.
ExpiredIsRemoved ==
    (due ~> row = None) \/ []<><<CleanupFails \/ (cln.pc = "files" /\ Crash)>>_vars

\* README: "single-use mode where transfers automatically self-destruct [...]
\* as soon as the recipient downloads them": no second download is served
\* while the burn that follows the first is still to come.
ServedOnce ==
    Cardinality({d \in Downloads : dl[d].pc \in {"burnload", "burnsave"}}) <= 1

Quiet ==
    /\ \A i \in All : up[i].pc \in {"idle", "open", "done"}
    /\ \A d \in Downloads : dl[d].pc \in {"idle", "done", "failed"}
    /\ del.pc = "idle" /\ cln.pc = "idle"

\* The owner's deletion leaves no part behind, whatever crashes interrupted it
\* before: unless a chunk request overlapped or followed it, or an unlink
\* failed (sessions_service.py:111).
DeletionLeavesNoPart == removed = "owner" /\ Quiet => parts \subseteq excused

\* README: "purge files from disk as soon as the recipient downloads them": once
\* the burn has been carried out, no item of the session has its file any more.
PurgedFromDisk == burned /\ Quiet => \A i \in All : Published(i) => i \notin disk

=============================================================================

------------------------------- MODULE Transfers -------------------------------
(***************************************************************************)
(* Single transfers and the two ways to make one: a POST with the file     *)
(* (TransferService.upload_file) and the older chunked upload, whose       *)
(* progress is kept in Redis and whose chunks carry no offset              *)
(* (ChunkedUploadService); with their downloads and their cleanup.         *)
(*                                                                         *)
(* A file is a sequence of chunks, a checksum is the content it is of.  A  *)
(* step is what a handler does between two awaits; append_chunk writes its *)
(* chunk in the event loop, then opens the file a second time in a thread. *)
(* Registering a transfer, with the search for a code no other has, is one *)
(* step that may fail.  A chunk is written whole or not at all: half of one*)
(* is, like a whole one that was not counted, bytes the session omits.     *)
(*                                                                         *)
(* Left out: the status of a transfer (nothing reads it), folders, lists   *)
(* and search, and the owner in the name of the temporary file: two        *)
(* uploads share it when they share the final one.                         *)
(***************************************************************************)
EXTENDS Naturals, Sequences, FiniteSets

CONSTANTS
    Posts, Uploads,  \* files sent in one request, and in chunks
    Requests,        \* the chunk requests that can be in progress at a time
    Downloads,       \* the downloads that will be attempted
    Scenarios,       \* the sets of posts and uploads one of which is sent
    Paths,
    PathOf,          \* where a post or an upload is stored
    Chunks,          \* the chunks of an upload
    MaxRegistrations,\* bound on the transfers made of one upload
    MaxFaults,       \* bound on failed steps and crashes
    None

Sources == Posts \cup Uploads

ASSUME TransfersAssumption ==
    /\ Posts \cap Uploads = {}
    /\ PathOf \in [Sources -> Paths]
    /\ Scenarios \subseteq SUBSET Sources
    /\ Chunks \in Nat \ {0}
    /\ MaxRegistrations \in Nat \ {0}
    /\ MaxFaults \in Nat

Contents == Seq(Sources \X (1 .. Chunks))

\* What TransferModel keeps of a file.
RowRecords == [sum : Contents, size : 1 .. Chunks]

ASSUME NoneIsNothing == None \notin Contents \cup RowRecords

VARIABLES
    disk,       \* per path, the content in the uploads directory, or None
    temp,       \* per path, the content of the .part file, or None
    sess,       \* per upload, received_bytes in Redis, or None
    rows,       \* the rows of transfers, by source and registration
    due,        \* the sources whose expires_at has passed
    post,       \* the posts: step
    req,        \* the chunk requests: step and locals
    dl,         \* the downloads: step, the row and its copy
    cln,        \* the cleanup: the rows it has listed, the files still to go
    wanted,     \* the posts and uploads that users will send
    known,      \* per upload, the received_bytes its client was last told
    sent,       \* history: per upload, the chunks sent so far
    begun,      \* history: the sources that have been started
    made,       \* history: per source, the transfers registered
    overlapped, \* history: the uploads that had two requests at a time
    repeated,   \* history: the uploads that had a chunk sent twice
    again,      \* history: the uploads completed again after their registration
    swept,      \* history: the uploads whose temporary file was taken for an orphan
    faults

files == <<disk, temp>>
history == <<sent, begun, made, overlapped, repeated, again, swept>>
vars == <<files, sess, rows, due, post, req, dl, cln, wanted, known, history, faults>>

-----------------------------------------------------------------------------
Ids == Sources \X (1 .. MaxRegistrations)

Whole(s) == IF s \in Posts THEN << <<s, 1>> >> ELSE [c \in 1 .. Chunks |-> <<s, c>>]

NoRequest == [pc |-> "idle", of |-> None, no |-> 0, received |-> 0, sum |-> None]

NoDownload == [pc |-> "idle", id |-> None, row |-> None]

NoCleanup == [pc |-> "idle", ids |-> {}, left |-> {}]

Init ==
    /\ disk = [p \in Paths |-> None]
    /\ temp = [p \in Paths |-> None]
    /\ sess = [u \in Uploads |-> None]
    /\ rows = [id \in Ids |-> None]
    /\ due = {}
    /\ post = [p \in Posts |-> "idle"]
    /\ req = [r \in Requests |-> NoRequest]
    /\ dl = [d \in Downloads |-> NoDownload]
    /\ cln = NoCleanup
    /\ wanted \in Scenarios
    /\ known = [u \in Uploads |-> 0]
    /\ sent = [u \in Uploads |-> 0]
    /\ made = [s \in Sources |-> 0]
    /\ begun = {} /\ overlapped = {} /\ repeated = {} /\ again = {} /\ swept = {}
    /\ faults = 0

Fault == faults < MaxFaults /\ faults' = faults + 1

\* transfers.add and commit.
Register(s, sum, size) ==
    /\ made' = [made EXCEPT ![s] = @ + 1]
    /\ rows' = [rows EXCEPT ![<<s, made'[s]>>] = [sum |-> sum, size |-> size]]

-----------------------------------------------------------------------------
\* POST /transfers

\* The file is opened for writing: what was there is gone.
PostOpen(p) ==
    /\ post[p] = "idle" /\ p \in wanted
    /\ disk' = [disk EXCEPT ![PathOf[p]] = <<>>]
    /\ post' = [post EXCEPT ![p] = "writing"]
    /\ begun' = begun \cup {p}
    /\ UNCHANGED <<temp, sess, rows, due, req, dl, cln, wanted, known, sent, made, overlapped,
                   repeated, again, swept, faults>>

PostWrite(p) ==
    /\ post[p] = "writing"
    /\ disk' = [disk EXCEPT ![PathOf[p]] = Whole(p)]
    /\ post' = [post EXCEPT ![p] = "register"]
    /\ UNCHANGED <<temp, sess, rows, due, req, dl, cln, wanted, known, history, faults>>

\* The checksum is that of the bytes received.
PostRegister(p) ==
    /\ post[p] = "register"
    /\ Register(p, Whole(p), 1)
    /\ post' = [post EXCEPT ![p] = "done"]
    /\ UNCHANGED <<files, sess, due, req, dl, cln, wanted, known, sent, begun, overlapped,
                   repeated, again, swept, faults>>

\* The write or the registration fails; the file stays as it is.
PostFails(p) ==
    /\ post[p] \in {"writing", "register"}
    /\ Fault
    /\ post' = [post EXCEPT ![p] = "done"]
    /\ UNCHANGED <<files, sess, rows, due, req, dl, cln, wanted, known, history>>

-----------------------------------------------------------------------------
\* The session of a chunked upload

Create(u) ==
    /\ u \in wanted \ begun
    /\ begun' = begun \cup {u}
    /\ sess' = [sess EXCEPT ![u] = 0]
    /\ UNCHANGED <<files, rows, due, post, req, dl, cln, wanted, known, sent, made, overlapped,
                   repeated, again, swept, faults>>

\* Redis drops the key: the session had a lifetime, counted from its last save.
Lapse(u) ==
    /\ sess[u] # None
    /\ sess' = [sess EXCEPT ![u] = None]
    /\ UNCHANGED <<files, rows, due, post, req, dl, cln, wanted, known, history, faults>>

\* GET /uploads/sessions/{session_id}
Ask(u) ==
    /\ sess[u] # None
    /\ known' = [known EXCEPT ![u] = sess[u]]
    /\ UNCHANGED <<files, sess, rows, due, post, req, dl, cln, wanted, history, faults>>

-----------------------------------------------------------------------------
\* PATCH /uploads/sessions/{session_id}: ChunkedUploadService.append_chunk

Idle(r) == req' = [req EXCEPT ![r] = NoRequest]

To(r, pc) == req' = [req EXCEPT ![r].pc = pc]

\* The client sends the chunk after those it has been told of; the session is
\* read.  Without a session the answer is a 404.  Bounded so that every request
\* in progress may still register.
Receive(r, u) ==
    /\ req[r].pc = "idle"
    /\ sess[u] # None
    /\ known[u] < Chunks
    /\ made[u] + Cardinality({q \in Requests : req[q].of = u}) < MaxRegistrations
    /\ LET c == known[u] + 1 IN
          /\ req' = [req EXCEPT ![r] = [pc |-> "append", of |-> u, no |-> c,
                                        received |-> sess[u], sum |-> None]]
          /\ repeated' = IF c <= sent[u] THEN repeated \cup {u} ELSE repeated
          /\ sent' = [sent EXCEPT ![u] = IF c > @ THEN c ELSE @]
    /\ overlapped' = IF \E q \in Requests : req[q].of = u
                     THEN overlapped \cup {u} ELSE overlapped
    /\ UNCHANGED <<files, sess, rows, due, post, dl, cln, wanted, known, begun, made, again, swept, faults>>

\* Mutant: the temporary file is opened with "wb".
AppendAnew(r) ==
    /\ req[r].pc = "append"
    /\ temp' = [temp EXCEPT ![PathOf[req[r].of]] = << <<req[r].of, req[r].no>> >>]
    /\ To(r, "reopen")
    /\ UNCHANGED <<disk, sess, rows, due, post, dl, cln, wanted, known, history, faults>>

\* write_chunks in the event loop: the chunk goes to the end of the file.
AppendChunk(r) ==
    /\ req[r].pc = "append"
    /\ temp' = [temp EXCEPT ![PathOf[req[r].of]] =
                   Append(IF @ = None THEN <<>> ELSE @, <<req[r].of, req[r].no>>)]
    /\ To(r, "reopen")
    /\ UNCHANGED <<disk, sess, rows, due, post, dl, cln, wanted, known, history, faults>>

\* Mutant: a chunk more is waited for.
CompleteLate(r) == req[r].received >= Chunks

Complete(r) == req[r].received + 1 >= Chunks

\* write_chunks once more in a thread: nothing is left to read, but opening
\* the file makes an empty one if it has been moved away.
Reopen(r) ==
    /\ req[r].pc = "reopen"
    /\ temp' = [temp EXCEPT ![PathOf[req[r].of]] = IF @ = None THEN <<>> ELSE @]
    /\ To(r, IF Complete(r) THEN "move" ELSE "save")
    /\ UNCHANGED <<disk, sess, rows, due, post, dl, cln, wanted, known, history, faults>>

\* upload_sessions.save of the session read before, even if it has gone; the
\* answer may be lost.
SaveSession(r) ==
    /\ req[r].pc = "save"
    /\ LET u == req[r].of
           received == req[r].received + 1
       IN  /\ sess' = [sess EXCEPT ![u] = received]
           /\ \/ known' = [known EXCEPT ![u] = received]
              \/ UNCHANGED known
    /\ Idle(r)
    /\ UNCHANGED <<files, rows, due, post, dl, cln, wanted, history, faults>>

MoveTemp(r) ==
    /\ req[r].pc = "move"
    /\ LET u == req[r].of
           path == PathOf[u]
       IN  IF temp[path] = None
           THEN Idle(r) /\ UNCHANGED <<files, again>>
           ELSE /\ disk' = [disk EXCEPT ![path] = temp[path]]
                /\ temp' = [temp EXCEPT ![path] = None]
                /\ again' = IF made[u] > 0 THEN again \cup {u} ELSE again
                /\ To(r, "hash")
    /\ UNCHANGED <<sess, rows, due, post, dl, cln, wanted, known, sent, begun, made,
                   overlapped, repeated, swept, faults>>

\* The final file is read again for its checksum.
HashFile(r) ==
    /\ req[r].pc = "hash"
    /\ LET content == disk[PathOf[req[r].of]] IN
          IF content = None
          THEN Idle(r)
          ELSE req' = [req EXCEPT ![r] = [@ EXCEPT !.pc = "register", !.sum = content]]
    /\ UNCHANGED <<files, sess, rows, due, post, dl, cln, wanted, known, history, faults>>

\* register_completed_file: its size is the count of the session.
RegisterFile(r) ==
    /\ req[r].pc = "register"
    /\ Register(req[r].of, req[r].sum, req[r].received + 1)
    /\ To(r, "forget")
    /\ UNCHANGED <<files, sess, due, post, dl, cln, wanted, known, sent, begun, overlapped,
                   repeated, again, swept, faults>>

ForgetSession(r) ==
    /\ req[r].pc = "forget"
    /\ sess' = [sess EXCEPT ![req[r].of] = None]
    /\ Idle(r)
    /\ UNCHANGED <<files, rows, due, post, dl, cln, wanted, known, history, faults>>

\* A file operation, the database or Redis fails.
RequestFails(r) ==
    /\ req[r].pc \in {"append", "reopen", "save", "move", "hash", "register", "forget"}
    /\ Fault
    /\ Idle(r)
    /\ UNCHANGED <<files, sess, rows, due, post, dl, cln, wanted, known, history>>

Request(r) ==
    \/ \E u \in Uploads : Receive(r, u)
    \/ AppendChunk(r) \/ Reopen(r) \/ SaveSession(r)
    \/ MoveTemp(r) \/ HashFile(r) \/ RegisterFile(r) \/ ForgetSession(r)
    \/ RequestFails(r)

-----------------------------------------------------------------------------
\* GET /transfers/{transfer_code}/download

DownTo(d, pc) == dl' = [dl EXCEPT ![d].pc = pc]

DownloadResolve(d, id) ==
    /\ dl[d].pc = "idle"
    /\ rows[id] # None
    /\ id[1] \notin due
    /\ dl' = [dl EXCEPT ![d] = [pc |-> "mark", id |-> id, row |-> None]]
    /\ UNCHANGED <<files, sess, rows, due, post, req, cln, wanted, known, history, faults>>

\* mark_downloaded reads the row again ...
DownloadLoad(d) ==
    /\ dl[d].pc = "mark"
    /\ LET row == rows[dl[d].id] IN
          dl' = [dl EXCEPT ![d] = IF row = None THEN [NoDownload EXCEPT !.pc = "done"]
                                  ELSE [@ EXCEPT !.pc = "save", !.row = row]]
    /\ UNCHANGED <<files, sess, rows, due, post, req, cln, wanted, known, history, faults>>

\* ... and saves its copy: an INSERT when the row has gone meanwhile.
DownloadSave(d) ==
    /\ dl[d].pc = "save"
    /\ rows' = [rows EXCEPT ![dl[d].id] = dl[d].row]
    /\ dl' = [dl EXCEPT ![d] = [NoDownload EXCEPT !.pc = "done"]]
    /\ UNCHANGED <<files, sess, due, post, req, cln, wanted, known, history, faults>>

Download(d) ==
    \/ \E id \in Ids : DownloadResolve(d, id)
    \/ DownloadLoad(d) \/ DownloadSave(d)

-----------------------------------------------------------------------------
\* CleanupService: cleanup_expired_transfers, cleanup_orphaned_temp_files

\* Mutant: every row is listed.
CleanupListAll ==
    /\ cln.pc = "idle"
    /\ LET ids == {id \in Ids : rows[id] # None} IN
          /\ ids # {}
          /\ cln' = [pc |-> "files", ids |-> ids, left |-> ids]
    /\ UNCHANGED <<files, sess, rows, due, post, req, dl, wanted, known, history, faults>>

CleanupList ==
    /\ cln.pc = "idle"
    /\ LET ids == {id \in Ids : rows[id] # None /\ id[1] \in due} IN
          /\ ids # {}
          /\ cln' = [pc |-> "files", ids |-> ids, left |-> ids]
    /\ UNCHANGED <<files, sess, rows, due, post, req, dl, wanted, known, history, faults>>

CleanupFile(id) ==
    /\ cln.pc = "files"
    /\ id \in cln.left
    /\ disk' = [disk EXCEPT ![PathOf[id[1]]] = None]
    /\ cln' = [cln EXCEPT !.left = @ \ {id}]
    /\ UNCHANGED <<temp, sess, rows, due, post, req, dl, wanted, known, history, faults>>

\* Mutant: the rows are committed before the files are deleted.
CleanupCommitFirst ==
    /\ cln.pc = "files"
    /\ rows' = [id \in Ids |-> IF id \in cln.ids THEN None ELSE rows[id]]
    /\ UNCHANGED <<files, sess, cln, due, post, req, dl, wanted, known, history, faults>>

CleanupCommit ==
    /\ cln.pc = "files"
    /\ cln.left = {}
    /\ rows' = [id \in Ids |-> IF id \in cln.ids THEN None ELSE rows[id]]
    /\ cln' = NoCleanup
    /\ UNCHANGED <<files, sess, due, post, req, dl, wanted, known, history, faults>>

\* A file cannot be deleted, or the database fails: nothing is committed.
CleanupFails ==
    /\ cln.pc = "files"
    /\ Fault
    /\ cln' = NoCleanup
    /\ UNCHANGED <<files, sess, rows, due, post, req, dl, wanted, known, history>>

\* cleanup_orphaned_temp_files, which comes last: a file nobody has written to
\* for an hour is deleted, whether or not its session still counts on it, even
\* under a request that has read the session.
Sweep(p) ==
    /\ cln.pc = "idle"
    /\ temp[p] # None
    /\ temp' = [temp EXCEPT ![p] = None]
    /\ swept' = swept \cup {u \in Uploads \cap begun : PathOf[u] = p}
    /\ UNCHANGED <<disk, sess, rows, due, post, req, dl, cln, wanted, known, sent, begun, made,
                   overlapped, repeated, again, faults>>

Cleanup ==
    \/ CleanupList \/ CleanupCommit \/ CleanupFails
    \/ \E id \in Ids : CleanupFile(id)
    \/ \E p \in Paths : Sweep(p)

-----------------------------------------------------------------------------
\* The clock: a post has an expiry once it is registered, an upload from the start.
Expire(s) ==
    /\ s \notin due
    /\ s \in begun /\ (s \in Posts => made[s] > 0)
    /\ due' = due \cup {s}
    /\ UNCHANGED <<files, sess, rows, post, req, dl, cln, wanted, known, history, faults>>

\* The process stops and is started again: files, rows and Redis remain.
Crash ==
    /\ Fault
    /\ post' = [p \in Posts |-> IF post[p] = "idle" THEN "idle" ELSE "done"]
    /\ req' = [r \in Requests |-> NoRequest]
    /\ dl' = [d \in Downloads |->
                 IF dl[d].pc = "idle" THEN NoDownload ELSE [NoDownload EXCEPT !.pc = "done"]]
    /\ cln' = NoCleanup
    /\ UNCHANGED <<files, sess, rows, due, wanted, known, history>>

Next ==
    \/ \E p \in Posts : PostOpen(p) \/ PostWrite(p) \/ PostRegister(p) \/ PostFails(p)
    \/ \E u \in Uploads : Create(u) \/ Lapse(u) \/ Ask(u)
    \/ \E r \in Requests : Request(r)
    \/ \E d \in Downloads : Download(d)
    \/ Cleanup
    \/ \E s \in Sources : Expire(s)
    \/ Crash

Spec == Init /\ [][Next]_vars

-----------------------------------------------------------------------------
\* A session in Redis counts less than a whole upload: the request that
\* completes it never saves it (chunked_uploads_service.py:92-107).
TypeOK ==
    /\ \A p \in Paths : disk[p] \in Contents \cup {None} /\ temp[p] \in Contents \cup {None}
    /\ sess \in [Uploads -> (0 .. Chunks - 1) \cup {None}]
    /\ rows \in [Ids -> RowRecords \cup {None}]
    /\ due \subseteq begun

\* Nothing else is ever stored under the path of s.
Alone(s) == \A t \in begun : PathOf[t] = PathOf[s] => t = s

\* What a transfer records of its file, as long as it has not expired, is
\* true: the file is there and has the checksum.  The exceptions are three,
\* and the property says that there is no fourth: another file of the name
\* (transfers_service.py:197, chunked_uploads_service.py:154), two requests of
\* one upload at a time, and an upload that was completed twice, because its
\* session outlived the registration (chunked_uploads_service.py:96-107).
\* Repeated chunks, crashes, failures, downloads and cleanups are none.
StoredAsRecorded ==
    \A id \in Ids :
        rows[id] # None /\ id[1] \notin due
        /\ Alone(id[1]) /\ id[1] \notin overlapped \cup again
        => disk[PathOf[id[1]]] = rows[id].sum

\* An upload whose chunks were each sent once, one after the other and within
\* the hour, is whole and in its order, whatever failed meanwhile (a failure
\* leaves a chunk to be sent again, or no transfer).  A pause of an hour lets
\* the cleanup delete the beginning of the file (cleanup_service.py:74) while
\* the session goes on counting it, and the rest is published as the whole.
WholeUnlessRepeated ==
    \A id \in Ids :
        rows[id] # None /\ id[1] \notin due
        /\ Alone(id[1]) /\ id[1] \notin overlapped \cup repeated \cup swept
        => /\ disk[PathOf[id[1]]] = Whole(id[1])
           /\ rows[id] = [sum |-> Whole(id[1]), size |-> Len(Whole(id[1]))]

\* A transfer that was removed has left no file behind: the cleanup deletes
\* the file before the row and commits at the end, so that a crash between the
\* two leaves the row to the next pass, and a download that saves its copy of
\* a removed row brings back no file (cleanup_service.py:26-40).
RemovedWithItsFile ==
    \A s \in begun :
        made[s] > 0 /\ (\A n \in 1 .. MaxRegistrations : rows[<<s, n>>] = None)
        /\ Alone(s) /\ s \notin overlapped \cup again
        => disk[PathOf[s]] = None

=============================================================================

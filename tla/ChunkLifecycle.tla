---------------------------- MODULE ChunkLifecycle ----------------------------
(***************************************************************************)
(* One resumable upload in its session from beginning to end: the request  *)
(* that initialises the item (init_resumable_item), then the chunk         *)
(* requests of ChunkUpload, one at a time, with the deletion, the cleanup, *)
(* the clock and crashes of that module.                                   *)
(*                                                                         *)
(* ChunkUpload follows bytes, offsets and copies of rows, SessionLifecycle *)
(* whole uploads: what it says of an upload is what the handlers of        *)
(* ChunkUpload do (KeepsLifecycle), on SQLite.  On PostgreSQL the two cut  *)
(* the finalisation differently: there SessionLifecycle lets another       *)
(* commit come between the item's UPDATE and the session's.                *)
(***************************************************************************)
EXTENDS ChunkUpload

CONSTANT Item    \* the item's id

ASSUME ChunkLifecycleAssumption ==
    None \notin {"live", "expired", "begun", "published", Item}

VARIABLES
    opening,    \* the request that initialises the item
    removed,    \* history: who removed the session's row first
    excused     \* history: a chunk request was under way when the owner's
                \* deletion began, or has been admitted since, or the part
                \* could not be deleted

history == <<removed, excused>>
lifeVars == <<vars, opening, history>>

-----------------------------------------------------------------------------
\* After create_session.  Of the expected checksum only the choice is made.
LifeInit ==
    /\ part = None /\ stored = None
    /\ declared \in Declarable
    /\ item = None
    /\ session = [row |-> TRUE, due |-> FALSE, status |-> "pending"]
    /\ req = [r \in Requests |-> NoRequest]
    /\ del = "idle" /\ cln = NoCleanup /\ discarded = FALSE
    /\ opening = "idle"
    /\ removed = "nobody" /\ excused = FALSE

-----------------------------------------------------------------------------
\* init_resumable_item

InitAdmit ==
    /\ opening = "idle"
    /\ opening' = IF ~session.row THEN "done"
                  ELSE IF session.due THEN "expire" ELSE "insert"
    /\ UNCHANGED <<vars, history>>

\* The copy read is saved, as by SaveExpired(r).
InitExpire ==
    /\ opening = "expire"
    /\ session' = [row |-> TRUE, due |-> TRUE, status |-> "expired"]
    /\ opening' = "refused"
    /\ UNCHANGED <<disk, item, declared, req, del, cln, discarded, history>>

\* add_item and commit; SQLite inserts it even when its session has gone.
InitInsert ==
    /\ opening = "insert"
    /\ item' = [status |-> "queued", size |-> Size, sha |-> declared, path |-> FALSE]
    /\ opening' = "open"
    /\ UNCHANGED <<disk, session, declared, req, del, cln, discarded, history>>

\* The client has no item, whether the session had expired or not.
Abandoned == IF opening = "insert" THEN "done" ELSE "refused"

\* The database fails.
InitFails ==
    /\ opening \in {"expire", "insert"}
    /\ opening' = Abandoned
    /\ UNCHANGED <<vars, history>>

Opening == InitAdmit \/ InitExpire \/ InitInsert \/ InitFails

-----------------------------------------------------------------------------
\* The steps of ChunkUpload, and what the history keeps of them

Send(r, i, j) ==
    /\ opening = "open" /\ AllIdle
    /\ Receive(r, i, j)
    /\ UNCHANGED <<opening, history>>

\* r has been let in by this step.
LetIn(r) == At(r, "admit") /\ req'[r].pc \in {"check", "expire"}

Work(r) ==
    /\ Handle(r) \/ Fault(r) \/ Finish(r)
    /\ excused' = (excused \/ (LetIn(r) /\ (del # "idle" \/ removed = "owner")))
    /\ UNCHANGED <<opening, removed>>

\* A chunk request that has been let in has not yet written.
Appending == \E r \in Requests : req[r].pc \in {"check", "write", "probe"}

BeginDeletion ==
    /\ DeleteStart
    /\ excused' = ((removed = "owner" /\ excused) \/ Appending)
    /\ UNCHANGED <<opening, removed>>

KeepPart ==
    /\ DeletePartFails
    /\ excused' = TRUE
    /\ UNCHANGED <<opening, removed>>

RemovedBy(who) ==
    removed' = IF session.row /\ removed = "nobody" THEN who ELSE removed

Remove ==
    /\ \/ DeleteRow /\ RemovedBy("owner")
       \/ CleanupRow /\ RemovedBy("cleanup")
    /\ UNCHANGED <<opening, excused>>

Restart ==
    /\ Crash
    /\ opening' = IF opening \in {"expire", "insert"} THEN Abandoned ELSE opening
    /\ excused' = (removed = "owner" /\ excused)
    /\ UNCHANGED removed

Elsewhere ==
    /\ \/ DeletePart \/ DeleteFails
       \/ CleanupList \/ CleanupFile \/ CleanupFails
       \/ TimePasses
    /\ UNCHANGED <<opening, history>>

LifeNext ==
    \/ Opening
    \/ \E r \in Requests, i, j \in 0 .. Size : Send(r, i, j)
    \/ \E r \in Requests : Work(r)
    \/ BeginDeletion \/ KeepPart \/ Remove \/ Restart \/ Elsewhere

LifeSpec == LifeInit /\ [][LifeNext]_lifeVars

-----------------------------------------------------------------------------
\* The upload as SessionLifecycle sees it

Row == IF ~session.row THEN None
       ELSE IF session.status = "expired" THEN "expired" ELSE "live"

ItemRow == IF item = None THEN None ELSE IF item.path THEN "published" ELSE "begun"

\* What the session's lifecycle sees of a chunk request: not the offset, not
\* the size, not the checksum.
StepOf(q) ==
    CASE q.pc \in {"idle", "admit", "done"}     -> "open"
      [] q.pc = "expire"                        -> "expire"
      [] q.pc \in {"check", "write", "probe"}   -> "append"
      [] q.pc \in {"hash", "move"}              -> "move"
      [] q.pc = "load"                          -> IF q.sha = None THEN "progress" ELSE "load"
      [] q.pc = "save"                          -> IF q.sha = None THEN "note" ELSE "save"

\* The upload is where the request that initialises it is, or its only chunk
\* request, whose record is in `handlers`.
UploadOf(init, handlers) ==
    IF init = "refused" THEN "open"
    ELSE IF init # "open" THEN init
    ELSE IF \A r \in Requests : handlers[r].pc = "idle" THEN "open"
    ELSE StepOf(handlers[CHOOSE r \in Requests : handlers[r].pc # "idle"])

OfItem(present) == IF present THEN {Item} ELSE {}

Lifecycle == INSTANCE SessionLifecycle WITH
    Items      <- {},
    Resumables <- {Item},
    Downloads  <- {},
    postgres   <- Cascade,
    burn       <- FALSE,
    row        <- Row,
    due        <- session.due,
    item       <- [i \in {Item} |-> ItemRow],
    disk       <- OfItem(stored # None),
    parts      <- OfItem(part # None),
    up         <- [i \in {Item} |-> [pc |-> UploadOf(opening, req), status |-> None]],
    dl         <- [d \in {} |-> [pc |-> "idle", item |-> None]],
    del        <- [pc |-> IF del = "idle" THEN "idle" ELSE "row", parts |-> OfItem(del = "part")],
    cln        <- [pc |-> IF cln.pc = "idle" THEN "idle" ELSE "files",
                   files |-> OfItem(cln.pc = "file")],
    burned     <- FALSE,
    excused    <- OfItem(excused)

-----------------------------------------------------------------------------
\* Properties

\* The lifecycle's account of a resumable upload is what its handlers do: every
\* step of theirs, failed writes, failed units of work, vanished parts, saves
\* of stale copies and crashes included, is a step of SessionLifecycle or none.
KeepsLifecycle == Lifecycle!Init /\ [][Lifecycle!Next]_(Lifecycle!vars)

\* Once the session's row has been removed it is never served again, although
\* a chunk request that had read it may save it back.
NeverServedAgain == removed # "nobody" => ~Servable

\* The owner's deletion leaves no part behind, whatever it interrupted, unless
\* a chunk request overlapped or followed it, or its unlink failed and the
\* rows were deleted all the same (sessions_service.py:109-112).
NoPartLeft ==
    removed = "owner" /\ opening \notin {"expire", "insert"} /\ AllIdle
        /\ del = "idle" /\ cln.pc = "idle" /\ ~excused
    => part = None

=============================================================================

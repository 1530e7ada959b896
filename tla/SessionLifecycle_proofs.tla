------------------------ MODULE SessionLifecycle_proofs ------------------------
(***************************************************************************)
(* Proofs about SessionLifecycle: its types, what it never does (for any   *)
(* number of uploads, downloads and crashes, on both databases), and that  *)
(* it implements SessionOffer.                                             *)
(***************************************************************************)
EXTENDS SessionLifecycle, TLAPS

-----------------------------------------------------------------------------
\* Types

\* Only resumable uploads are received in chunks.
PostsAreWhole ==
    \A i \in Items : up[i].pc \notin {"open", "append", "progress", "note", "move"}

TypeInv == TypeOK /\ PostsAreWhole

\* Where an upload goes next is a step of it, and one of a post if it is one.
LEMMA RestIsAStep ==
    ASSUME NEW i \in All
    PROVE  Rest(i) \in UploadSteps /\ (i \in Items => Rest(i) = "done")
                                   /\ (i \notin Items => Rest(i) = "open")
  BY DEF Rest, UploadSteps

\* One step of an upload keeps the types of what uploads change.
LEMMA UploadKeepsTypes ==
    ASSUME TypeInv, NEW i \in All, Upload(i)
    PROVE  TypeInv'
<1> USE LifecycleAssumption, RestIsAStep
       DEF TypeInv, TypeOK, PostsAreWhole, UpTo, beside, settings, files, history,
           SaveExpired, Recomputed, All, SessionRows, ItemRows
<1>1. CASE UploadAdmit(i)        BY <1>1 DEF UploadAdmit, UploadSteps
<1>2. CASE UploadExpire(i)       BY <1>2 DEF UploadExpire, UploadSteps
<1>3. CASE UploadInsert(i)       BY <1>3 DEF UploadInsert, UploadSteps
<1>4. CASE StoreFile(i)          BY <1>4 DEF StoreFile, UploadSteps
<1>5. CASE StoreFails(i)         BY <1>5 DEF StoreFails, MarkFailed, UploadSteps
<1>6. CASE PatchAdmit(i)         BY <1>6 DEF PatchAdmit, UploadSteps
<1>7. CASE Append(i)             BY <1>7 DEF Append, UploadSteps
<1>8. CASE AppendFails(i)        BY <1>8 DEF AppendFails, UploadSteps
<1>9. CASE ProgressLoad(i)       BY <1>9 DEF ProgressLoad, UploadSteps
<1>10. CASE ProgressSave(i)      BY <1>10 DEF ProgressSave, UploadSteps
<1>11. CASE Move(i)              BY <1>11 DEF Move, UploadSteps
<1>12. CASE MoveFails(i)         BY <1>12 DEF MoveFails, UploadSteps
<1>13. CASE UploadLoad(i)        BY <1>13 DEF UploadLoad, UploadSteps
<1>14. CASE UploadSave(i)
  <2>1. item' \in [All -> ItemRows \cup {None}]
    BY <1>14 DEF UploadSave
  <2>2. Recomputed(row) \in SessionRows
    OBVIOUS
  <2> QED BY <1>14, <2>1, <2>2 DEF UploadSave, UploadSteps
<1>15. CASE UploadSaveRefused(i) BY <1>15 DEF UploadSaveRefused, UploadSteps
<1>16. CASE UploadSession(i)     BY <1>16 DEF UploadSession, UploadSteps
<1>17. CASE UploadFails(i)
  <2>1. item' \in [All -> ItemRows \cup {None}]
    BY <1>17 DEF UploadFails, MarkFailed
  <2> QED BY <1>17, <2>1 DEF UploadFails, UploadSteps
<1> QED  BY <1>1, <1>2, <1>3, <1>4, <1>5, <1>6, <1>7, <1>8, <1>9, <1>10, <1>11,
            <1>12, <1>13, <1>14, <1>15, <1>16, <1>17 DEF Upload

\* The types hold at first, and every step keeps them.
LEMMA TypesHold == (Init => TypeInv) /\ (TypeInv /\ [Next]_vars => TypeInv')
<1>1. Init => TypeInv
  <2>1. Init => TypeOK
    <3> SUFFICES ASSUME Init PROVE TypeOK
      OBVIOUS
    <3>1. item \in [All -> ItemRows \cup {None}]
      BY DEF Init
    <3>2. up \in [All -> [pc : UploadSteps, status : SessionRows \cup {None}]]
      BY DEF Init, UploadSteps
    <3>3. dl \in [Downloads -> [pc : DownloadSteps, item : All \cup {None}]]
      BY DEF Init, DownloadSteps
    <3>4. /\ del \in [pc : {"idle", "row"}, parts : SUBSET Resumables]
          /\ cln \in [pc : {"idle", "files"}, files : SUBSET All]
      BY DEF Init, NoDeletion, NoCleanup
    <3> QED BY <3>1, <3>2, <3>3, <3>4 DEF Init, TypeOK, SessionRows
  <2>2. Init => PostsAreWhole
    BY DEF Init, PostsAreWhole, All
  <2> QED BY <2>1, <2>2 DEF TypeInv
<1>2. TypeInv /\ [Next]_vars => TypeInv'
  <2> SUFFICES ASSUME TypeInv, [Next]_vars
               PROVE  TypeInv'
    OBVIOUS
  <2> USE LifecycleAssumption
      DEF TypeInv, TypeOK, PostsAreWhole, settings, files, history, handlers, SaveExpired,
          SessionRows, DownTo
  <2>1. ASSUME NEW i \in All, Upload(i) PROVE TypeInv'
    BY ONLY TypeInv, <2>1, UploadKeepsTypes
  <2>2. ASSUME NEW d \in Downloads, Download(d) PROVE TypeInv'
    <3>1. ASSUME NEW i \in All, DownloadAdmit(d, i) PROVE TypeInv'
      BY <3>1 DEF DownloadAdmit, DownloadSteps
    <3>2. CASE DownloadExpired(d)  BY <3>2 DEF DownloadExpired, DownloadSteps
    <3>3. CASE DownloadExpire(d)   BY <3>3 DEF DownloadExpire, DownloadSteps
    <3>4. CASE Serve(d)            BY <3>4 DEF Serve, DownloadSteps
    <3>5. CASE BurnLoad(d)         BY <3>5 DEF BurnLoad, DownloadSteps
    <3>6. CASE BurnSave(d)         BY <3>6 DEF BurnSave, DownloadSteps
    <3>7. CASE DownloadFails(d)    BY <3>7 DEF DownloadFails, DownloadSteps
    <3> QED BY <2>2, <3>1, <3>2, <3>3, <3>4, <3>5, <3>6, <3>7 DEF Download
  <2>3. CASE DeleteStart     BY <2>3 DEF DeleteStart, Overlapping
  <2>4. CASE DeleteCommit    BY <2>4 DEF DeleteCommit, DeleteRows, NoDeletion
  <2>5. ASSUME NEW i \in Resumables, DeletePart(i) PROVE TypeInv'
    BY <2>5 DEF DeletePart
  <2>6. CASE CleanupList     BY <2>6 DEF CleanupList
  <2>7. CASE CleanupCommit   BY <2>7 DEF CleanupCommit, DeleteRows, NoCleanup
  <2>8. ASSUME NEW i \in All, CleanupFile(i) PROVE TypeInv'
    BY <2>8 DEF CleanupFile
  <2>9. CASE TimePasses      BY <2>9 DEF TimePasses
  <2>10. CASE Crash
    BY <2>10, RestIsAStep DEF Crash, UploadSteps, DownloadSteps, NoDeletion, NoCleanup, All
  <2>11. CASE UNCHANGED vars BY <2>11 DEF vars
  <2>12. CASE DeletionFails  BY <2>12 DEF DeletionFails, NoDeletion
  <2>13. CASE CleanupFails   BY <2>13 DEF CleanupFails, NoCleanup
  <2> QED BY <2>1, <2>2, <2>3, <2>4, <2>5, <2>6, <2>7, <2>8, <2>9, <2>10, <2>11, <2>12, <2>13
          DEF Next, Deletion, Cleanup
<1> QED BY <1>1, <1>2

\* Every variable of SessionLifecycle keeps its kind, for any number of uploads,
\* downloads and crashes and on both databases.
THEOREM TypeCorrect == Spec => []TypeOK
<1>1. TypeInv => TypeOK
  BY DEF TypeInv
<1> QED BY <1>1, TypesHold, PTL DEF Spec

-----------------------------------------------------------------------------
\* What every session keeps to

UnderWay == {"file", "append", "progress", "note", "move", "load", "save"}

\* The row goes by removal only, and the cleanup is busy with expired ones only.
RowsAreRemoved == (row = None => removed # "nobody") /\ (cln.pc = "files" => due)

\* So do item rows, which begin with an upload; and a request that is about to save the session as expired
\* has seen it expired, or works on an item that has been removed.
ItemsAreRemoved ==
    \A i \in All :
        /\ up[i].pc \in {"idle", "insert"} => item[i] = None
        /\ up[i].pc \in UnderWay /\ item[i] = None => removed # "nobody"
        /\ up[i].pc = "expire" => due \/ removed # "nobody"

\* There is a file behind an item that is, or is about to be, published.
FilesBehind ==
    \A i \in All :
        Published(i) \/ up[i].pc \in {"load", "save"} => i \in disk \/ due \/ removed # "nobody"

\* Only PostgreSQL saves the session's status in a step of its own, and a
\* deletion waits for it.
StatusesHeld ==
    \A i \in All : up[i].pc = "session" => postgres /\ row # None /\ up[i].status \in SessionRows

\* After removal no copy is live, neither in the table nor in a handler.
ClosedWhenRemoved ==
    removed # "nobody" =>
        row # "live" /\ \A i \in All : up[i].pc = "session" => up[i].status = "expired"

ClosedWhenBurned == ~postgres /\ burned => row # "live"

\* Before it is over, only a single-use session is closed.
OnlySingleCloses ==
    /\ ~due /\ removed = "nobody" =>
          /\ row = "expired" => burn
          /\ \A i \in All : up[i].pc = "session" /\ up[i].status = "expired" => burn
          /\ \A d \in Downloads : dl[d].pc = "expire" => burn
    /\ \A d \in Downloads : dl[d].pc \in {"burnload", "burnsave"} => burn

SafeInv ==
    /\ RowsAreRemoved /\ ItemsAreRemoved /\ FilesBehind /\ StatusesHeld
    /\ ClosedWhenRemoved /\ ClosedWhenBurned /\ OnlySingleCloses

\* A row put back by mark_failed is that of an item which is not published.
LEMMA MarkFailedKeepsSafe ==
    ASSUME TypeInv, SafeInv, NEW i \in All, MarkFailed(i),
           \A j \in All : j # i => up'[j] = up[j],
           up'[i].pc = "done", disk \subseteq disk', UNCHANGED <<beside, row>>
    PROVE  SafeInv'
<1>1. /\ \A j \in All : j # i => item'[j] = item[j]
      /\ Published(i)' => Published(i)
  BY LifecycleAssumption DEF MarkFailed, Published, TypeInv, TypeOK, ItemRows
<1>2. FilesBehind'
  BY <1>1 DEF SafeInv, FilesBehind, Published, beside
<1>3. ItemsAreRemoved'
  BY <1>1 DEF SafeInv, ItemsAreRemoved, UnderWay, beside
<1>4. StatusesHeld' /\ ClosedWhenRemoved' /\ ClosedWhenBurned' /\ OnlySingleCloses' /\ RowsAreRemoved'
  BY DEF SafeInv, StatusesHeld, ClosedWhenRemoved, ClosedWhenBurned, OnlySingleCloses,
         RowsAreRemoved, beside, settings
<1> QED BY <1>2, <1>3, <1>4 DEF SafeInv

\* A step of an upload keeps the invariant: the interesting ones save a copy.
LEMMA UploadKeepsSafe ==
    ASSUME TypeInv, SafeInv, NEW i \in All, Upload(i)
    PROVE  SafeInv'
<1> USE LifecycleAssumption, RestIsAStep
       DEF TypeInv, TypeOK, SafeInv, RowsAreRemoved, ItemsAreRemoved, FilesBehind, StatusesHeld,
           ClosedWhenRemoved, ClosedWhenBurned, OnlySingleCloses, UnderWay, Published,
           UpTo, beside, settings, files, SaveExpired, Recomputed, SessionRows, ItemRows
<1>1. CASE UploadAdmit(i)        BY <1>1 DEF UploadAdmit
<1>2. CASE UploadExpire(i)       BY <1>2 DEF UploadExpire
<1>3. CASE UploadInsert(i)
  <2>1. CASE Refused(i)
    <3>1. UpTo(i, "done") /\ item' = item
      BY <1>3, <2>1 DEF UploadInsert
    <3> QED BY <1>3, <3>1 DEF UploadInsert
  <2>2. CASE ~Refused(i)
    <3>1. item' = [item EXCEPT ![i] = "begun"]
      BY <1>3, <2>2 DEF UploadInsert
    <3>2. FilesBehind'           BY <1>3, <2>2, <3>1 DEF UploadInsert
    <3>3. ItemsAreRemoved'       BY <1>3, <2>2, <3>1 DEF UploadInsert
    <3>4. /\ up' = [up EXCEPT ![i] = [pc |-> IF i \in Items THEN "file" ELSE "open",
                                      status |-> None]]
          /\ UNCHANGED <<beside, row>>
      BY <1>3, <2>2 DEF UploadInsert
    <3>5. StatusesHeld' /\ ClosedWhenRemoved' /\ OnlySingleCloses'
      BY <3>4
    <3> QED BY <3>2, <3>3, <3>4, <3>5
  <2> QED BY <2>1, <2>2
<1>4. CASE StoreFile(i)          BY <1>4 DEF StoreFile
<1>5. CASE StoreFails(i)
  <2>1. /\ MarkFailed(i) /\ disk \subseteq disk' /\ UNCHANGED <<beside, row>>
        /\ up' = [up EXCEPT ![i] = [pc |-> "done", status |-> None]]
    BY <1>5 DEF StoreFails
  <2> QED BY ONLY TypeInv, SafeInv, <2>1, MarkFailedKeepsSafe DEF TypeInv, TypeOK
<1>6. CASE PatchAdmit(i)         BY <1>6 DEF PatchAdmit
<1>7. CASE Append(i)
  <2>1. CASE UpTo(i, "progress") BY <1>7, <2>1 DEF Append
  <2>2. CASE UpTo(i, "move")     BY <1>7, <2>2 DEF Append
  <2> QED BY <1>7, <2>1, <2>2 DEF Append
<1>8. CASE AppendFails(i)        BY <1>8 DEF AppendFails
<1>9. CASE ProgressLoad(i)       BY <1>9 DEF ProgressLoad
<1>10. CASE ProgressSave(i)
  <2>1. CASE Refused(i)          BY <1>10, <2>1 DEF ProgressSave
  <2>2. CASE ~Refused(i)
    <3>1. PICK copy \in ItemRows : item[i] \in {None, copy} /\ item' = [item EXCEPT ![i] = copy]
      BY <1>10, <2>2 DEF ProgressSave
    <3>2. FilesBehind'           BY <1>10, <3>1 DEF ProgressSave
    <3>3. ItemsAreRemoved'       BY <1>10, <3>1 DEF ProgressSave
    <3> QED BY <1>10, <3>2, <3>3 DEF ProgressSave
  <2> QED BY <2>1, <2>2
<1>11. CASE Move(i)              BY <1>11 DEF Move
<1>12. CASE MoveFails(i)         BY <1>12 DEF MoveFails
<1>13. CASE UploadLoad(i)        BY <1>13 DEF UploadLoad
<1>14. CASE UploadSave(i)
  <2>1. /\ item'[i] # None /\ \A j \in All : j # i => item'[j] = item[j]
        /\ \A j \in All : j # i => up'[j] = up[j]
        /\ up'[i].pc \in {"session", "done", "open"}
        /\ i \in disk' \/ due' \/ removed' # "nobody"
        /\ disk' = disk /\ due' = due /\ removed' = removed
    BY <1>14 DEF UploadSave
  <2>2. FilesBehind'
    BY ONLY <2>1, FilesBehind DEF FilesBehind, Published
  <2>3. ItemsAreRemoved'
    BY ONLY <2>1, ItemsAreRemoved DEF ItemsAreRemoved, UnderWay
  <2>4. CASE row # None /\ postgres
    <3>1. /\ up' = [up EXCEPT ![i] = [pc |-> "session", status |-> Recomputed(row)]]
          /\ row' = row /\ UNCHANGED beside
      BY <1>14, <2>4 DEF UploadSave
    <3>2. StatusesHeld'          BY <2>4, <3>1
    <3>3. ClosedWhenRemoved'     BY <2>4, <3>1
    <3>4. OnlySingleCloses'      BY <2>4, <3>1
    <3> QED BY <2>2, <2>3, <3>1, <3>2, <3>3, <3>4
  <2>5. CASE ~(row # None /\ postgres)
    <3>1. /\ up' = [up EXCEPT ![i] = [pc |-> Rest(i), status |-> None]]
          /\ row' = (IF row = None THEN None ELSE Recomputed(row)) /\ UNCHANGED beside
      BY <1>14, <2>5 DEF UploadSave
    <3>2. StatusesHeld'          BY <2>5, <3>1
    <3>3. ClosedWhenRemoved'     BY <2>5, <3>1
    <3>4. OnlySingleCloses'      BY <2>5, <3>1
    <3> QED BY <2>2, <2>3, <3>1, <3>2, <3>3, <3>4
  <2> QED BY <2>4, <2>5
<1>15. CASE UploadSaveRefused(i) BY <1>15 DEF UploadSaveRefused
<1>16. CASE UploadSession(i)     BY <1>16 DEF UploadSession
<1>17. CASE UploadFails(i)
  <2>1. /\ up' = [up EXCEPT ![i] = [pc |-> IF up[i].pc = "insert" THEN "done" ELSE Rest(i),
                                   status |-> None]]
        /\ UNCHANGED <<beside, row, files, excused>>
    BY <1>17 DEF UploadFails, UpTo
  <2>2. CASE UNCHANGED item
    BY <2>1, <2>2
  <2>3. CASE i \in Items /\ up[i].pc \in {"load", "save"}
    <3>1. MarkFailed(i) /\ up'[i].pc = "done"
      BY <1>17, <2>1, <2>3 DEF UploadFails
    <3> QED BY ONLY TypeInv, SafeInv, <2>1, <3>1, MarkFailedKeepsSafe DEF TypeInv, TypeOK, files
  <2> QED BY <1>17, <2>2, <2>3 DEF UploadFails
<1> QED  BY <1>1, <1>2, <1>3, <1>4, <1>5, <1>6, <1>7, <1>8, <1>9, <1>10, <1>11,
            <1>12, <1>13, <1>14, <1>15, <1>16, <1>17 DEF Upload

\* Every step keeps it.
LEMMA StepKeepsSafe ==
    ASSUME TypeInv, SafeInv, [Next]_vars
    PROVE  SafeInv'
<1> USE LifecycleAssumption
    DEF TypeInv, TypeOK, SafeInv, RowsAreRemoved, ItemsAreRemoved, FilesBehind, StatusesHeld,
        ClosedWhenRemoved, ClosedWhenBurned, OnlySingleCloses, UnderWay, Published, Servable,
        settings, files, history, handlers, SaveExpired, SessionRows, ItemRows, DownTo
<1>1. ASSUME NEW i \in All, Upload(i) PROVE SafeInv'
  BY ONLY TypeInv, SafeInv, <1>1, UploadKeepsSafe
<1>2. ASSUME NEW d \in Downloads, Download(d) PROVE SafeInv'
  <2>1. ASSUME NEW i \in All, DownloadAdmit(d, i) PROVE SafeInv'
    BY <2>1 DEF DownloadAdmit
  <2>2. CASE DownloadExpired(d)  BY <2>2 DEF DownloadExpired
  <2>3. CASE DownloadExpire(d)   BY <2>3 DEF DownloadExpire
  <2>4. CASE Serve(d)            BY <2>4 DEF Serve
  <2>5. CASE BurnLoad(d)         BY <2>5 DEF BurnLoad
  <2>6. CASE BurnSave(d)         BY <2>6 DEF BurnSave
  <2>7. CASE DownloadFails(d)    BY <2>7 DEF DownloadFails
  <2> QED BY <1>2, <2>1, <2>2, <2>3, <2>4, <2>5, <2>6, <2>7 DEF Download
<1>3. CASE DeleteStart     BY <1>3 DEF DeleteStart
<1>4. ASSUME NEW who \in {"owner", "cleanup"}, DeleteRows(who),
             UNCHANGED <<settings, due, files, up, dl, burned>>,
             cln'.pc = "files" => cln.pc = "files"
      PROVE  SafeInv'
  BY <1>4 DEF DeleteRows
<1>5. CASE DeleteCommit    BY ONLY <1>4, <1>5 DEF DeleteCommit
<1>6. ASSUME NEW i \in Resumables, DeletePart(i) PROVE SafeInv'
  BY <1>6 DEF DeletePart
<1>7. CASE CleanupList     BY <1>7 DEF CleanupList
<1>8. CASE CleanupCommit   BY ONLY <1>4, <1>8 DEF CleanupCommit, NoCleanup
<1>9. ASSUME NEW i \in All, CleanupFile(i) PROVE SafeInv'
  BY <1>9 DEF CleanupFile
<1>10. CASE TimePasses     BY <1>10 DEF TimePasses
<1>11. CASE Crash          BY <1>11, RestIsAStep DEF Crash, NoCleanup
<1>12. CASE UNCHANGED vars BY <1>12 DEF vars
<1>13. CASE DeletionFails  BY <1>13 DEF DeletionFails
<1>14. CASE CleanupFails   BY <1>14 DEF CleanupFails, NoCleanup
<1> QED BY <1>1, <1>2, <1>3, <1>5, <1>6, <1>7, <1>8, <1>9, <1>10, <1>11, <1>12, <1>13, <1>14
        DEF Next, Deletion, Cleanup

\* The invariant needs no fairness, so it holds of whatever takes these steps.
LEMMA SafeOfSteps == Init /\ [][Next]_vars => [](TypeInv /\ SafeInv)
<1>1. Init => SafeInv
  BY LifecycleAssumption
     DEF Init, SafeInv, RowsAreRemoved, ItemsAreRemoved, FilesBehind, StatusesHeld,
         ClosedWhenRemoved, ClosedWhenBurned, OnlySingleCloses, UnderWay, Published, NoCleanup,
         SessionRows, ItemRows
<1> QED BY <1>1, TypesHold, StepKeepsSafe, PTL

\* It is an invariant of the specification.
LEMMA SafeInvariant == Spec => [](TypeInv /\ SafeInv)
BY SafeOfSteps DEF Spec

\* On both databases, and whatever uploads, downloads, deletions and cleanups
\* are under way, an item that can be downloaded has its file.
THEOREM PublishedItemsHaveFiles == Spec => []PublishedHasFile
<1>1. SafeInv => PublishedHasFile
  BY DEF SafeInv, FilesBehind, ClosedWhenRemoved, PublishedHasFile, Servable
<1> QED BY <1>1, SafeInvariant, PTL

\* Nor does what follows need fairness.
LEMMA RemovalOfSteps == Init /\ [][Next]_vars => []RemovedStaysClosed
<1>1. SafeInv => RemovedStaysClosed
  BY DEF SafeInv, ClosedWhenRemoved, RemovedStaysClosed, Servable
<1> QED BY <1>1, SafeOfSteps, PTL

\* A session that has been removed is never served again, although merges bring
\* its row back.
THEOREM RemovedSessionsStayClosed == Spec => []RemovedStaysClosed
BY RemovalOfSteps DEF Spec

\* On SQLite no save undoes a burn.
THEOREM BurnedSessionsStayExpired == Spec => []BurnedStaysExpired
<1>1. TypeInv /\ SafeInv => BurnedStaysExpired
  BY DEF TypeInv, TypeOK, SafeInv, ClosedWhenBurned, BurnedStaysExpired, SessionRows
<1> QED BY <1>1, SafeInvariant, PTL

-----------------------------------------------------------------------------
\* Parts and deletions

PartsAccounted ==
    /\ removed = "nobody" => \A i \in parts : item[i] # None
    /\ del.pc = "row" \/ removed = "owner" =>
          \A i \in All : up[i].pc = "append" => i \in excused
    /\ removed = "owner" => parts \subseteq excused
    /\ del.pc = "row" /\ removed = "nobody" => parts \subseteq excused \cup del.parts

\* A step of an upload keeps account of the parts: Append is the one that adds one.
LEMMA UploadKeepsParts ==
    ASSUME TypeInv, SafeInv, PartsAccounted, NEW i \in All, Upload(i)
    PROVE  PartsAccounted'
<1> USE LifecycleAssumption, RestIsAStep
       DEF TypeInv, TypeOK, PostsAreWhole, SafeInv, ItemsAreRemoved, PartsAccounted, UnderWay,
           UpTo, beside, settings, files, SessionRows, ItemRows
<1>1. CASE UploadAdmit(i)        BY <1>1 DEF UploadAdmit
<1>2. CASE UploadExpire(i)       BY <1>2 DEF UploadExpire
<1>3. CASE UploadInsert(i)
  <2>1. item'[i] = None => item[i] = None
    BY <1>3 DEF UploadInsert
  <2>2. \A j \in All : j # i => item'[j] = item[j] /\ up'[j] = up[j]
    BY <1>3 DEF UploadInsert
  <2>3. up'[i].pc # "append" /\ UNCHANGED <<removed, del, parts, excused>>
    BY <1>3 DEF UploadInsert
  <2>4. parts \subseteq All
    BY DEF All
  <2> QED BY ONLY <2>1, <2>2, <2>3, <2>4, PartsAccounted DEF PartsAccounted
<1>4. CASE StoreFile(i)          BY <1>4 DEF StoreFile
<1>5. CASE StoreFails(i)
  <2>1. /\ \A j \in All : (j # i => up'[j] = up[j]) /\ (item[j] # None => item'[j] # None)
        /\ up'[i].pc # "append" /\ UNCHANGED <<removed, del, parts, excused>>
    BY <1>5 DEF StoreFails, MarkFailed
  <2> QED BY ONLY <2>1, PartsAccounted, TypeInv DEF PartsAccounted, TypeInv, TypeOK, All
<1>6. CASE PatchAdmit(i)         BY <1>6 DEF PatchAdmit
<1>7. CASE Append(i)
  <2>1. /\ \A j \in All : j # i => up'[j] = up[j]
        /\ up'[i].pc # "append" /\ up[i].pc = "append"
        /\ parts' = parts \cup {i} /\ UNCHANGED <<removed, del, item, excused>>
    BY <1>7 DEF Append
  <2> QED BY <2>1
<1>8. CASE AppendFails(i)        BY <1>8 DEF AppendFails
<1>9. CASE ProgressLoad(i)       BY <1>9 DEF ProgressLoad
<1>10. CASE ProgressSave(i)      BY <1>10 DEF ProgressSave
<1>11. CASE Move(i)              BY <1>11 DEF Move
<1>12. CASE MoveFails(i)         BY <1>12 DEF MoveFails
<1>13. CASE UploadLoad(i)        BY <1>13 DEF UploadLoad
<1>14. CASE UploadSave(i)
  <2>1. /\ \A j \in All : j # i => up'[j] = up[j] /\ item'[j] = item[j]
        /\ up'[i].pc # "append" /\ item'[i] # None
        /\ parts \subseteq All /\ UNCHANGED <<removed, del, parts, excused>>
    BY <1>14 DEF UploadSave, All
  <2> QED BY ONLY <2>1, PartsAccounted DEF PartsAccounted
<1>15. CASE UploadSaveRefused(i) BY <1>15 DEF UploadSaveRefused
<1>16. CASE UploadSession(i)     BY <1>16 DEF UploadSession
<1>17. CASE UploadFails(i)
  <2>1. /\ \A j \in All : (j # i => up'[j] = up[j]) /\ (item[j] # None => item'[j] # None)
        /\ up'[i].pc # "append" /\ UNCHANGED <<removed, del, parts, excused>>
    BY <1>17 DEF UploadFails, MarkFailed
  <2> QED BY ONLY <2>1, PartsAccounted, TypeInv DEF PartsAccounted, TypeInv, TypeOK, All
<1> QED  BY <1>1, <1>2, <1>3, <1>4, <1>5, <1>6, <1>7, <1>8, <1>9, <1>10, <1>11,
            <1>12, <1>13, <1>14, <1>15, <1>16, <1>17 DEF Upload

\* Every step does.
LEMMA StepKeepsParts ==
    ASSUME TypeInv, SafeInv, PartsAccounted, [Next]_vars
    PROVE  PartsAccounted'
<1> USE LifecycleAssumption
    DEF TypeInv, TypeOK, SafeInv, RowsAreRemoved, PartsAccounted, settings, files, history,
        handlers, ItemRows
<1>1. ASSUME NEW i \in All, Upload(i) PROVE PartsAccounted'
  BY ONLY TypeInv, SafeInv, PartsAccounted, <1>1, UploadKeepsParts
<1>2. ASSUME NEW d \in Downloads, Download(d) PROVE PartsAccounted'
  BY <1>2 DEF Download, DownloadAdmit, DownloadExpired, DownloadExpire, Serve, BurnLoad,
              BurnSave, DownloadFails
<1>3. CASE DeleteStart     BY <1>3 DEF DeleteStart, Overlapping, PostsAreWhole, All
<1>4. CASE DeleteCommit    BY <1>4 DEF DeleteCommit, DeleteRows, NoDeletion
<1>5. ASSUME NEW i \in Resumables, DeletePart(i) PROVE PartsAccounted'
  BY <1>5 DEF DeletePart
<1>6. CASE CleanupList     BY <1>6 DEF CleanupList
<1>7. CASE CleanupCommit   BY <1>7 DEF CleanupCommit, DeleteRows
<1>8. ASSUME NEW i \in All, CleanupFile(i) PROVE PartsAccounted'
  BY <1>8 DEF CleanupFile
<1>9. CASE TimePasses      BY <1>9 DEF TimePasses
<1>10. CASE Crash          BY <1>10, RestIsAStep DEF Crash, NoDeletion
<1>11. CASE UNCHANGED vars BY <1>11 DEF vars
<1>12. CASE DeletionFails  BY <1>12 DEF DeletionFails, NoDeletion
<1>13. CASE CleanupFails   BY <1>13 DEF CleanupFails
<1> QED BY <1>1, <1>2, <1>3, <1>4, <1>5, <1>6, <1>7, <1>8, <1>9, <1>10, <1>11, <1>12, <1>13
        DEF Next, Deletion, Cleanup

\* Nor does this need fairness.
LEMMA DeletionOfSteps == Init /\ [][Next]_vars => []DeletionLeavesNoPart
<1>1. Init => PartsAccounted
  BY DEF Init, PartsAccounted, NoDeletion
<1>2. PartsAccounted => DeletionLeavesNoPart
  BY DEF PartsAccounted, DeletionLeavesNoPart
<1> QED BY <1>1, <1>2, SafeOfSteps, StepKeepsParts, PTL

\* The owner's deletion removes every part, whatever crashed before, except of
\* uploads it overlapped, or that it failed to unlink.
THEOREM DeletionsLeaveNoPart == Spec => []DeletionLeavesNoPart
BY DeletionOfSteps DEF Spec

-----------------------------------------------------------------------------
\* The session implements SessionOffer

\* What the offer does not depend on may change.
LEMMA StaysAsOffered ==
    ASSUME UNCHANGED <<settings, row, item, due, removed>>
    PROVE  UNCHANGED Offer!vars
  BY DEF Offer!vars, Phase, Offered, Over, Published, settings

\* Saving the session as expired is a burn, or changes nothing of the offer.
LEMMA ExpiryIsABurn ==
    ASSUME row' = "expired", UNCHANGED <<settings, item, due, removed>>, ~Over => burn
    PROVE  [Offer!Next]_(Offer!vars)
<1>1. Over' = Over /\ Offered' = Offered /\ burn' = burn /\ postgres' = postgres
  BY DEF Over, Offered, Published, settings
<1>2. CASE Over \/ row = "expired"
  BY <1>1, <1>2 DEF Phase, Offer!vars
<1>3. CASE ~Over /\ row # "expired"
  BY <1>1, <1>3 DEF Phase, Offer!Next, Offer!Burn
<1> QED BY <1>2, <1>3

\* After expiry or removal nothing is offered.
LEMMA SomethingEndsIt ==
    ASSUME Over', UNCHANGED settings
    PROVE  [Offer!Next]_(Offer!vars)
<1>1. Phase' = "over" /\ Offered' = {} /\ burn' = burn /\ postgres' = postgres
  BY DEF Phase, Offered, settings
<1>2. CASE Over
  BY <1>1, <1>2 DEF Phase, Offered, Offer!vars
<1>3. CASE ~Over
  BY <1>1, <1>3 DEF Phase, Offer!Next, Offer!Finish
<1> QED BY <1>2, <1>3

\* A step of an upload publishes, reopens a session (on PostgreSQL), or is none of
\* SessionOffer.
LEMMA UploadKeepsOffer ==
    ASSUME TypeInv, SafeInv, NEW i \in All, Upload(i)
    PROVE  [Offer!Next]_(Offer!vars)
<1>1. UNCHANGED <<settings, due, removed>>
  BY DEF Upload, UploadAdmit, UploadExpire, UploadInsert, StoreFile, StoreFails, PatchAdmit,
         Append, AppendFails, ProgressLoad, ProgressSave, Move, MoveFails, UploadLoad,
         UploadSave, UploadSaveRefused, UploadSession, UploadFails, beside
<1>2. CASE Over
  BY <1>1, <1>2, SomethingEndsIt DEF Over
<1>3. CASE ~Over /\ row' = row /\ Offered' = Offered
  BY <1>1, <1>3 DEF Offer!vars, Phase, Over, settings
<1>4. ASSUME ~Over, UploadExpire(i) PROVE FALSE
  BY <1>4 DEF SafeInv, ItemsAreRemoved, UploadExpire, Over
<1>5. ASSUME ~Over, UploadInsert(i) PROVE row' = row /\ Offered' = Offered
  <2>1. item[i] = None /\ row' = row
    BY <1>5 DEF SafeInv, ItemsAreRemoved, UploadInsert
  <2>2. item' = item \/ item' = [item EXCEPT ![i] = "begun"]
    BY <1>5 DEF UploadInsert
  <2>3. \A j \in All : Published(j)' <=> Published(j)
    BY <2>1, <2>2, LifecycleAssumption DEF Published, TypeInv, TypeOK, ItemRows
  <2> QED BY <1>1, <2>1, <2>3 DEF Offered, Over
<1>6. ASSUME ~Over, ProgressSave(i) PROVE row' = row /\ Offered' = Offered
  <2>1. item[i] # None /\ row' = row
    BY <1>6 DEF SafeInv, ItemsAreRemoved, UnderWay, ProgressSave, Over
  <2>2. item' = item
    BY <1>6, <2>1 DEF ProgressSave, TypeInv, TypeOK
  <2> QED BY <1>1, <2>1, <2>2 DEF Offered, Over, Published
<1>7. ASSUME ~Over, UploadSave(i) PROVE [Offer!Next]_(Offer!vars)
  <2>1. item' = [item EXCEPT ![i] = "published"]
    BY <1>7 DEF UploadSave
  <2>2. row' = row
    BY <1>7 DEF UploadSave, Recomputed, TypeInv, TypeOK, SessionRows, SafeInv, RowsAreRemoved, Over
  <2>3. Offered' = Offered \cup {i}
    <3>1. \A j \in All : Published(j)' <=> Published(j) \/ j = i
      BY <2>1 DEF Published, TypeInv, TypeOK
    <3> QED BY <1>1, <1>7, <3>1 DEF Offered, Over
  <2> QED BY <1>1, <1>7, <2>2, <2>3 DEF Phase, Over, settings, Offer!Next, Offer!Publish
<1>8. ASSUME ~Over, UploadSession(i) PROVE [Offer!Next]_(Offer!vars)
  <2>1. /\ row' = up[i].status /\ row' \in SessionRows /\ row \in SessionRows
        /\ postgres /\ Offered' = Offered /\ Over' = Over
    BY <1>1, <1>8
       DEF UploadSession, TypeInv, TypeOK, SafeInv, StatusesHeld, Offered, Over, Published
  <2>2. CASE row' = row
    BY <1>3, <1>8, <2>1, <2>2
  <2>3. CASE row = "live" /\ row' = "expired"
    <3>1. burn
      BY <1>8, <2>1, <2>3 DEF SafeInv, OnlySingleCloses, UploadSession, Over
    <3> QED BY <1>1, <1>8, <2>1, <2>3, <3>1 DEF Phase, settings, Offer!Next, Offer!Burn
  <2>4. CASE row = "expired" /\ row' = "live"
    BY <1>1, <1>8, <2>1, <2>4 DEF Phase, settings, Offer!Next, Offer!Reopen
  <2> QED BY <2>1, <2>2, <2>3, <2>4 DEF SessionRows
<1>9. ASSUME ~Over, UNCHANGED <<row, item>> PROVE row' = row /\ Offered' = Offered
  BY <1>1, <1>9 DEF Offered, Over, Published
<1>10. ASSUME ~Over, StoreFails(i) \/ UploadFails(i) PROVE row' = row /\ item' = item
  <2>1. /\ row' = row
        /\ item' = item \/ (up[i].pc \in {"file", "load", "save"} /\ MarkFailed(i))
    <3>1. CASE StoreFails(i)   BY <3>1 DEF StoreFails
    <3>2. CASE UploadFails(i)
      <4>1. row' = row
        BY <3>2 DEF UploadFails
      <4>2. CASE i \in Items /\ up[i].pc \in {"load", "save"}
        BY <3>2, <4>1, <4>2, Zenon DEF UploadFails
      <4>3. CASE ~(i \in Items /\ up[i].pc \in {"load", "save"})
        BY <3>2, <4>1, <4>3 DEF UploadFails
      <4> QED BY <4>2, <4>3
    <3> QED BY <1>10, <3>1, <3>2
  <2>2. item[i] # None \/ up[i].pc \notin {"file", "load", "save"}
    BY <1>10 DEF SafeInv, ItemsAreRemoved, UnderWay, Over
  <2> QED BY <2>1, <2>2 DEF MarkFailed
<1> QED
  BY <1>2, <1>3, <1>4, <1>5, <1>6, <1>7, <1>8, <1>9, <1>10
     DEF Upload, UploadAdmit, StoreFile, PatchAdmit, Append, AppendFails,
         ProgressLoad, Move, MoveFails, UploadLoad, UploadSaveRefused

\* Every step is one of SessionOffer, or none.
LEMMA StepKeepsOffer ==
    ASSUME TypeInv, SafeInv, [Next]_vars
    PROVE  [Offer!Next]_(Offer!vars)
<1>1. ASSUME NEW i \in All, Upload(i) PROVE [Offer!Next]_(Offer!vars)
  BY <1>1, UploadKeepsOffer
<1>2. ASSUME NEW d \in Downloads, Download(d) PROVE [Offer!Next]_(Offer!vars)
  <2>1. UNCHANGED <<settings, item, due, removed>>
    BY <1>2 DEF Download, DownloadAdmit, DownloadExpired, DownloadExpire, Serve, BurnLoad,
                BurnSave, DownloadFails, history
  <2>2. CASE row' = row
    BY <2>1, <2>2, StaysAsOffered
  <2>3. CASE DownloadExpire(d) \/ BurnSave(d)
    <3>1. row' = "expired" /\ (~Over => burn)
      BY <2>3 DEF DownloadExpire, BurnSave, SaveExpired, SafeInv, OnlySingleCloses, Over
    <3> QED BY <2>1, <3>1, ExpiryIsABurn
  <2> QED BY <1>2, <2>2, <2>3 DEF Download, DownloadAdmit, DownloadExpired, Serve, BurnLoad,
                                          DownloadFails
<1>3. ASSUME NEW who \in {"owner", "cleanup"}, DeleteRows(who), UNCHANGED <<settings, due>>
      PROVE  [Offer!Next]_(Offer!vars)
  <2>1. removed' # "nobody"
    BY <1>3 DEF DeleteRows, SafeInv, RowsAreRemoved
  <2> QED BY <1>3, <2>1, SomethingEndsIt DEF Over
<1>4. CASE Deletion
  <2>1. CASE DeleteCommit
    BY <1>3, <2>1 DEF DeleteCommit
  <2> QED BY <1>4, <2>1, StaysAsOffered DEF Deletion, DeleteStart, DeletePart, DeletionFails, history
<1>5. CASE Cleanup
  <2>1. CASE CleanupCommit
    BY <1>3, <2>1 DEF CleanupCommit
  <2> QED BY <1>5, <2>1, StaysAsOffered DEF Cleanup, CleanupList, CleanupFile, CleanupFails, history
<1>6. CASE TimePasses
  BY <1>6, SomethingEndsIt DEF TimePasses, Over
<1>7. CASE Crash
  BY <1>7, StaysAsOffered DEF Crash
<1>8. CASE UNCHANGED vars
  BY <1>8, StaysAsOffered DEF vars, history
<1> QED BY <1>1, <1>2, <1>4, <1>5, <1>6, <1>7, <1>8 DEF Next

\* The session, with all that may interleave, fail or crash, offers what
\* SessionOffer says.
THEOREM SessionKeepsOffer == Spec => KeepsOffer
<1>1. Init => Offer!Init
  BY LifecycleAssumption DEF Init, Offer!Init, Phase, Offered, Over, Published, ItemRows
<1> QED BY <1>1, SafeInvariant, StepKeepsOffer, PTL DEF Spec, KeepsOffer, Offer!Spec

=============================================================================

------------------------ MODULE ChunkLifecycle_proofs ------------------------
(* Theorems about ChunkLifecycle: on SQLite the handlers of ChunkUpload, one *)
(* request at a time, implement SessionLifecycle's resumable upload, and    *)
(* what is proved of it holds of them.                                      *)
EXTENDS ChunkLifecycle, ChunkUpload_proofs

-----------------------------------------------------------------------------
\* The invariant

LifeTypes ==
    /\ opening \in {"idle", "expire", "insert", "open", "refused", "done"}
    /\ removed \in {"nobody", "owner", "cleanup"}
    /\ excused \in BOOLEAN

\* What a chunk request at work knows: the item is there (on SQLite its row does
\* not go with the session's), the session it is about to save as expired is past
\* its expiry, what it moves has a hash, and its copy of the row is fresh.
Held(q) ==
    /\ q.pc \in {"check", "write", "probe", "hash", "move", "load", "save"} => item # None
    /\ q.pc = "expire" => session.due
    /\ q.pc = "move" => q.sha # None
    /\ q.pc = "save" => q.snap = item

\* No chunk request is sent before the item is there, and the request that is to
\* insert it saves the session as expired only when it is.
Opened ==
    /\ opening # "open" => AllIdle
    /\ opening = "expire" => session.due

LifeInv ==
    TypeInv /\ LifeTypes /\ AtMostOne /\ Opened /\ \A r \in Requests : Held(req[r])

\* A step of a serial client of ChunkUpload, or one that inserts the item or saves
\* the session.
LEMMA LifeIsSerial ==
    ASSUME [LifeNext]_lifeVars
    PROVE  [SerialNext]_vars \/ InitExpire \/ InitInsert
<1>1. ASSUME NEW r \in Requests, NEW i \in 0 .. Size, NEW j \in 0 .. Size, Send(r, i, j)
      PROVE  [SerialNext]_vars
  BY <1>1 DEF Send, SerialNext
<1>2. ASSUME NEW r \in Requests, Work(r) PROVE [SerialNext]_vars
  BY <1>2 DEF Work, SerialNext
<1>3. CASE InitAdmit \/ InitFails \/ UNCHANGED lifeVars
  BY <1>3 DEF InitAdmit, InitFails, lifeVars
<1>4. CASE BeginDeletion \/ KeepPart \/ Remove \/ Restart \/ Elsewhere
  BY <1>4 DEF BeginDeletion, KeepPart, Remove, Restart, Elsewhere, SerialNext, Housekeeping,
     HousekeepingFails
<1> QED BY <1>1, <1>2, <1>3, <1>4 DEF LifeNext, Opening

\* Hence one of ChunkUpload, or one of those two.
LEMMA LifeIsNext ==
    ASSUME [LifeNext]_lifeVars
    PROVE  [Next]_vars \/ InitExpire \/ InitInsert
BY LifeIsSerial, SerialIsNext

\* The item inserted is an item.
LEMMA NewItem ==
    ASSUME TypeInv
    PROVE  [status |-> "queued", size |-> Size, sha |-> declared, path |-> FALSE] \in Items
<1>1. 0 \in 0 .. Size /\ Size \in 0 .. Size
  BY SizeAssumption
<1>2. Whole \in Contents
  BY <1>1, SliceType DEF Whole
<1>3. declared \in Contents \cup {None, Wrong}
  BY <1>2 DEF TypeInv, TypeOK, Declarable
<1> QED BY <1>3, SizeAssumption DEF Items, ItemStatus

\* Every step keeps the types.
LEMMA LifeTypeStep ==
    ASSUME TypeInv, LifeTypes, [LifeNext]_lifeVars
    PROVE  TypeInv' /\ LifeTypes'
<1>1. TypeInv'
  <2>1. CASE InitExpire
    BY <2>1 DEF InitExpire, TypeInv, TypeOK, Ordered, HoldsItem, Sessions, SessionStatus, disk
  <2>2. CASE InitInsert
    <3>1. item' \in Items
      BY <2>2, NewItem DEF InitInsert
    <3> QED BY <2>2, <3>1 DEF InitInsert, TypeInv, TypeOK, Ordered, HoldsItem, disk
  <2> QED BY <2>1, <2>2, LifeIsNext, TypeStep
<1>2. LifeTypes'
  <2> USE ChunkLifecycleAssumption DEF LifeTypes, history
  <2>1. CASE UNCHANGED lifeVars \/ Opening
    BY <2>1 DEF lifeVars, Opening, InitAdmit, InitExpire, InitInsert, InitFails, Abandoned
  <2>2. ASSUME NEW r \in Requests, (\E i, j \in 0 .. Size : Send(r, i, j)) \/ Work(r)
        PROVE  LifeTypes'
    BY <2>2 DEF Send, Work
  <2>3. CASE BeginDeletion \/ KeepPart \/ Remove \/ Elsewhere
    BY <2>3 DEF BeginDeletion, KeepPart, Remove, RemovedBy, Elsewhere
  <2>4. CASE Restart
    BY <2>4 DEF Restart, Abandoned
  <2> QED BY <2>1, <2>2, <2>3, <2>4 DEF LifeNext
<1> QED BY <1>1, <1>2

\* What a step of the one chunk request at work leaves as it was.
LEMMA WorksAlone ==
    ASSUME TypeInv, AtMostOne, NEW r \in Requests, Handle(r) \/ Fault(r) \/ Finish(r)
    PROVE  /\ req[r].pc # "idle"
           /\ \A q \in Requests \ {r} : req'[q] = req[q] /\ req[q].pc = "idle"
           /\ UNCHANGED <<del, cln, declared, discarded>>
<1>1. req[r].pc # "idle" /\ UNCHANGED <<del, cln, declared, discarded>>
  BY ONLY Handle(r) \/ Fault(r) \/ Finish(r)
     DEF Handle, Fault, Finish, AdmitMissing, AdmitExpired, SaveExpired, AdmitItem, Check,
         AnswerConflict, Write, WriteFails, Hash, Move, PartVanished, Load, SaveMissing,
         SaveProgress, SaveCompleted, StepFails, At
<1>2. \/ \E code : Answer(r, code)
      \/ \E pc, sha : Conclude(r, pc, sha)
      \/ \E pc : Goto(r, pc)
      \/ \E pc : req' = [req EXCEPT ![r].pc = pc, ![r].snap = item]
      \/ req' = [req EXCEPT ![r] = NoRequest]
  <2>1. CASE Finish(r) \/ AdmitItem(r) \/ Load(r)
    BY ONLY <2>1 DEF Finish, AdmitItem, Load
  <2>2. CASE Check(r) \/ Write(r) \/ Hash(r) \/ Move(r) \/ AdmitExpired(r)
    BY ONLY <2>2 DEF Check, Write, Hash, Move, AdmitExpired
  <2>3. CASE \/ AdmitMissing(r) \/ SaveExpired(r) \/ AnswerConflict(r) \/ WriteFails(r)
             \/ PartVanished(r) \/ SaveMissing(r) \/ SaveProgress(r) \/ SaveCompleted(r)
             \/ StepFails(r)
    BY ONLY <2>3 DEF AdmitMissing, SaveExpired, AnswerConflict, WriteFails, PartVanished,
       SaveMissing, SaveProgress, SaveCompleted, StepFails
  <2> QED BY ONLY Handle(r) \/ Fault(r) \/ Finish(r), <2>1, <2>2, <2>3 DEF Handle, Fault
<1>3. \A q \in Requests \ {r} : req'[q] = req[q]
  BY <1>2 DEF Answer, Conclude, Goto, TypeInv, TypeOK
<1> QED BY <1>1, <1>3 DEF AtMostOne

\* A handler's step leaves it holding what it must.
LEMMA HeldStep ==
    ASSUME TypeInv, NEW r \in Requests, Held(req[r]), Handle(r) \/ Fault(r) \/ Finish(r)
    PROVE  Held(req[r])'
<1> USE DEF TypeInv, TypeOK
<1>1. CASE Finish(r) \/ \E code : Answer(r, code)
  <2>1. CASE Finish(r)
    BY <2>1 DEF Finish, NoRequest, Held
  <2>2. CASE \E code : Answer(r, code)
    BY <2>2 DEF Answer, NoRequest, Held
  <2> QED BY <1>1, <2>1, <2>2
<1>2. CASE AdmitExpired(r)
  <2>1. session.due /\ session' = session /\ Conclude(r, "expire", None)
    BY ONLY <1>2 DEF AdmitExpired, rows
  <2>2. req'[r].pc = "expire"
    BY <2>1 DEF Conclude, NoRequest
  <2> QED BY <2>1, <2>2 DEF Held
<1>3. CASE AdmitItem(r)
  <2>1. /\ item # None /\ item' = item
        /\ req' = [req EXCEPT ![r].pc = "check", ![r].snap = item]
    BY ONLY <1>3 DEF AdmitItem, rows
  <2>2. req'[r].pc = "check"
    BY <2>1 DEF Handlers
  <2> QED BY <2>1, <2>2 DEF Held
<1>4. CASE Check(r)
  <2>1. req[r].pc = "check" /\ item' = item /\ \E pc \in {"write", "probe"} : Goto(r, pc)
    BY ONLY <1>4 DEF Check, At, rows
  <2>2. req'[r].pc \in {"write", "probe"}
    BY <2>1 DEF Goto, Handlers
  <2> QED BY <2>1, <2>2 DEF Held
<1>5. CASE Write(r)
  <2>1. /\ req[r].pc = "write" /\ item' = item
        /\ Goto(r, "hash") \/ Conclude(r, "load", None)
    BY ONLY <1>5 DEF Write, At, rows
  <2>2. CASE Goto(r, "hash")
    BY <2>1, <2>2 DEF Goto, Handlers, Held
  <2>3. CASE Conclude(r, "load", None)
    BY <2>1, <2>3 DEF Conclude, NoRequest, Held
  <2> QED BY <2>1, <2>2, <2>3
<1>6. CASE Hash(r) /\ ~\E code : Answer(r, code)
  <2>1. req[r].pc = "hash" /\ item' = item /\ part # None /\ Conclude(r, "move", part)
    BY ONLY <1>6 DEF Hash, At, rows
  <2>2. req'[r].pc = "move" /\ req'[r].sha = part
    BY <2>1 DEF Conclude, NoRequest
  <2> QED BY <2>1, <2>2 DEF Held
<1>7. CASE Move(r)
  <2>1. req[r].pc = "move" /\ item' = item /\ Conclude(r, "load", req[r].sha)
    BY ONLY <1>7 DEF Move, At, rows
  <2>2. req'[r].pc = "load"
    BY <2>1 DEF Conclude, NoRequest
  <2> QED BY <2>1, <2>2 DEF Held
<1>8. CASE Load(r)
  <2>1. /\ req[r].pc = "load" /\ item' = item
        /\ req' = [req EXCEPT ![r].pc = "save", ![r].snap = item]
    BY ONLY <1>8 DEF Load, At, rows
  <2>2. req'[r].pc = "save" /\ req'[r].snap = item
    BY <2>1 DEF Handlers
  <2> QED BY <2>1, <2>2 DEF Held
<1>9. CASE \/ AdmitMissing(r) \/ SaveExpired(r) \/ AnswerConflict(r) \/ WriteFails(r)
           \/ PartVanished(r) \/ SaveMissing(r) \/ SaveProgress(r) \/ SaveCompleted(r)
           \/ StepFails(r)
  <2>1. \E code : Answer(r, code)
    BY ONLY <1>9 DEF AdmitMissing, SaveExpired, AnswerConflict, WriteFails, PartVanished,
       SaveMissing, SaveProgress, SaveCompleted, StepFails
  <2> QED BY <1>1, <2>1
<1> QED BY <1>1, <1>2, <1>3, <1>4, <1>5, <1>6, <1>7, <1>8, <1>9 DEF Handle, Fault

\* The invariant holds when the session has been created.
LEMMA LifeStart == LifeInit => LifeInv
<1> SUFFICES ASSUME LifeInit PROVE LifeInv
  OBVIOUS
<1>1. \A r \in Requests : req[r] = NoRequest /\ req[r].pc = "idle"
  BY DEF LifeInit, NoRequest
<1>2. TypeOK
  <2>1. req \in [Requests -> Handlers]
    BY NoRequestType DEF LifeInit
  <2>2. session \in Sessions /\ cln \in [pc : {"idle", "file", "row"}, path : BOOLEAN]
    BY DEF LifeInit, Sessions, SessionStatus, NoCleanup
  <2> QED BY <2>1, <2>2 DEF LifeInit, TypeOK
<1>3. Ordered /\ HoldsItem /\ AtMostOne /\ \A r \in Requests : Held(req[r])
  BY ONLY <1>1, SizeAssumption DEF Ordered, HoldsItem, AtMostOne, Held, NoRequest
<1>4. LifeTypes
  BY ONLY LifeInit DEF LifeInit, LifeTypes
<1>5. Opened
  BY ONLY <1>1, LifeInit DEF LifeInit, Opened, AllIdle, At
<1> QED BY <1>2, <1>3, <1>4, <1>5 DEF LifeInv, TypeInv

\* On SQLite every step keeps the invariant.
LEMMA LifeStep ==
    ASSUME ~Cascade, LifeInv, [LifeNext]_lifeVars
    PROVE  LifeInv'
<1> USE DEF LifeInv
<1>1. TypeInv' /\ LifeTypes'
  BY LifeTypeStep
<1>2. ASSUME req' = req, item' \in {item} \/ AllIdle, session.due => session'.due,
             opening' # "open" => opening # "open" \/ AllIdle,
             opening' = "expire" => session'.due
      PROVE  LifeInv'
  <2>1. AtMostOne' /\ Opened'
    BY <1>2 DEF AtMostOne, Opened, AllIdle, At
  <2>2. \A r \in Requests : Held(req[r])'
    BY <1>2 DEF Held, AllIdle, At
  <2> QED BY <1>1, <2>1, <2>2
<1>3. CASE UNCHANGED lifeVars
  BY <1>2, <1>3 DEF lifeVars, vars, rows, Opened
<1>4. CASE Opening
  <2>1. opening # "open" /\ AllIdle
    BY <1>4 DEF Opening, InitAdmit, InitExpire, InitInsert, InitFails, Opened
  <2>2. /\ req' = req /\ (session.due => session'.due)
        /\ opening' = "expire" => session'.due
    BY <1>4 DEF Opening, InitAdmit, InitExpire, InitInsert, InitFails, Abandoned, vars, rows
  <2> QED BY <1>2, <2>1, <2>2
<1>5. ASSUME NEW r \in Requests, NEW i, NEW j, Send(r, i, j) PROVE LifeInv'
  <2>1. /\ opening' = "open" /\ \A q \in Requests : req[q].pc = "idle"
        /\ req' = [req EXCEPT ![r] = [NoRequest EXCEPT !.pc = "admit", !.from = i, !.to = j]]
    BY ONLY <1>5 DEF Send, Receive, AllIdle, At
  <2>2. req'[r].pc = "admit" /\ \A q \in Requests \ {r} : req'[q].pc = "idle"
    BY <2>1 DEF NoRequest, TypeInv, TypeOK
  <2>3. AtMostOne' /\ Opened' /\ \A q \in Requests : Held(req[q])'
    BY ONLY <2>1, <2>2 DEF AtMostOne, Opened, Held
  <2> QED BY <1>1, <2>3
<1>6. ASSUME NEW r \in Requests, Work(r) PROVE LifeInv'
  <2>1. Handle(r) \/ Fault(r) \/ Finish(r)
    BY ONLY <1>6 DEF Work
  <2>2. /\ req[r].pc # "idle"
        /\ \A q \in Requests \ {r} : req'[q] = req[q] /\ req[q].pc = "idle"
    BY <2>1, WorksAlone
  <2>3. opening = "open" /\ opening' = "open"
    BY ONLY <1>6, LifeInv, <2>2 DEF Work, Opened, AllIdle, At
  <2>4. Held(req[r])'
    BY <2>1, HeldStep
  <2>5. AtMostOne' /\ Opened' /\ \A q \in Requests : Held(req[q])'
    BY ONLY <2>2, <2>3, <2>4 DEF AtMostOne, Opened, Held
  <2> QED BY <1>1, <2>5
<1>7. CASE BeginDeletion \/ KeepPart \/ Remove \/ Elsewhere
  <2>1. /\ req' = req /\ item' = item /\ opening' = opening
        /\ session.due => session'.due
    BY <1>7 DEF BeginDeletion, DeleteStart, KeepPart, DeletePartFails, Remove, DeleteRow,
       CleanupRow, RowsDeleted, Elsewhere, DeletePart, DeleteFails, CleanupList, CleanupFile,
       CleanupFails, TimePasses, TypeInv, TypeOK, Sessions, rows
  <2> QED BY <1>2, <2>1 DEF Opened
<1>8. CASE Restart
  <2>1. /\ \A r \in Requests : req'[r].pc = "idle"
        /\ opening' # "expire"
    BY <1>8 DEF Restart, Abandoned, Crash, NoRequest
  <2> QED BY <1>1, <2>1 DEF AtMostOne, Opened, AllIdle, At, Held
<1> QED BY <1>3, <1>4, <1>5, <1>6, <1>7, <1>8 DEF LifeNext

-----------------------------------------------------------------------------
\* The refinement

\* The upload is where its only request is.
LEMMA OnlyRequest ==
    ASSUME NEW f, NEW r \in Requests, \A q \in Requests \ {r} : f[q].pc = "idle"
    PROVE  UploadOf("open", f) = StepOf(f[r])
<1>1. CASE \A q \in Requests : f[q].pc = "idle"
  BY <1>1 DEF UploadOf, StepOf
<1>2. CASE f[r].pc # "idle"
  <2>1. (CHOOSE q \in Requests : f[q].pc # "idle") = r
    BY <1>2
  <2> QED BY <1>2, <2>1 DEF UploadOf
<1> QED BY <1>1, <1>2

\* What SessionLifecycle sees of a state.
Seen == <<Row, session.due, ItemRow, OfItem(stored # None), OfItem(part # None),
          UploadOf(opening, req), del, cln, removed, excused>>

\* A step that changes nothing of it is none of SessionLifecycle.
LEMMA SeenStutters == ASSUME UNCHANGED Seen PROVE UNCHANGED Lifecycle!vars
BY DEF Seen, Lifecycle!vars, Lifecycle!settings, Lifecycle!files, Lifecycle!handlers,
       Lifecycle!history

\* Where the upload goes, and what does not change with it.
LEMMA UploadGoes ==
    ASSUME NEW x, UploadOf(opening', req') = x
    PROVE  Lifecycle!UpTo(Item, x)
BY DEF Lifecycle!UpTo

\* Nor does the upload touch what its deletion and its session go by.
LEMMA BesideStays ==
    ASSUME UNCHANGED <<del, cln, removed>>, session'.due = session.due
    PROVE  UNCHANGED Lifecycle!beside
BY DEF Lifecycle!beside, Lifecycle!settings

\* A step of the upload is a step of the session.
LEMMA UploadIsNext == ASSUME Lifecycle!Upload(Item) PROVE Lifecycle!Next
BY DEF Lifecycle!Next, Lifecycle!All

\* The request that initialises the item.
LEMMA OpeningRefines ==
    ASSUME ~Cascade, LifeInv, Opening
    PROVE  [Lifecycle!Next]_(Lifecycle!vars)
<1> USE DEF LifeInv, history
<1>1. opening # "open"
  BY DEF Opening, InitAdmit, InitExpire, InitInsert, InitFails
<1>2. UploadOf(opening, req) = IF opening = "refused" THEN "open" ELSE opening
  BY <1>1 DEF UploadOf
<1>3. CASE InitAdmit
  <2>1. /\ opening = "idle" /\ UNCHANGED <<vars, history>>
        /\ opening' = IF ~session.row THEN "done" ELSE IF session.due THEN "expire" ELSE "insert"
    BY <1>3 DEF InitAdmit
  <2>2. UploadOf(opening', req') = opening' /\ UploadOf(opening, req) = "idle"
    BY <1>2, <2>1 DEF UploadOf
  <2>3. Lifecycle!UpTo(Item, IF Row = None THEN "done"
                             ELSE IF session.due THEN "expire" ELSE "insert")
    <3>1. opening' = IF Row = None THEN "done"
                     ELSE IF session.due THEN "expire" ELSE "insert"
      BY <2>1, ChunkLifecycleAssumption DEF Row
    <3> QED BY ONLY <2>2, <3>1, UploadGoes
  <2>4. UNCHANGED <<Row, ItemRow, excused, stored, part>> /\ UNCHANGED Lifecycle!beside
    BY <2>1, BesideStays DEF vars, disk, rows, Row, ItemRow
  <2>5. UNCHANGED <<Lifecycle!beside, Row, [i \in {Item} |-> ItemRow], Lifecycle!files, OfItem(excused)>>
    BY ONLY <2>4 DEF Lifecycle!files
  <2>6. Lifecycle!UploadAdmit(Item)
    BY ONLY <2>2, <2>3, <2>5 DEF Lifecycle!UploadAdmit
  <2> QED BY <2>6, UploadIsNext DEF Lifecycle!Upload
<1>4. CASE InitExpire
  <2>1. /\ opening = "expire" /\ opening' = "refused" /\ session.due
        /\ session' = [row |-> TRUE, due |-> TRUE, status |-> "expired"]
        /\ UNCHANGED <<disk, item, del, cln, history>>
    BY <1>4 DEF InitExpire, Opened
  <2>2. UploadOf(opening', req') = "open" /\ UploadOf(opening, req) = "expire"
    BY <1>2, <2>1 DEF UploadOf
  <2>3. Lifecycle!UpTo(Item, "open") /\ Lifecycle!Rest(Item) = "open"
    BY ONLY <2>2, UploadGoes DEF Lifecycle!Rest
  <2>4. Row' = "expired" /\ UNCHANGED <<ItemRow, excused, stored, part>>
    BY <2>1 DEF Row, ItemRow, disk
  <2>5. UNCHANGED Lifecycle!beside
    BY <2>1, BesideStays
  <2>6. UNCHANGED <<[i \in {Item} |-> ItemRow], Lifecycle!files, OfItem(excused)>>
    BY ONLY <2>4 DEF Lifecycle!files
  <2>7. Lifecycle!UploadExpire(Item)
    BY ONLY <2>2, <2>3, <2>4, <2>5, <2>6 DEF Lifecycle!UploadExpire, Lifecycle!SaveExpired
  <2> QED BY <2>7, UploadIsNext DEF Lifecycle!Upload
<1>5. CASE InitInsert
  <2>1. /\ opening = "insert" /\ opening' = "open" /\ req' = req
        /\ item' = [status |-> "queued", size |-> Size, sha |-> declared, path |-> FALSE]
        /\ UNCHANGED <<disk, session, del, cln, history>>
    BY <1>5 DEF InitInsert
  <2>2. UploadOf(opening', req') = "open" /\ UploadOf(opening, req) = "insert"
    BY <1>1, <1>2, <2>1 DEF UploadOf, Opened, AllIdle, At
  <2>3. Lifecycle!UpTo(Item, "open")
    BY ONLY <2>2, UploadGoes
  <2>4. UNCHANGED <<Row, excused, stored, part>> /\ UNCHANGED Lifecycle!beside
    BY <2>1, BesideStays DEF Row, disk
  <2>5. ItemRow' = "begun"
    <3>1. item' # None /\ item'.path = FALSE
      BY <2>1, NewItem, SentinelAssumption
    <3> QED BY <3>1 DEF ItemRow
  <2>6. UNCHANGED <<Row, Lifecycle!files, OfItem(excused)>>
    BY ONLY <2>4 DEF Lifecycle!files
  <2>7. /\ [i \in {Item} |-> ItemRow]' = [[i \in {Item} |-> ItemRow] EXCEPT ![Item] = "begun"]
        /\ ~Lifecycle!Refused(Item) /\ Item \notin {}
    BY <2>5 DEF Lifecycle!Refused
  <2>8. Lifecycle!UploadInsert(Item)
    BY ONLY <2>2, <2>3, <2>4, <2>6, <2>7 DEF Lifecycle!UploadInsert
  <2> QED BY <2>8, UploadIsNext DEF Lifecycle!Upload
<1>6. CASE InitFails
  <2>1. /\ opening \in {"expire", "insert"} /\ opening' = Abandoned
        /\ UNCHANGED <<vars, history>>
    BY <1>6 DEF InitFails
  <2>2. /\ UploadOf(opening, req) = opening
        /\ UploadOf(opening', req') = IF opening = "insert" THEN "done" ELSE "open"
    BY <1>2, <2>1 DEF UploadOf, Abandoned
  <2>3. /\ Lifecycle!UpTo(Item, IF opening = "insert" THEN "done" ELSE "open")
        /\ Lifecycle!Rest(Item) = "open"
    BY ONLY <2>2, UploadGoes DEF Lifecycle!Rest
  <2>4. UNCHANGED <<Row, ItemRow, excused, stored, part>> /\ UNCHANGED Lifecycle!beside
    BY <2>1, BesideStays DEF vars, disk, rows, Row, ItemRow
  <2>5. UNCHANGED <<Row, [i \in {Item} |-> ItemRow], Lifecycle!files, OfItem(excused)>>
    BY ONLY <2>4 DEF Lifecycle!files
  <2>6. Lifecycle!UploadFails(Item)
    BY ONLY <2>1, <2>2, <2>3, <2>4, <2>5 DEF Lifecycle!UploadFails
  <2> QED BY <2>6, UploadIsNext DEF Lifecycle!Upload
<1> QED BY <1>3, <1>4, <1>5, <1>6 DEF Opening

\* A chunk request at work is all that is seen of the upload.
LEMMA WorkSeen ==
    ASSUME LifeInv, NEW r \in Requests, Work(r)
    PROVE  /\ UploadOf(opening, req) = StepOf(req[r])
           /\ UploadOf(opening', req') = StepOf(req'[r])
           /\ Lifecycle!UpTo(Item, StepOf(req'[r]))
           /\ UNCHANGED Lifecycle!beside
           /\ UNCHANGED <<session.due, del, cln, removed>>
<1> USE DEF LifeInv
<1>1. (Handle(r) \/ Fault(r) \/ Finish(r)) /\ UNCHANGED <<opening, removed>>
  BY ONLY Work(r) DEF Work
<1>2. /\ req[r].pc # "idle" /\ UNCHANGED <<del, cln>>
      /\ \A q \in Requests \ {r} : req'[q] = req[q] /\ req[q].pc = "idle"
  BY <1>1, WorksAlone
<1>3. opening = "open"
  BY ONLY LifeInv, <1>2 DEF Opened, AllIdle, At
<1>4. UploadOf(opening, req) = StepOf(req[r]) /\ UploadOf(opening', req') = StepOf(req'[r])
  BY ONLY <1>1, <1>2, <1>3, OnlyRequest
<1>5. session'.due = session.due
  <2>1. CASE SaveExpired(r)
    <3>1. session.due
      BY ONLY <2>1, LifeInv DEF SaveExpired, At, Held
    <3>2. session'.due
      BY ONLY <2>1 DEF SaveExpired
    <3> QED BY ONLY <3>1, <3>2, LifeInv, LifeTypeStep, <2>1 DEF SaveExpired, TypeInv, TypeOK, Sessions
  <2>2. CASE SaveCompleted(r)
    BY <2>2 DEF SaveCompleted, TypeInv, TypeOK, Sessions
  <2> QED BY <1>1, <2>1, <2>2
          DEF Handle, Fault, Finish, AdmitMissing, AdmitExpired, AdmitItem, Check,
              AnswerConflict, Write, WriteFails, Hash, Move, PartVanished, Load, SaveMissing,
              SaveProgress, StepFails, rows
<1> QED BY ONLY <1>1, <1>2, <1>4, <1>5, UploadGoes, BesideStays

\* A request that is given up, whatever it has written of its chunk.
LEMMA GivesUp ==
    ASSUME LifeInv, NEW r \in Requests, Work(r), StepOf(req'[r]) = "open",
           UNCHANGED <<session, item, stored, excused>>,
           part' = part \/ (StepOf(req[r]) = "append" /\ part' # None)
    PROVE  [Lifecycle!Next]_(Lifecycle!vars)
<1>1. /\ UploadOf(opening, req) = StepOf(req[r])
      /\ UploadOf(opening', req') = "open"
      /\ Lifecycle!UpTo(Item, "open")
      /\ UNCHANGED Lifecycle!beside
      /\ UNCHANGED <<session.due, del, cln, removed>>
  BY WorkSeen
<1>2. /\ UNCHANGED <<Row, [i \in {Item} |-> ItemRow], OfItem(stored # None), OfItem(excused)>>
      /\ Row' = Row /\ ItemRow' = ItemRow
  BY DEF Row, ItemRow
<1>3. CASE StepOf(req[r]) = "open"
  BY <1>1, <1>2, <1>3, SeenStutters DEF Seen, StepOf
<1>4. CASE StepOf(req[r]) = "append"
  <2>1. OfItem(part # None)' \in {OfItem(part # None), OfItem(part # None) \cup {Item}}
    BY DEF OfItem
  <2>2. Lifecycle!AppendFails(Item)
    BY ONLY <1>1, <1>2, <1>4, <2>1 DEF Lifecycle!AppendFails
  <2> QED BY ONLY <2>2, UploadIsNext DEF Lifecycle!Upload
<1>5. CASE StepOf(req[r]) = "move"
  <2>1. UNCHANGED Lifecycle!files
    BY <1>5, <1>2 DEF Lifecycle!files, OfItem
  <2>2. Lifecycle!MoveFails(Item)
    BY ONLY <1>1, <1>2, <1>5, <2>1 DEF Lifecycle!MoveFails
  <2> QED BY ONLY <2>2, UploadIsNext DEF Lifecycle!Upload
<1>6. CASE StepOf(req[r]) \in {"expire", "load", "save", "progress", "note"}
  <2>1. UNCHANGED Lifecycle!files
    BY <1>6, <1>2 DEF Lifecycle!files, OfItem
  <2>2. Lifecycle!Rest(Item) = "open"
    BY DEF Lifecycle!Rest
  <2>3. Lifecycle!UploadFails(Item)
    BY ONLY <1>1, <1>2, <1>6, <2>1, <2>2 DEF Lifecycle!UploadFails
  <2> QED BY ONLY <2>3, UploadIsNext DEF Lifecycle!Upload
<1>7. StepOf(req[r]) \in {"open", "append", "move", "expire", "load", "save", "progress", "note"}
  BY DEF StepOf, LifeInv, TypeInv, TypeOK, Handlers, Steps
<1> QED BY <1>3, <1>4, <1>5, <1>6, <1>7

\* A chunk request that goes on, with the item, the session and the files as they are.
LEMMA GoesOn ==
    ASSUME LifeInv, NEW r \in Requests, Work(r),
           StepOf(req'[r]) = StepOf(req[r]),
           UNCHANGED <<session, item, stored, part, excused>>
    PROVE  UNCHANGED Lifecycle!vars
<1>1. /\ UploadOf(opening', req') = UploadOf(opening, req)
      /\ UNCHANGED <<session.due, del, cln, removed>>
  BY WorkSeen
<1> QED BY <1>1, SeenStutters DEF Seen, Row, ItemRow

\* Every step of a chunk request is one of the upload, or none.
LEMMA WorkRefines ==
    ASSUME ~Cascade, LifeInv, NEW r \in Requests, Work(r)
    PROVE  [Lifecycle!Next]_(Lifecycle!vars)
<1> USE DEF LifeInv, TypeInv, TypeOK
<1>1. /\ UploadOf(opening, req) = StepOf(req[r])
      /\ UploadOf(opening', req') = StepOf(req'[r])
      /\ Lifecycle!UpTo(Item, StepOf(req'[r]))
      /\ UNCHANGED Lifecycle!beside
      /\ UNCHANGED <<session.due, del, cln, removed>>
  BY ONLY LifeInv, Work(r), WorkSeen
<1>2. Held(req[r]) /\ req[r] \in Handlers
  BY DEF LifeInv
<1>3. /\ Handle(r) \/ Fault(r) \/ Finish(r)
      /\ excused' = (excused \/ (LetIn(r) /\ (del # "idle" \/ removed = "owner")))
  BY ONLY Work(r) DEF Work
<1>4. ~At(r, "admit") => excused' = excused
  BY ONLY <1>3, LifeInv DEF LetIn, LifeTypes, LifeInv
<1>5. ASSUME UNCHANGED <<session, item, stored, part>>, \E code : Answer(r, code)
      PROVE  [Lifecycle!Next]_(Lifecycle!vars)
  <2>1. req'[r].pc = "done"
    BY <1>5 DEF Answer, NoRequest
  <2>2. StepOf(req'[r]) = "open" /\ ~LetIn(r)
    BY <2>1 DEF StepOf, LetIn
  <2>3. excused' = excused
    BY ONLY <1>3, <2>2, LifeInv DEF LifeTypes, LifeInv
  <2> QED BY ONLY LifeInv, Work(r), <1>5, <2>2, <2>3, GivesUp
<1>6. CASE \/ AdmitMissing(r) \/ AnswerConflict(r) \/ PartVanished(r) \/ SaveMissing(r)
           \/ StepFails(r)
  <2>1. UNCHANGED <<session, item, stored, part>> /\ \E code : Answer(r, code)
    BY ONLY <1>6 DEF AdmitMissing, AnswerConflict, PartVanished, SaveMissing, StepFails,
       disk, rows
  <2> QED BY ONLY <1>5, <2>1
<1>7. CASE WriteFails(r)
  <2>1. /\ req[r].pc = "write" /\ UNCHANGED <<session, item, stored>> /\ Answer(r, "error")
        /\ part' # None
    <3>1. /\ At(r, "write") /\ UNCHANGED <<stored, rows>> /\ Answer(r, "error")
          /\ \E m \in req[r].from .. req[r].to : part' = Existing \o Slice(req[r].from, m)
      BY ONLY <1>7 DEF WriteFails
    <3>2. part' \in Contents
      BY ONLY <3>1, TypeInv, AppendType
    <3> QED BY ONLY <3>1, <3>2, SentinelAssumption DEF At, rows
  <2>2. req'[r].pc = "done"
    BY <2>1 DEF Answer, NoRequest
  <2>3. StepOf(req[r]) = "append" /\ StepOf(req'[r]) = "open" /\ excused' = excused
    BY ONLY <1>4, <2>1, <2>2 DEF StepOf, At
  <2> QED BY ONLY LifeInv, Work(r), <2>1, <2>3, GivesUp
<1>8. CASE Finish(r)
  <2>1. req[r].pc = "done" /\ UNCHANGED <<session, item, stored, part>> /\ req'[r].pc = "idle"
    BY <1>8 DEF Finish, At, disk, rows, NoRequest
  <2>2. StepOf(req'[r]) = StepOf(req[r]) /\ excused' = excused
    BY ONLY <1>4, <2>1 DEF StepOf, At
  <2> QED BY ONLY LifeInv, Work(r), <2>1, <2>2, GoesOn
<1>9. CASE Check(r)
  <2>1. /\ req[r].pc = "check" /\ UNCHANGED <<session, item, stored, part>>
        /\ \E pc \in {"write", "probe"} : Goto(r, pc)
    BY ONLY <1>9 DEF Check, At, disk, rows
  <2>2. req'[r].pc \in {"write", "probe"}
    BY <2>1 DEF Goto, Handlers
  <2>3. StepOf(req'[r]) = StepOf(req[r]) /\ excused' = excused
    BY ONLY <1>4, <2>1, <2>2 DEF StepOf, At
  <2> QED BY ONLY LifeInv, Work(r), <2>1, <2>3, GoesOn
<1>10. CASE Hash(r)
  <2>1. /\ req[r].pc = "hash" /\ UNCHANGED <<session, item, stored, part>>
        /\ Conclude(r, "move", part) \/ \E code : Answer(r, code)
    BY ONLY <1>10 DEF Hash, At, disk, rows
  <2>2. CASE Conclude(r, "move", part)
    <3>1. req'[r].pc = "move"
      BY <2>2 DEF Conclude, NoRequest
    <3>2. StepOf(req'[r]) = StepOf(req[r]) /\ excused' = excused
      BY ONLY <1>4, <2>1, <3>1 DEF StepOf, At
    <3> QED BY ONLY LifeInv, Work(r), <2>1, <3>2, GoesOn
  <2> QED BY ONLY <1>5, <2>1, <2>2
<1>11. CASE AdmitItem(r) \/ AdmitExpired(r)
  <2>1. /\ req[r].pc = "admit" /\ UNCHANGED <<session, item, stored, part>>
        /\ session.row /\ (session.due \/ item # None)
    BY ONLY <1>11 DEF AdmitItem, AdmitExpired, At, disk, rows
  <2>2. req'[r].pc = IF session.due THEN "expire" ELSE "check"
    <3>1. CASE AdmitItem(r)
      BY <3>1 DEF AdmitItem, Handlers
    <3>2. CASE AdmitExpired(r)
      BY <3>2 DEF AdmitExpired, Conclude, NoRequest
    <3> QED BY <1>11, <3>1, <3>2
  <2>3. /\ StepOf(req[r]) = "open"
        /\ StepOf(req'[r]) = IF session.due THEN "expire" ELSE "append"
    BY ONLY <2>1, <2>2 DEF StepOf
  <2>4. excused' = (excused \/ (del # "idle" \/ removed = "owner"))
    BY ONLY <1>3, <2>1, <2>2 DEF LetIn, At
  <2>5. OfItem(excused)' = IF del # "idle" \/ removed = "owner"
                           THEN OfItem(excused) \cup {Item} ELSE OfItem(excused)
    BY ONLY <2>4, LifeInv DEF OfItem, LifeInv, LifeTypes
  <2>6. /\ Row # None /\ (session.due \/ ItemRow # None)
        /\ UNCHANGED <<Row, [i \in {Item} |-> ItemRow], Lifecycle!files>>
    BY ONLY <2>1, ChunkLifecycleAssumption DEF Row, ItemRow, Lifecycle!files
  <2>7. Lifecycle!PatchAdmit(Item)
    BY ONLY <1>1, <2>1, <2>3, <2>5, <2>6 DEF Lifecycle!PatchAdmit
  <2> QED BY ONLY <2>7, UploadIsNext DEF Lifecycle!Upload
<1>12. CASE SaveExpired(r)
  <2>1. /\ req[r].pc = "expire" /\ UNCHANGED <<item, stored, part>> /\ req'[r].pc = "done"
        /\ session' = [row |-> TRUE, due |-> TRUE, status |-> "expired"]
    BY <1>12 DEF SaveExpired, At, Answer, NoRequest, disk
  <2>2. StepOf(req[r]) = "expire" /\ StepOf(req'[r]) = "open" /\ excused' = excused
    BY ONLY <1>4, <2>1 DEF StepOf, At
  <2>3. /\ Row' = "expired" /\ Lifecycle!Rest(Item) = "open"
        /\ UNCHANGED <<[i \in {Item} |-> ItemRow], Lifecycle!files, OfItem(excused)>>
    BY ONLY <2>1, <2>2 DEF Row, ItemRow, Lifecycle!files, Lifecycle!Rest
  <2>4. Lifecycle!UploadExpire(Item)
    BY ONLY <1>1, <2>2, <2>3 DEF Lifecycle!UploadExpire, Lifecycle!SaveExpired
  <2> QED BY ONLY <2>4, UploadIsNext DEF Lifecycle!Upload
<1>13. CASE Write(r)
  <2>1. /\ req[r].pc = "write" /\ UNCHANGED <<session, item, stored>> /\ part' # None
        /\ Goto(r, "hash") \/ Conclude(r, "load", None)
    <3>1. /\ At(r, "write") /\ UNCHANGED <<stored, rows>>
          /\ part' = Existing \o Slice(req[r].from, req[r].to)
          /\ Goto(r, "hash") \/ Conclude(r, "load", None)
      BY ONLY <1>13 DEF Write
    <3>2. req[r].to \in req[r].from .. req[r].to
      BY <1>2 DEF Ordered, Handlers
    <3>3. part' \in Contents
      BY ONLY <3>1, <3>2, TypeInv, AppendType
    <3> QED BY ONLY <3>1, <3>3, SentinelAssumption DEF At, rows
  <2>2. req'[r].pc = "hash" \/ (req'[r].pc = "load" /\ req'[r].sha = None)
    <3>1. CASE Goto(r, "hash")
      BY <3>1 DEF Goto, Handlers
    <3>2. CASE Conclude(r, "load", None)
      BY <3>2 DEF Conclude, NoRequest
    <3> QED BY <2>1, <3>1, <3>2
  <2>3. /\ StepOf(req[r]) = "append" /\ StepOf(req'[r]) \in {"progress", "move"}
        /\ excused' = excused
    BY ONLY <1>4, <2>1, <2>2 DEF StepOf, At
  <2>4. /\ OfItem(part # None)' = OfItem(part # None) \cup {Item}
        /\ UNCHANGED <<Row, [i \in {Item} |-> ItemRow], OfItem(stored # None), OfItem(excused)>>
    BY ONLY <2>1, <2>3 DEF Row, ItemRow, OfItem
  <2>5. Lifecycle!Append(Item)
    BY ONLY <1>1, <2>3, <2>4 DEF Lifecycle!Append
  <2> QED BY ONLY <2>5, UploadIsNext DEF Lifecycle!Upload
<1>14. CASE Move(r)
  <2>1. /\ req[r].pc = "move" /\ UNCHANGED <<session, item>> /\ req[r].sha # None
        /\ part # None /\ stored' = part /\ part' = None
        /\ Conclude(r, "load", req[r].sha)
    BY ONLY <1>14, <1>2 DEF Move, At, rows, Held
  <2>2. req'[r].pc = "load" /\ req'[r].sha # None
    BY <2>1 DEF Conclude, NoRequest
  <2>3. StepOf(req[r]) = "move" /\ StepOf(req'[r]) = "load" /\ excused' = excused
    BY ONLY <1>4, <2>1, <2>2 DEF StepOf, At
  <2>4. /\ OfItem(stored # None)' = OfItem(stored # None) \cup {Item}
        /\ OfItem(part # None)' = OfItem(part # None) \ {Item} /\ Item \in OfItem(part # None)
        /\ UNCHANGED <<Row, [i \in {Item} |-> ItemRow], OfItem(excused)>>
    BY ONLY <2>1, <2>3 DEF Row, ItemRow, OfItem
  <2>5. Lifecycle!Move(Item)
    BY ONLY <1>1, <2>3, <2>4 DEF Lifecycle!Move
  <2> QED BY ONLY <2>5, UploadIsNext DEF Lifecycle!Upload
<1>15. CASE Load(r)
  <2>1. /\ req[r].pc = "load" /\ UNCHANGED <<session, item, stored, part>> /\ item # None
        /\ req' = [req EXCEPT ![r].pc = "save", ![r].snap = item]
    BY ONLY <1>15, <1>2 DEF Load, At, disk, rows, Held
  <2>2. req'[r].pc = "save" /\ req'[r].sha = req[r].sha
    BY <2>1 DEF Handlers
  <2>3. /\ \/ StepOf(req[r]) = "progress" /\ StepOf(req'[r]) = "note"
           \/ StepOf(req[r]) = "load" /\ StepOf(req'[r]) = "save"
        /\ excused' = excused
    BY ONLY <1>4, <2>1, <2>2 DEF StepOf, At
  <2>4. ItemRow # None
    BY ONLY <2>1, ChunkLifecycleAssumption DEF ItemRow
  <2>5. UNCHANGED <<Row, [i \in {Item} |-> ItemRow], Lifecycle!files, OfItem(excused)>>
    BY ONLY <2>1, <2>3 DEF Row, ItemRow, Lifecycle!files
  <2>6. Lifecycle!ProgressLoad(Item) \/ Lifecycle!UploadLoad(Item)
    BY ONLY <1>1, <2>3, <2>4, <2>5 DEF Lifecycle!ProgressLoad, Lifecycle!UploadLoad
  <2> QED BY ONLY <2>6, UploadIsNext DEF Lifecycle!Upload
<1>16. CASE SaveProgress(r)
  <2>1. /\ req[r].pc = "save" /\ req[r].sha = None /\ item \in Items
        /\ item' = [item EXCEPT !.status = "uploading"]
        /\ UNCHANGED <<session, stored, part>> /\ Answer(r, "ok")
    BY ONLY <1>16, <1>2, LifeInv DEF SaveProgress, At, disk, Held, LifeInv, TypeInv, TypeOK
  <2>2. req'[r].pc = "done"
    BY <2>1 DEF Answer, NoRequest
  <2>3. StepOf(req[r]) = "note" /\ StepOf(req'[r]) = "open" /\ excused' = excused
    BY ONLY <1>4, <2>1, <2>2 DEF StepOf, At
  <2>4. item' \in Items /\ item'.path = item.path
    BY ONLY <2>1 DEF Items, ItemStatus
  <2>5. ItemRow' = ItemRow /\ ItemRow \in {"begun", "published"}
    BY ONLY <2>1, <2>4, SentinelAssumption DEF ItemRow
  <2>6. /\ ~Lifecycle!Refused(Item)
        /\ [i \in {Item} |-> ItemRow]' = [[i \in {Item} |-> ItemRow] EXCEPT ![Item] = ItemRow]
        /\ ItemRow \in Lifecycle!ItemRows
    BY <2>5 DEF Lifecycle!Refused, Lifecycle!ItemRows
  <2>7. UNCHANGED <<Row, Lifecycle!files, OfItem(excused)>>
    BY ONLY <2>1, <2>3 DEF Row, Lifecycle!files
  <2>8. Lifecycle!ProgressSave(Item)
    BY ONLY <1>1, <2>3, <2>6, <2>7 DEF Lifecycle!ProgressSave
  <2> QED BY ONLY <2>8, UploadIsNext DEF Lifecycle!Upload
<1>17. CASE SaveCompleted(r)
  <2>1. /\ req[r].pc = "save" /\ req[r].sha # None
        /\ item' = [status |-> "completed", size |-> Len(req[r].sha), sha |-> req[r].sha,
                    path |-> TRUE]
        /\ session' = IF session.row
                      THEN [session EXCEPT !.status = DerivedStatus(@, {"completed"})]
                      ELSE session
        /\ UNCHANGED <<stored, part>> /\ Answer(r, "ok")
    BY ONLY <1>17 DEF SaveCompleted, At, disk
  <2>2. req'[r].pc = "done"
    BY <2>1 DEF Answer, NoRequest
  <2>3. StepOf(req[r]) = "save" /\ StepOf(req'[r]) = "open" /\ excused' = excused
    BY ONLY <1>4, <2>1, <2>2 DEF StepOf, At
  <2>4. ItemRow' = "published"
    <3>1. item' \in Items \cup {None} /\ item' # None
      <4>1. req[r].sha \in Contents
        BY <1>2, <2>1 DEF Handlers
      <4>2. Len(req[r].sha) \in Nat
        BY <4>1, LenProperties DEF Contents
      <4>3. item' \in Items
        BY <2>1, <4>1, <4>2 DEF Items, ItemStatus
      <4> QED BY <4>3, SentinelAssumption
    <3> QED BY <2>1, <3>1 DEF ItemRow
  <2>5. Row' = IF Row = None THEN None ELSE Lifecycle!Recomputed(Row)
    <3>1. DerivedStatus(session.status, {"completed"}) = "expired" <=> session.status = "expired"
      BY DEF DerivedStatus, Terminal, Sessions, SessionStatus
    <3>2. session'.row = session.row
      BY <2>1 DEF Sessions
    <3>3. session.row => (session'.status = "expired" <=> session.status = "expired")
      BY <2>1, <3>1 DEF Sessions
    <3> QED BY ONLY <3>2, <3>3, ChunkLifecycleAssumption DEF Row, Lifecycle!Recomputed
  <2>6. /\ ~Lifecycle!Refused(Item) /\ Lifecycle!Rest(Item) = "open"
        /\ [i \in {Item} |-> ItemRow]' = [[i \in {Item} |-> ItemRow] EXCEPT ![Item] = "published"]
    BY <2>4 DEF Lifecycle!Refused, Lifecycle!Rest
  <2>7. UNCHANGED <<Lifecycle!files, OfItem(excused)>>
    BY ONLY <2>1, <2>3 DEF Lifecycle!files
  <2>8. Lifecycle!UploadSave(Item)
    BY ONLY ~Cascade, <1>1, <2>3, <2>5, <2>6, <2>7 DEF Lifecycle!UploadSave
  <2> QED BY ONLY <2>8, UploadIsNext DEF Lifecycle!Upload
<1> QED
  BY ONLY <1>3, <1>6, <1>7, <1>8, <1>9, <1>10, <1>11, <1>12, <1>13, <1>14, <1>15, <1>16, <1>17
     DEF Handle, Fault

\* What the deletion and a crash see of the upload.
LEMMA UploadSeen ==
    ASSUME LifeInv
    PROVE  /\ UploadOf(opening, req) # "session"
           /\ UploadOf(opening, req) = "append" <=> Appending
           /\ AllIdle => UploadOf(opening, req) = IF opening = "refused" THEN "open" ELSE opening
<1> USE DEF LifeInv
<1>1. CASE AllIdle
  <2>1. UploadOf(opening, req) = IF opening = "refused" THEN "open" ELSE opening
    BY <1>1 DEF UploadOf, AllIdle, At
  <2>2. ~Appending
    BY ONLY <1>1 DEF Appending, AllIdle, At
  <2> QED BY ONLY <2>1, <2>2, LifeInv DEF LifeTypes
<1>2. ASSUME NEW r \in Requests, req[r].pc # "idle"
      PROVE  /\ UploadOf(opening, req) # "session"
             /\ UploadOf(opening, req) = "append" <=> Appending
             /\ ~AllIdle
  <2>1. \A q \in Requests \ {r} : req[q].pc = "idle"
    BY <1>2 DEF AtMostOne
  <2>2. opening = "open" /\ ~AllIdle
    BY <1>2 DEF Opened, AllIdle, At
  <2>3. UploadOf(opening, req) = StepOf(req[r])
    BY ONLY <2>1, <2>2, OnlyRequest
  <2>4. Appending <=> req[r].pc \in {"check", "write", "probe"}
    BY ONLY <2>1 DEF Appending
  <2>5. req[r].pc \in Steps
    BY DEF TypeInv, TypeOK, Handlers
  <2>6. StepOf(req[r]) # "session"
        /\ (StepOf(req[r]) = "append" <=> req[r].pc \in {"check", "write", "probe"})
    BY ONLY <2>5 DEF StepOf, Steps
  <2> QED BY ONLY <2>2, <2>3, <2>4, <2>6
<1> QED BY <1>1, <1>2 DEF AllIdle, At

\* What the owner's deletion, the cleanup and the clock do.
LEMMA RemovalRefines ==
    ASSUME ~Cascade, LifeInv, BeginDeletion \/ KeepPart \/ Remove \/ Elsewhere
    PROVE  [Lifecycle!Next]_(Lifecycle!vars)
<1> USE DEF LifeInv, TypeInv, TypeOK
<1> DEFINE up == [i \in {Item} |-> [pc |-> UploadOf(opening, req), status |-> None]]
           rowOf == [i \in {Item} |-> ItemRow]
<1>1. CASE BeginDeletion
  <2>1. /\ del = "idle" /\ session.row /\ del' = (IF item = None THEN "row" ELSE "part")
        /\ excused' = ((removed = "owner" /\ excused) \/ Appending)
        /\ UNCHANGED <<part, stored, item, session, req, cln, opening, removed>>
    BY ONLY <1>1 DEF BeginDeletion, DeleteStart, disk, rows
  <2>2. Row # None /\ (ItemRow = None <=> item = None)
    BY ONLY <2>1, ChunkLifecycleAssumption DEF Row, ItemRow
  <2>3. OfItem(excused)' = Lifecycle!Overlapping
    <3>1. UploadOf(opening, req) = "append" <=> Appending
      BY ONLY LifeInv, UploadSeen
    <3> QED BY ONLY <2>1, <3>1 DEF OfItem, Lifecycle!Overlapping
  <2>4. OfItem(del = "part")' = {i \in {Item} : rowOf[i] # None}
    BY ONLY <2>1, <2>2 DEF OfItem
  <2>5. UNCHANGED <<Row, session.due, rowOf, Lifecycle!files, up, cln, removed>>
    BY ONLY <2>1 DEF Row, ItemRow, Lifecycle!files
  <2>6. Lifecycle!DeleteStart
    BY ONLY <2>1, <2>2, <2>3, <2>4, <2>5 DEF Lifecycle!DeleteStart, Lifecycle!settings
  <2> QED BY ONLY <2>6 DEF Lifecycle!Next, Lifecycle!Deletion
<1>2. CASE DeletePart /\ Elsewhere
  <2>1. /\ del = "part" /\ part' = None /\ del' = "row"
        /\ UNCHANGED <<stored, item, session, req, cln, opening, removed, excused>>
    BY ONLY <1>2 DEF DeletePart, Elsewhere, rows, history
  <2>2. /\ OfItem(part # None)' = OfItem(part # None) \ {Item}
        /\ OfItem(del = "part") = {Item} /\ OfItem(del = "part")' = {}
        /\ UNCHANGED OfItem(excused)
    BY ONLY <2>1 DEF OfItem
  <2>3. UNCHANGED <<Row, session.due, rowOf, OfItem(stored # None), up, cln, removed>>
    BY ONLY <2>1 DEF Row, ItemRow
  <2>4. Lifecycle!DeletePart(Item)
    BY ONLY <2>1, <2>2, <2>3 DEF Lifecycle!DeletePart, Lifecycle!settings
  <2> QED BY ONLY <2>4 DEF Lifecycle!Next, Lifecycle!Deletion
<1>3. CASE Remove
  <2>1. /\ UNCHANGED <<part, stored, item, req, opening, excused>>
        /\ session' = [session EXCEPT !.row = FALSE]
        /\ \/ del = "row" /\ del' = "idle" /\ cln' = cln /\ RemovedBy("owner")
           \/ cln.pc = "row" /\ cln' = NoCleanup /\ del' = del /\ RemovedBy("cleanup")
    BY ONLY <1>3, ~Cascade DEF Remove, DeleteRow, CleanupRow, RowsDeleted, disk
  <2>2. Row' = None /\ session'.due = session.due /\ (Row # None <=> session.row)
    BY <2>1, ChunkLifecycleAssumption DEF Row, Sessions
  <2>3. UNCHANGED <<rowOf, Lifecycle!files, up, OfItem(excused)>>
    BY ONLY <2>1 DEF ItemRow, Lifecycle!files
  <2>4. ASSUME NEW who, RemovedBy(who) PROVE Lifecycle!DeleteRows(who)
    <3>1. \A i \in {Item} : up[i].pc # "session"
      BY ONLY LifeInv, UploadSeen
    <3> QED BY ONLY ~Cascade, <2>2, <2>3, <2>4, <3>1
            DEF RemovedBy, Lifecycle!DeleteRows, Lifecycle!All
  <2>5. CASE del = "row" /\ del' = "idle" /\ cln' = cln /\ RemovedBy("owner")
    <3>1. Lifecycle!DeleteCommit
      BY ONLY <2>2, <2>3, <2>4, <2>5
         DEF Lifecycle!DeleteCommit, Lifecycle!NoDeletion, Lifecycle!settings, OfItem
    <3> QED BY ONLY <3>1 DEF Lifecycle!Next, Lifecycle!Deletion
  <2>6. CASE cln.pc = "row" /\ cln' = NoCleanup /\ del' = del /\ RemovedBy("cleanup")
    <3>1. Lifecycle!CleanupCommit
      BY ONLY <2>2, <2>3, <2>4, <2>6
         DEF Lifecycle!CleanupCommit, Lifecycle!NoCleanup, Lifecycle!settings, NoCleanup, OfItem
    <3> QED BY ONLY <3>1 DEF Lifecycle!Next, Lifecycle!Cleanup
  <2> QED BY ONLY <2>1, <2>5, <2>6
<1>4. CASE CleanupList /\ Elsewhere
  <2>1. /\ cln.pc = "idle" /\ session.row /\ session.due
        /\ cln'.pc = IF item # None /\ item.path THEN "file" ELSE "row"
        /\ UNCHANGED <<part, stored, item, session, req, del, opening, removed, excused>>
    BY ONLY <1>4 DEF CleanupList, Elsewhere, disk, rows, history
  <2>2. Row # None /\ (ItemRow = "published" <=> item # None /\ item.path)
    BY ONLY <2>1, ChunkLifecycleAssumption DEF Row, ItemRow
  <2>3. OfItem(cln.pc = "file")' = {i \in {Item} : rowOf[i] = "published"}
    BY ONLY <2>1, <2>2 DEF OfItem
  <2>4. UNCHANGED <<Row, session.due, rowOf, Lifecycle!files, up, OfItem(excused)>>
    BY ONLY <2>1 DEF Row, ItemRow, Lifecycle!files
  <2>5. Lifecycle!CleanupList
    BY ONLY <2>1, <2>2, <2>3, <2>4
       DEF Lifecycle!CleanupList, Lifecycle!Published, Lifecycle!All, Lifecycle!settings,
           Lifecycle!history
  <2> QED BY ONLY <2>5 DEF Lifecycle!Next, Lifecycle!Cleanup
<1>5. CASE CleanupFile /\ Elsewhere
  <2>1. /\ cln.pc = "file" /\ stored' = None /\ cln'.pc = "row"
        /\ UNCHANGED <<part, item, session, req, del, opening, removed, excused>>
    BY <1>5 DEF CleanupFile, Elsewhere, rows, history
  <2>2. /\ OfItem(stored # None)' = OfItem(stored # None) \ {Item}
        /\ OfItem(cln.pc = "file") = {Item} /\ OfItem(cln.pc = "file")' = {}
    BY ONLY <2>1 DEF OfItem
  <2>3. UNCHANGED <<Row, session.due, rowOf, OfItem(part # None), up, OfItem(excused)>>
    BY ONLY <2>1 DEF Row, ItemRow
  <2>4. Lifecycle!CleanupFile(Item)
    BY ONLY <2>1, <2>2, <2>3
       DEF Lifecycle!CleanupFile, Lifecycle!settings, Lifecycle!history
  <2> QED BY ONLY <2>4 DEF Lifecycle!Next, Lifecycle!Cleanup, Lifecycle!All
<1>6. CASE TimePasses /\ Elsewhere
  <2>1. /\ ~session.due /\ session' = [session EXCEPT !.due = TRUE]
        /\ UNCHANGED <<part, stored, item, req, del, cln, opening, removed, excused>>
    BY ONLY <1>6 DEF TimePasses, Elsewhere, disk, history
  <2>2. session'.due = TRUE /\ session.due = FALSE /\ Row' = Row
    BY <2>1 DEF Row, Sessions
  <2>3. UNCHANGED <<rowOf, Lifecycle!files, Lifecycle!handlers, Lifecycle!history>>
    BY ONLY <2>1 DEF ItemRow, Lifecycle!files, Lifecycle!handlers, Lifecycle!history
  <2>4. Lifecycle!TimePasses
    BY ONLY <2>2, <2>3 DEF Lifecycle!TimePasses, Lifecycle!settings
  <2> QED BY ONLY <2>4 DEF Lifecycle!Next
<1>7. CASE KeepPart
  <2>1. /\ del = "part" /\ del' = "row" /\ excused' = TRUE
        /\ UNCHANGED <<part, stored, item, session, req, cln, opening, removed>>
    BY ONLY <1>7 DEF KeepPart, DeletePartFails, disk, rows
  <2>2. /\ OfItem(excused)' = OfItem(excused) \cup {Item}
        /\ OfItem(del = "part") = {Item} /\ OfItem(del = "part")' = {}
    BY ONLY <2>1 DEF OfItem
  <2>3. UNCHANGED <<Row, session.due, rowOf, OfItem(stored # None), OfItem(part # None), up,
                    cln, removed>>
    BY ONLY <2>1 DEF Row, ItemRow
  <2>4. Lifecycle!DeletePart(Item)
    BY ONLY <2>1, <2>2, <2>3 DEF Lifecycle!DeletePart, Lifecycle!settings
  <2> QED BY ONLY <2>4 DEF Lifecycle!Next, Lifecycle!Deletion
<1>8. CASE (DeleteFails \/ CleanupFails) /\ Elsewhere
  <2>1. /\ \/ del = "row" /\ del' = "idle" /\ cln' = cln
           \/ cln.pc # "idle" /\ cln' = NoCleanup /\ del' = del
        /\ UNCHANGED <<part, stored, item, session, req, opening, removed, excused>>
    BY ONLY <1>8 DEF DeleteFails, CleanupFails, Elsewhere, disk, rows, history
  <2>2. UNCHANGED <<Row, session.due, rowOf, Lifecycle!files, up, Lifecycle!history>>
    BY ONLY <2>1 DEF Row, ItemRow, Lifecycle!files, Lifecycle!history
  <2>3. CASE del = "row" /\ del' = "idle" /\ cln' = cln
    <3>1. Lifecycle!DeletionFails
      BY ONLY <2>2, <2>3
         DEF Lifecycle!DeletionFails, Lifecycle!NoDeletion, Lifecycle!settings, OfItem
    <3> QED BY ONLY <3>1 DEF Lifecycle!Next, Lifecycle!Deletion
  <2>4. CASE cln.pc # "idle" /\ cln' = NoCleanup /\ del' = del
    <3>1. Lifecycle!CleanupFails
      BY ONLY <2>2, <2>4
         DEF Lifecycle!CleanupFails, Lifecycle!NoCleanup, Lifecycle!settings, NoCleanup, OfItem
    <3> QED BY ONLY <3>1 DEF Lifecycle!Next, Lifecycle!Cleanup
  <2> QED BY ONLY <2>1, <2>3, <2>4
<1> QED BY ONLY <1>1, <1>2, <1>3, <1>4, <1>5, <1>6, <1>7, <1>8,
           BeginDeletion \/ KeepPart \/ Remove \/ Elsewhere
        DEF Elsewhere

\* The process stops and starts again.
LEMMA RestartRefines ==
    ASSUME ~Cascade, LifeInv, Restart
    PROVE  Lifecycle!Next
<1> USE DEF LifeInv
<1>1. /\ \A r \in Requests : req'[r].pc = "idle"
      /\ del' = "idle" /\ cln'.pc = "idle" /\ cln' = NoCleanup
      /\ opening' = (IF opening \in {"expire", "insert"} THEN Abandoned ELSE opening)
      /\ excused' = (removed = "owner" /\ excused)
      /\ UNCHANGED <<part, stored, item, session, removed>>
  BY DEF Restart, Crash, NoRequest, NoCleanup, disk, rows
<1> DEFINE step == UploadOf(opening, req)
<1>2. UploadOf(opening', req') = IF step \in {"idle", "open", "done"} THEN step
                                 ELSE IF step = "insert" THEN "done" ELSE "open"
  <2>1. UploadOf(opening', req') = IF opening' = "refused" THEN "open" ELSE opening'
    BY <1>1 DEF UploadOf
  <2>2. CASE AllIdle
    <3>1. step = IF opening = "refused" THEN "open" ELSE opening
      BY ONLY <2>2, LifeInv, UploadSeen
    <3> QED BY ONLY <1>1, <2>1, <3>1, LifeInv DEF Abandoned, LifeTypes
  <2>3. ASSUME NEW r \in Requests, req[r].pc # "idle"
        PROVE  /\ UploadOf(opening', req') = "open"
               /\ step \notin {"idle", "insert", "done"}
    <3>1. \A q \in Requests \ {r} : req[q].pc = "idle"
      BY <2>3 DEF AtMostOne
    <3>2. opening = "open"
      BY <2>3 DEF Opened, AllIdle, At
    <3>3. step = StepOf(req[r])
      BY ONLY <3>1, <3>2, OnlyRequest
    <3>4. req[r].pc \in Steps
      BY DEF TypeInv, TypeOK, Handlers
    <3>5. StepOf(req[r]) \notin {"idle", "insert", "done"}
      BY ONLY <3>4 DEF StepOf, Steps
    <3> QED BY ONLY <1>1, <2>1, <3>2, <3>3, <3>5
  <2> QED BY ONLY <2>2, <2>3 DEF AllIdle, At
<1>3. /\ UNCHANGED <<Row, session.due, [i \in {Item} |-> ItemRow], Lifecycle!files>>
      /\ OfItem(excused)' = IF removed = "owner" THEN OfItem(excused) ELSE {}
      /\ OfItem(del = "part")' = {} /\ OfItem(cln.pc = "file")' = {}
  BY ONLY <1>1 DEF Row, ItemRow, Lifecycle!files, OfItem
<1>4. Lifecycle!Crash
  BY ONLY <1>1, <1>2, <1>3
     DEF Lifecycle!Crash, Lifecycle!NoDeletion, Lifecycle!NoCleanup, Lifecycle!settings,
         Lifecycle!All, Lifecycle!Rest
<1> QED BY ONLY <1>4 DEF Lifecycle!Next

\* On SQLite, one request at a time, the handlers of a resumable upload implement
\* SessionLifecycle: what that module leaves out (offsets, sizes, checksums, the
\* copies of rows that handlers hold) changes nothing of what it says.
THEOREM HandlersKeepLifecycle == ~Cascade => (LifeSpec => KeepsLifecycle)
<1> SUFFICES ASSUME ~Cascade PROVE LifeSpec => KeepsLifecycle
  OBVIOUS
<1>1. LifeInit => LifeInv
  BY LifeStart
<1>2. LifeInv /\ [LifeNext]_lifeVars => LifeInv'
  BY LifeStep
<1>3. LifeInit => Lifecycle!Init
  <2> SUFFICES ASSUME LifeInit PROVE Lifecycle!Init
    OBVIOUS
  <2>1. UploadOf(opening, req) = "idle"
    BY DEF LifeInit, UploadOf
  <2>2. Row = "live" /\ ItemRow = None
    BY DEF LifeInit, Row, ItemRow
  <2>3. \A b \in BOOLEAN : b => OfItem(~b) = {}
    BY DEF OfItem
  <2> QED BY <2>1, <2>2, CascadeAssumption
          DEF LifeInit, OfItem, NoCleanup, Lifecycle!Init, Lifecycle!All, Lifecycle!NoDeletion,
              Lifecycle!NoCleanup
<1>4. LifeInv /\ [LifeNext]_lifeVars => [Lifecycle!Next]_(Lifecycle!vars)
  <2> SUFFICES ASSUME LifeInv, [LifeNext]_lifeVars
               PROVE  [Lifecycle!Next]_(Lifecycle!vars)
    OBVIOUS
  <2>1. CASE UNCHANGED lifeVars
    BY <2>1, SeenStutters DEF Seen, lifeVars, vars, disk, rows, history, Row, ItemRow
  <2>2. ASSUME NEW r \in Requests, NEW i, NEW j, Send(r, i, j)
        PROVE  [Lifecycle!Next]_(Lifecycle!vars)
    <3>1. /\ opening = "open" /\ UNCHANGED <<disk, rows, del, cln, opening, history>>
          /\ \A q \in Requests : req[q].pc = "idle"
          /\ req' = [req EXCEPT ![r] = [NoRequest EXCEPT !.pc = "admit", !.from = i, !.to = j]]
      BY ONLY <2>2 DEF Send, Receive, AllIdle, At
    <3>2. req'[r].pc = "admit" /\ \A q \in Requests \ {r} : req'[q].pc = "idle"
      BY <3>1 DEF NoRequest, LifeInv, TypeInv, TypeOK
    <3>3. UploadOf(opening, req) = StepOf(req[r]) /\ UploadOf(opening', req') = StepOf(req'[r])
      BY ONLY <3>1, <3>2, OnlyRequest
    <3>4. UploadOf(opening', req') = UploadOf(opening, req)
      BY ONLY <3>1, <3>2, <3>3 DEF StepOf
    <3> QED BY ONLY <3>1, <3>4, SeenStutters DEF Seen, disk, rows, history, Row, ItemRow
  <2> QED BY ONLY ~Cascade, LifeInv, [LifeNext]_lifeVars, <2>1, <2>2, OpeningRefines,
             WorkRefines, RemovalRefines, RestartRefines DEF LifeNext
<1> QED BY <1>1, <1>2, <1>3, <1>4, PTL DEF LifeSpec, KeepsLifecycle

-----------------------------------------------------------------------------
\* What is proved of SessionLifecycle holds of the handlers

L == INSTANCE SessionLifecycle_proofs WITH
    Items      <- {},
    Resumables <- {Item},
    Downloads  <- {},
    postgres   <- Cascade,
    burn       <- FALSE,
    row        <- Row,
    due        <- session.due,
    item       <- [i \in {Item} |-> ItemRow],
    disk       <- OfItem(stored # None),
    parts      <- OfItem(part # None),
    up         <- [i \in {Item} |-> [pc |-> UploadOf(opening, req), status |-> None]],
    dl         <- [d \in {} |-> [pc |-> "idle", item |-> None]],
    del        <- [pc |-> IF del = "idle" THEN "idle" ELSE "row", parts |-> OfItem(del = "part")],
    cln        <- [pc |-> IF cln.pc = "idle" THEN "idle" ELSE "files",
                   files |-> OfItem(cln.pc = "file")],
    burned     <- FALSE,
    excused    <- OfItem(excused)

\* L is the module Lifecycle with its theorems: an upload's steps,
LEMMA SameUpload == ASSUME NEW i, Lifecycle!Upload(i) PROVE L!Upload(i)
BY DEF Lifecycle!Upload, L!Upload, Lifecycle!UploadAdmit, L!UploadAdmit,
       Lifecycle!UploadExpire, L!UploadExpire, Lifecycle!UploadInsert,
       L!UploadInsert, Lifecycle!UploadFails, L!UploadFails, Lifecycle!StoreFile,
       L!StoreFile, Lifecycle!StoreFails, L!StoreFails, Lifecycle!MarkFailed,
       L!MarkFailed, Lifecycle!PatchAdmit,
       L!PatchAdmit, Lifecycle!Append, L!Append, Lifecycle!AppendFails,
       L!AppendFails, Lifecycle!ProgressLoad, L!ProgressLoad,
       Lifecycle!ProgressSave, L!ProgressSave, Lifecycle!Move, L!Move,
       Lifecycle!MoveFails, L!MoveFails, Lifecycle!UploadLoad, L!UploadLoad,
       Lifecycle!UploadSave, L!UploadSave, Lifecycle!UploadSession,
       L!UploadSession, Lifecycle!UploadSaveRefused, L!UploadSaveRefused,
       Lifecycle!UpTo, L!UpTo, Lifecycle!Rest, L!Rest, Lifecycle!Refused,
       L!Refused, Lifecycle!SaveExpired, L!SaveExpired, Lifecycle!Recomputed,
       L!Recomputed, Lifecycle!ItemRows, L!ItemRows, Lifecycle!beside, L!beside,
       Lifecycle!settings, L!settings, Lifecycle!files, L!files

\* a removal's steps,
LEMMA SameRemoval ==
    (Lifecycle!Deletion => L!Deletion) /\ (Lifecycle!Cleanup => L!Cleanup)
BY DEF Lifecycle!Deletion, L!Deletion, Lifecycle!DeleteStart, L!DeleteStart,
       Lifecycle!DeletePart, L!DeletePart, Lifecycle!DeleteCommit, L!DeleteCommit,
       Lifecycle!DeletionFails, L!DeletionFails, Lifecycle!CleanupFails, L!CleanupFails,
       Lifecycle!Overlapping, L!Overlapping, Lifecycle!Cleanup, L!Cleanup,
       Lifecycle!CleanupList, L!CleanupList, Lifecycle!CleanupFile, L!CleanupFile,
       Lifecycle!CleanupCommit, L!CleanupCommit, Lifecycle!DeleteRows,
       L!DeleteRows, Lifecycle!NoDeletion, L!NoDeletion, Lifecycle!NoCleanup,
       L!NoCleanup, Lifecycle!Published, L!Published, Lifecycle!All, L!All,
       Lifecycle!settings, L!settings, Lifecycle!files, L!files, Lifecycle!history,
       L!history

\* and all the steps are the same.
LEMMA SameSteps ==
    /\ Lifecycle!Init => L!Init
    /\ [Lifecycle!Next]_(Lifecycle!vars) => [L!Next]_(L!vars)
<1>1. Lifecycle!Init => L!Init
  BY DEF Lifecycle!Init, L!Init, Lifecycle!All, L!All, Lifecycle!NoDeletion, L!NoDeletion,
         Lifecycle!NoCleanup, L!NoCleanup
<1>2. [Lifecycle!Next]_(Lifecycle!vars) => [L!Next]_(L!vars)
  BY SameUpload, SameRemoval
     DEF Lifecycle!Next, L!Next, Lifecycle!TimePasses, L!TimePasses, Lifecycle!Crash,
         L!Crash, Lifecycle!vars, L!vars, Lifecycle!All, L!All, Lifecycle!Rest,
         L!Rest, Lifecycle!NoDeletion, L!NoDeletion, Lifecycle!NoCleanup,
         L!NoCleanup, Lifecycle!settings, L!settings, Lifecycle!files, L!files,
         Lifecycle!handlers, L!handlers, Lifecycle!history, L!history
<1> QED BY <1>1, <1>2

\* What SessionLifecycle assumes of its constants holds of these.
LEMMA LifecycleIsApplied ==
    /\ {} \cap {Item} = {}
    /\ None \notin L!SessionRows \cup L!ItemRows \cup L!All
BY ChunkLifecycleAssumption DEF L!SessionRows, L!ItemRows, L!All

\* A session that has been removed is never served again, whatever a chunk
\* request that read it before saves afterwards.
THEOREM HandlersNeverServeAgain == ~Cascade => (LifeSpec => []NeverServedAgain)
<1> SUFFICES ASSUME ~Cascade PROVE LifeSpec => []NeverServedAgain
  OBVIOUS
<1>1. L!Init /\ [][L!Next]_(L!vars) => []L!RemovedStaysClosed
  BY LifecycleIsApplied, L!RemovalOfSteps
<1>2. LifeSpec => Lifecycle!Init /\ [][Lifecycle!Next]_(Lifecycle!vars)
  BY HandlersKeepLifecycle DEF KeepsLifecycle
<1>3. L!RemovedStaysClosed => NeverServedAgain
  BY ChunkLifecycleAssumption
     DEF L!RemovedStaysClosed, L!Servable, NeverServedAgain, Servable, Row
<1> QED BY <1>1, <1>2, <1>3, SameSteps, PTL

\* The owner's deletion leaves no part of the upload, whatever requests, failures
\* and crashes it met, unless a chunk request overlapped or followed it or the
\* part's unlink failed.
THEOREM HandlersLeaveNoPart == ~Cascade => (LifeSpec => []NoPartLeft)
<1> SUFFICES ASSUME ~Cascade PROVE LifeSpec => []NoPartLeft
  OBVIOUS
<1>1. L!Init /\ [][L!Next]_(L!vars) => []L!DeletionLeavesNoPart
  BY LifecycleIsApplied, L!DeletionOfSteps
<1>2. LifeSpec => Lifecycle!Init /\ [][Lifecycle!Next]_(Lifecycle!vars)
  BY HandlersKeepLifecycle DEF KeepsLifecycle
<1>3. LifeInit => LifeInv
  BY LifeStart
<1>4. LifeInv /\ [LifeNext]_lifeVars => LifeInv'
  BY LifeStep
<1>5. LifeInv /\ L!DeletionLeavesNoPart => NoPartLeft
  <2> SUFFICES ASSUME LifeInv, L!DeletionLeavesNoPart, removed = "owner",
                      opening \notin {"expire", "insert"}, AllIdle, del = "idle",
                      cln.pc = "idle", ~excused
               PROVE  part = None
    BY DEF NoPartLeft
  <2>1. UploadOf(opening, req) \in {"idle", "open", "done"}
    BY ONLY LifeInv, AllIdle, opening \notin {"expire", "insert"}, UploadSeen
       DEF LifeInv, LifeTypes
  <2>2. L!Quiet
    BY <2>1 DEF L!Quiet, L!All
  <2> QED BY <2>2 DEF L!DeletionLeavesNoPart, OfItem
<1> QED BY <1>1, <1>2, <1>3, <1>4, <1>5, SameSteps, PTL DEF LifeSpec

-----------------------------------------------------------------------------
\* What is proved of a serial client of ChunkUpload holds from the initialisation on

\* The item is not there before the request that initialises it has inserted it.
NotYet == opening # "open" => item = None

\* Only that request ends its absence.
LEMMA NotYetStep ==
    ASSUME LifeInv, NotYet, [LifeNext]_lifeVars
    PROVE  NotYet'
<1>1. CASE Opening \/ UNCHANGED lifeVars
  BY <1>1 DEF Opening, InitAdmit, InitExpire, InitInsert, InitFails, NotYet, lifeVars, vars,
     rows
<1>2. ASSUME NEW r \in Requests, NEW i, NEW j, Send(r, i, j) PROVE NotYet'
  BY <1>2 DEF Send, NotYet
<1>3. ASSUME NEW r \in Requests, Work(r) PROVE NotYet'
  <2>1. req[r].pc # "idle"
    BY <1>3, WorksAlone DEF Work, LifeInv
  <2> QED BY <1>3, <2>1 DEF Work, LifeInv, Opened, AllIdle, At, NotYet
<1>4. CASE BeginDeletion \/ KeepPart \/ Remove \/ Restart \/ Elsewhere
  <2>1. item' \in {item, None} /\ (opening' # "open" => opening # "open")
    BY <1>4 DEF BeginDeletion, DeleteStart, KeepPart, DeletePartFails, Remove, DeleteRow,
       CleanupRow, RowsDeleted, Restart, Crash, Elsewhere, DeletePart, DeleteFails,
       CleanupList, CleanupFile, CleanupFails, TimePasses, rows
  <2> QED BY <2>1 DEF NotYet
<1> QED BY <1>1, <1>2, <1>3, <1>4 DEF LifeNext

\* What the initialisation finds and leaves: nobody is at work, nothing is
\* published, and a session is saved as expired only when it is withdrawn already.
LEMMA InitLeaves ==
    ASSUME LifeInv, NotYet, InitExpire \/ InitInsert
    PROVE  /\ \A r \in Requests : req[r].pc = "idle"
           /\ ~Published /\ ~Published'
           /\ UNCHANGED <<disk, req, del, cln, discarded>>
           /\ \/ session' = session /\ item'.size = Size /\ item'.path = FALSE
              \/ item' = item /\ session.due /\ session'.due
<1>1. /\ opening # "open" /\ UNCHANGED <<disk, req, del, cln, discarded>>
  BY DEF InitExpire, InitInsert
<1>2. item = None
  BY <1>1 DEF NotYet
<1>3. CASE InitExpire
  BY <1>1, <1>2, <1>3 DEF InitExpire, LifeInv, Opened, AllIdle, At, Published
<1>4. CASE InitInsert
  BY <1>1, <1>2, <1>4 DEF InitInsert, LifeInv, Opened, AllIdle, At, Published
<1> QED BY <1>3, <1>4

WholeInv == LifeInv /\ NotYet /\ SerialInv /\ SumInv

\* The initial states have nothing yet.
LEMMA WholeStart == LifeInit => WholeInv
<1> SUFFICES ASSUME LifeInit PROVE WholeInv
  OBVIOUS
<1>1. \A r \in Requests : req[r] = NoRequest /\ req[r].pc = "idle" /\ req[r].snap = None
  BY DEF LifeInit, NoRequest
<1>2. LifeInv /\ NotYet
  BY LifeStart DEF LifeInit, NotYet
<1>3. SerialInv
  BY <1>1 DEF LifeInit, NoCleanup, SerialInv, AtMostOne, CleanupIsDue, GoneTogether, Sound,
     PartSound, ItemSound, HandlerSound
<1>4. SumInv
  BY <1>1 DEF LifeInit, SumInv, NamesFile, Published, Follows
<1> QED BY <1>2, <1>3, <1>4 DEF WholeInv

\* The initialisation keeps what a serial client's steps keep.
LEMMA InitSound ==
    ASSUME WholeInv, InitExpire \/ InitInsert
    PROVE  SerialInv' /\ SumInv'
<1>1. /\ \A r \in Requests : req[r].pc = "idle"
      /\ ~Published' /\ UNCHANGED <<disk, req, del, cln, discarded>>
      /\ \/ session' = session /\ item'.size = Size /\ item'.path = FALSE
         \/ item' = item /\ session.due /\ session'.due
  BY InitLeaves DEF WholeInv
<1>2. AtMostOne' /\ CleanupIsDue' /\ GoneTogether'
  BY <1>1 DEF AtMostOne, CleanupIsDue, GoneTogether, WholeInv, SerialInv
<1>3. ASSUME ~discarded' PROVE Sound'
  <2>1. Sound
    BY <1>1, <1>3 DEF WholeInv, SerialInv
  <2>2. ItemSound'
    BY <1>1, <2>1 DEF Sound, ItemSound, StoredSound, Servable
  <2>3. \A r \in Requests : HandlerSound(req[r])'
    BY <1>1, <2>1 DEF Sound, HandlerSound
  <2> QED BY <1>1, <2>1, <2>2, <2>3 DEF Sound, PartSound, disk
<1>4. SumInv'
  BY <1>1 DEF SumInv, NamesFile, Follows
<1> QED BY <1>2, <1>3, <1>4 DEF SerialInv

\* Every step keeps the invariant, on SQLite.
LEMMA WholeStep ==
    ASSUME ~Cascade, WholeInv, [LifeNext]_lifeVars
    PROVE  WholeInv'
<1>1. LifeInv' /\ NotYet'
  BY LifeStep, NotYetStep DEF WholeInv
<1>2. CASE [SerialNext]_vars
  BY <1>1, <1>2, SerialStep, SumStep DEF WholeInv, LifeInv
<1>3. CASE InitExpire \/ InitInsert
  BY <1>1, <1>3, InitSound DEF WholeInv
<1> QED BY <1>2, <1>3, LifeIsSerial

\* The invariant holds from the creation of the session on.
LEMMA WholeInvariant == ~Cascade => (LifeSpec => []WholeInv)
<1> SUFFICES ASSUME ~Cascade PROVE LifeSpec => []WholeInv
  OBVIOUS
<1>1. WholeInv /\ [LifeNext]_lifeVars => WholeInv'
  BY WholeStep
<1> QED BY <1>1, WholeStart, PTL DEF LifeSpec

\* From the creation of the session on the part is a beginning of the file, what
\* is published is the whole file, and what is served is what its checksum names.
THEOREM HandlersServeTheFile ==
    ~Cascade => (LifeSpec => [](PartIsPrefix /\ PublishedIsWhole /\ ServedMatchesChecksum))
<1> SUFFICES ASSUME ~Cascade
             PROVE  LifeSpec => [](PartIsPrefix /\ PublishedIsWhole /\ ServedMatchesChecksum)
  OBVIOUS
<1>1. WholeInv => PartIsPrefix
  BY DEF WholeInv, SerialInv, Sound, PartSound, PartIsPrefix
<1>2. WholeInv => PublishedIsWhole
  BY DEF WholeInv, SerialInv, Sound, ItemSound, StoredSound, PublishedIsWhole, Published
<1>3. WholeInv => ServedMatchesChecksum
  BY DEF WholeInv, SumInv, NamesFile, ServedMatchesChecksum
<1> QED BY <1>1, <1>2, <1>3, WholeInvariant, PTL

\* A publication is neither taken back nor changed while its row exists.
THEOREM HandlersKeepPublication == ~Cascade => (LifeSpec => PublicationIsFinal)
<1> SUFFICES ASSUME ~Cascade PROVE LifeSpec => PublicationIsFinal
  OBVIOUS
<1>1. WholeInv /\ [LifeNext]_lifeVars
      => [Published /\ item' # None /\ ~discarded'
            => Published' /\ item'.sha = item.sha]_vars
  <2> SUFFICES ASSUME WholeInv, [LifeNext]_lifeVars,
                      Published, item' # None, ~discarded', vars' # vars
               PROVE  Published' /\ item'.sha = item.sha
    OBVIOUS
  <2>1. ~(InitExpire \/ InitInsert)
    BY InitLeaves DEF WholeInv
  <2> QED BY <2>1, LifeIsSerial, PublicationStep DEF WholeInv, LifeInv
<1> QED BY <1>1, WholeInvariant, PTL DEF LifeSpec, PublicationIsFinal

\* The initialisation and the handlers after it implement UploadPromise.
THEOREM HandlersKeepPromise == ~Cascade => (LifeSpec => KeepsPromise)
<1> SUFFICES ASSUME ~Cascade PROVE LifeSpec => KeepsPromise
  OBVIOUS
<1>1. LifeInit => Promise!Init
  BY FirstOfNothing
     DEF LifeInit, Promise!Init, Withdrawn, Servable, Existing, Published
<1>2. WholeInv /\ [LifeNext]_lifeVars => [Promise!Next]_(Promise!promise)
  <2> SUFFICES ASSUME WholeInv, [LifeNext]_lifeVars
               PROVE  [Promise!Next]_(Promise!promise)
    OBVIOUS
  <2>1. CASE [SerialNext]_vars
    BY <2>1, PromiseStep DEF WholeInv, LifeInv
  <2>2. CASE InitExpire \/ InitInsert
    <3>1. /\ Published = FALSE /\ Published' = FALSE /\ UNCHANGED <<disk, discarded>>
          /\ session' = session \/ (session.due /\ session'.due)
      BY <2>2, InitLeaves DEF WholeInv, Published
    <3>2. Withdrawn' = Withdrawn /\ Existing' = Existing /\ stored' = stored
      BY <3>1 DEF Withdrawn, Servable, Existing, disk
    <3> QED BY <3>1, <3>2 DEF Promise!promise
  <2> QED BY <2>1, <2>2, LifeIsSerial
<1> QED BY <1>1, <1>2, WholeInvariant, PTL DEF LifeSpec, KeepsPromise, Promise!Spec

=============================================================================

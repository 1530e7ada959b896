--------------------------- MODULE Transfers_proofs ---------------------------
(***************************************************************************)
(* Proofs about Transfers: its types, that a transfer's row tells the      *)
(* truth about its file, that a removed transfer leaves no file, and that  *)
(* an upload sent in order is published whole: for any number of posts,    *)
(* uploads, requests and downloads, any stored names and any faults.       *)
(***************************************************************************)
EXTENDS Transfers, TLAPS

-----------------------------------------------------------------------------
\* Types

RequestSteps == {"idle", "append", "reopen", "save", "move", "hash", "register", "forget"}

RequestRecords ==
    [pc : RequestSteps, of : Uploads \cup {None}, no : 0 .. Chunks,
     received : 0 .. Chunks - 1, sum : Contents \cup {None}]

\* A request at work is for an upload; only one with chunks to come saves.
RequestOK(x) ==
    /\ x \in RequestRecords
    /\ x.pc # "idle" => x.of \in Uploads /\ x.no # 0
    /\ x.pc = "save" => x.received + 1 < Chunks
    /\ x.pc \in {"move", "hash", "register", "forget"} => x.received + 1 = Chunks
    /\ x.pc = "register" => x.sum \in Contents

DownloadRecords ==
    [pc : {"idle", "mark", "save", "done"}, id : Ids \cup {None}, row : RowRecords \cup {None}]

DownloadOK(x) ==
    /\ x \in DownloadRecords
    /\ x.pc \in {"mark", "save"} => x.id \in Ids
    /\ x.pc = "save" => x.row \in RowRecords

FilesOK ==
    /\ disk \in [Paths -> Contents \cup {None}]
    /\ temp \in [Paths -> Contents \cup {None}]

RowsOK ==
    /\ rows \in [Ids -> RowRecords \cup {None}]
    /\ made \in [Sources -> Nat]
    /\ due \subseteq begun /\ begun \subseteq Sources

CountsOK ==
    /\ sess \in [Uploads -> (0 .. Chunks - 1) \cup {None}]
    /\ known \in [Uploads -> 0 .. Chunks - 1]
    /\ sent \in [Uploads -> 0 .. Chunks]

HandlersOK ==
    /\ post \in [Posts -> {"idle", "writing", "register", "done"}]
    /\ req \in [Requests -> RequestRecords] /\ \A r \in Requests : RequestOK(req[r])
    /\ dl \in [Downloads -> DownloadRecords] /\ \A d \in Downloads : DownloadOK(dl[d])
    /\ cln \in [pc : {"idle", "files"}, ids : SUBSET Ids, left : SUBSET Ids]

TypeInv == FilesOK /\ RowsOK /\ CountsOK /\ HandlersOK

\* A registration keeps the types of the rows.
LEMMA RegisterKeepsTypes ==
    ASSUME RowsOK, NEW s \in Sources, NEW sum, NEW size, [sum |-> sum, size |-> size] \in RowRecords,
           Register(s, sum, size)
    PROVE  rows' \in [Ids -> RowRecords \cup {None}] /\ made' \in [Sources -> Nat]
<1>1. ASSUME NEW f \in [Ids -> RowRecords \cup {None}], NEW id, NEW row \in RowRecords
      PROVE  [f EXCEPT ![id] = row] \in [Ids -> RowRecords \cup {None}]
  OBVIOUS
<1>2. made' \in [Sources -> Nat]
  BY DEF RowsOK, Register
<1>3. rows' \in [Ids -> RowRecords \cup {None}]
  BY <1>1 DEF RowsOK, Register
<1> QED BY <1>2, <1>3

\* A request goes to another step and keeps its locals.
LEMMA StepOfRequest ==
    ASSUME req \in [Requests -> RequestRecords], NEW r \in Requests, NEW pc, To(r, pc)
    PROVE  /\ req'[r].pc = pc /\ req'[r].of = req[r].of /\ req'[r].no = req[r].no
           /\ req'[r].received = req[r].received /\ req'[r].sum = req[r].sum
           /\ \A q \in Requests \ {r} : req'[q] = req[q]
  BY DEF To, RequestRecords

\* A request ends, or has read the file it moved.
LEMMA HashOfRequest ==
    ASSUME req \in [Requests -> RequestRecords], NEW r \in Requests, HashFile(r)
    PROVE  /\ req[r].pc = "hash" /\ \A q \in Requests \ {r} : req'[q] = req[q]
           /\ disk[PathOf[req[r].of]] = None => req'[r].pc = "idle"
           /\ disk[PathOf[req[r].of]] # None =>
                 /\ req'[r].pc = "register" /\ req'[r].of = req[r].of
                 /\ req'[r].no = req[r].no /\ req'[r].received = req[r].received
                 /\ req'[r].sum = disk[PathOf[req[r].of]]
<1> DEFINE content == disk[PathOf[req[r].of]]
<1>1. CASE content = None
  BY <1>1 DEF HashFile, Idle, NoRequest
<1>2. CASE content # None
  <2>1. req' = [req EXCEPT ![r] = [@ EXCEPT !.pc = "register", !.sum = content]]
        /\ req[r].pc = "hash"
    BY <1>2 DEF HashFile
  <2> HIDE DEF content
  <2>2. /\ req'[r].pc = "register" /\ req'[r].of = req[r].of
        /\ req'[r].no = req[r].no /\ req'[r].received = req[r].received
        /\ req'[r].sum = content /\ \A q \in Requests \ {r} : req'[q] = req[q]
    BY <2>1 DEF RequestRecords
  <2> QED BY <1>2, <2>1, <2>2 DEF content
<1> QED BY <1>1, <1>2

\* The counts and the chunk request stay as they are but for what is named.
LEMMA RequestKeepsTypes ==
    ASSUME TypeInv, NEW r \in Requests, Request(r)
    PROVE  TypeInv'
<1> USE TransfersAssumption
    DEF TypeInv, FilesOK, RowsOK, CountsOK, HandlersOK, files, history, To, Idle
<1> DEFINE Keeps == req' \in [Requests -> RequestRecords] /\ \A q \in Requests : RequestOK(req'[q])
<1>1. RequestOK(NoRequest) /\ RequestOK(req[r]) /\ req[r] \in RequestRecords
  BY DEF NoRequest, RequestOK, RequestRecords, RequestSteps
<1>2. ASSUME NEW x, req' = [req EXCEPT ![r] = x], RequestOK(x) PROVE Keeps
  BY <1>2 DEF RequestOK
<1>3. ASSUME NEW u \in Uploads, Receive(r, u) PROVE TypeInv'
  <2> DEFINE x == [pc |-> "append", of |-> u, no |-> known[u] + 1,
                   received |-> sess[u], sum |-> None]
  <2>1. known[u] + 1 \in 0 .. Chunks /\ known[u] + 1 # 0 /\ sess[u] \in 0 .. Chunks - 1
    BY <1>3 DEF Receive
  <2>2. RequestOK(x)
    BY <2>1 DEF RequestOK, RequestRecords, RequestSteps
  <2>3. Keeps
    BY <1>2, <1>3, <2>2 DEF Receive
  <2>4. sent' \in [Uploads -> 0 .. Chunks]
    BY <1>3, <2>1 DEF Receive
  <2> QED BY <1>3, <2>3, <2>4 DEF Receive
<1>4. CASE AppendChunk(r)
  <2>1. RequestOK([req[r] EXCEPT !.pc = "reopen"])
    BY <1>1, <1>4 DEF AppendChunk, RequestOK, RequestRecords, RequestSteps
  <2>2. Keeps
    BY <1>2, <1>4, <2>1 DEF AppendChunk
  <2>3. <<req[r].of, req[r].no>> \in Sources \X (1 .. Chunks)
    <3>1. req[r].pc = "append"
      BY ONLY <1>4 DEF AppendChunk
    <3>2. req[r].of \in Uploads /\ req[r].no # 0 /\ req[r].no \in 0 .. Chunks
      BY ONLY <1>1, <3>1 DEF RequestOK, RequestRecords
    <3> QED BY ONLY <3>2, TransfersAssumption DEF Sources
  <2>4. \A c \in Contents : Append(c, <<req[r].of, req[r].no>>) \in Contents
    BY <2>3 DEF Contents
  <2>5. <<>> \in Contents
    BY DEF Contents
  <2>6. temp' \in [Paths -> Contents \cup {None}]
    BY <1>4, <2>4, <2>5 DEF AppendChunk
  <2> QED BY <1>4, <2>2, <2>6 DEF AppendChunk
<1>5. CASE Reopen(r)
  <2> DEFINE x == req[r]
  <2>1. x.of \in Uploads /\ x.no # 0 /\ x \in RequestRecords
    BY <1>1, <1>5 DEF Reopen, RequestOK
  <2>2. ASSUME Complete(r) PROVE Keeps
    <3>1. x.received + 1 = Chunks
      BY <2>1, <2>2 DEF Complete, RequestRecords
    <3>2. RequestOK([x EXCEPT !.pc = "move"])
      BY <2>1, <3>1 DEF RequestOK, RequestRecords, RequestSteps
    <3>3. req' = [req EXCEPT ![r] = [x EXCEPT !.pc = "move"]]
      BY <1>5, <2>2 DEF Reopen
    <3> HIDE DEF x
    <3> QED BY <1>2, <3>2, <3>3
  <2>5. ASSUME ~Complete(r) PROVE Keeps
    <3>1. x.received + 1 < Chunks
      BY <2>1, <2>5 DEF Complete, RequestRecords
    <3>2. RequestOK([x EXCEPT !.pc = "save"])
      BY <2>1, <3>1 DEF RequestOK, RequestRecords, RequestSteps
    <3>3. req' = [req EXCEPT ![r] = [x EXCEPT !.pc = "save"]]
      BY <1>5, <2>5 DEF Reopen
    <3> HIDE DEF x
    <3> QED BY <1>2, <3>2, <3>3
  <2>6. Keeps
    BY <2>2, <2>5
  <2>3. <<>> \in Contents
    BY DEF Contents
  <2>4. temp' \in [Paths -> Contents \cup {None}]
    BY <1>5, <2>3 DEF Reopen
  <2> QED BY <1>5, <2>4, <2>6 DEF Reopen
<1>6. CASE SaveSession(r)
  <2>1. req[r].of \in Uploads /\ req[r].received + 1 \in 0 .. Chunks - 1
    BY <1>1, <1>6 DEF SaveSession, RequestOK, RequestRecords
  <2>2. Keeps
    BY <1>1, <1>2, <1>6 DEF SaveSession
  <2> QED BY <1>6, <2>1, <2>2 DEF SaveSession
<1>7. CASE MoveTemp(r)
  <2>1. RequestOK([req[r] EXCEPT !.pc = "hash"])
    BY <1>1, <1>7 DEF MoveTemp, RequestOK, RequestRecords, RequestSteps
  <2>2. Keeps
    BY <1>1, <1>2, <1>7, <2>1 DEF MoveTemp
  <2>3. PathOf[req[r].of] \in Paths
    BY <1>1, <1>7 DEF MoveTemp, RequestOK, Sources
  <2>4. FilesOK'
    BY <1>7, <2>3 DEF MoveTemp
  <2> QED BY <1>7, <2>2, <2>4 DEF MoveTemp
<1>8. CASE HashFile(r)
  <2> DEFINE content == disk[PathOf[req[r].of]]
  <2>1. PathOf[req[r].of] \in Paths
    BY <1>1, <1>8 DEF HashFile, RequestOK, Sources
  <2>2. content # None => RequestOK([req[r] EXCEPT !.pc = "register", !.sum = content])
    BY <1>1, <1>8, <2>1 DEF HashFile, RequestOK, RequestRecords, RequestSteps
  <2>3. Keeps
    BY <1>1, <1>2, <1>8, <2>2 DEF HashFile
  <2> QED BY <1>8, <2>3 DEF HashFile
<1>9. CASE RegisterFile(r)
  <2>1. RequestOK([req[r] EXCEPT !.pc = "forget"])
    BY <1>1, <1>9 DEF RegisterFile, RequestOK, RequestRecords, RequestSteps
  <2>2. Keeps
    BY <1>1, <1>2, <1>9, <2>1 DEF RegisterFile
  <2>3. [sum |-> req[r].sum, size |-> req[r].received + 1] \in RowRecords
    BY <1>1, <1>9 DEF RegisterFile, RequestOK, RequestRecords, RowRecords
  <2>4. rows' \in [Ids -> RowRecords \cup {None}] /\ made' \in [Sources -> Nat]
    BY <1>1, <1>9, <2>3, RegisterKeepsTypes DEF RegisterFile, Sources, RequestOK
  <2> QED BY <1>9, <2>2, <2>4 DEF RegisterFile
<1>10. CASE ForgetSession(r)
  <2>1. Keeps
    BY <1>1, <1>2, <1>10 DEF ForgetSession
  <2> QED BY <1>10, <2>1 DEF ForgetSession
<1>11. CASE RequestFails(r)
  <2>1. Keeps
    BY <1>1, <1>2, <1>11 DEF RequestFails
  <2> QED BY <1>11, <2>1 DEF RequestFails
<1> QED BY <1>3, <1>4, <1>5, <1>6, <1>7, <1>8, <1>9, <1>10, <1>11 DEF Request

\* So does a download ...
LEMMA DownloadKeepsTypes ==
    ASSUME TypeInv, NEW d \in Downloads, Download(d)
    PROVE  TypeInv'
<1> USE DEF TypeInv, FilesOK, RowsOK, CountsOK, HandlersOK, files, history
<1> DEFINE Keeps == dl' \in [Downloads -> DownloadRecords] /\ \A e \in Downloads : DownloadOK(dl'[e])
<1>1. DownloadOK([NoDownload EXCEPT !.pc = "done"]) /\ DownloadOK(dl[d])
  BY DEF NoDownload, DownloadOK, DownloadRecords
<1>2. ASSUME NEW x, dl' = [dl EXCEPT ![d] = x], DownloadOK(x) PROVE Keeps
  BY <1>2 DEF DownloadOK
<1>3. ASSUME NEW id \in Ids, DownloadResolve(d, id) PROVE TypeInv'
  <2>1. DownloadOK([pc |-> "mark", id |-> id, row |-> None])
    BY DEF DownloadOK, DownloadRecords
  <2>2. Keeps
    BY <1>2, <1>3, <2>1 DEF DownloadResolve
  <2> QED BY <1>3, <2>2 DEF DownloadResolve
<1>4. CASE DownloadLoad(d)
  <2>1. rows[dl[d].id] # None => DownloadOK([dl[d] EXCEPT !.pc = "save", !.row = rows[dl[d].id]])
    BY <1>1, <1>4 DEF DownloadLoad, DownloadOK, DownloadRecords
  <2>2. Keeps
    BY <1>1, <1>2, <1>4, <2>1 DEF DownloadLoad
  <2> QED BY <1>4, <2>2 DEF DownloadLoad
<1>5. CASE DownloadSave(d)
  <2>1. Keeps
    BY <1>1, <1>2, <1>5 DEF DownloadSave
  <2>2. rows' \in [Ids -> RowRecords \cup {None}]
    BY <1>1, <1>5 DEF DownloadSave, DownloadOK
  <2> QED BY <1>5, <2>1, <2>2 DEF DownloadSave
<1> QED BY <1>3, <1>4, <1>5 DEF Download

\* ... a post ...
LEMMA PostKeepsTypes ==
    ASSUME TypeInv, NEW p \in Posts, PostOpen(p) \/ PostWrite(p) \/ PostRegister(p) \/ PostFails(p)
    PROVE  TypeInv'
<1> USE TransfersAssumption DEF TypeInv, FilesOK, RowsOK, CountsOK, HandlersOK, files, history
<1>1. <<>> \in Contents /\ Whole(p) \in Contents
  BY DEF Contents, Whole, Sources
<1>2. CASE PostOpen(p)
  BY <1>1, <1>2 DEF PostOpen, Sources
<1>3. CASE PostWrite(p)
  BY <1>1, <1>3 DEF PostWrite
<1>4. CASE PostRegister(p)
  <2>1. [sum |-> Whole(p), size |-> 1] \in RowRecords
    BY <1>1 DEF RowRecords
  <2>2. rows' \in [Ids -> RowRecords \cup {None}] /\ made' \in [Sources -> Nat]
    BY <1>4, <2>1, RegisterKeepsTypes DEF PostRegister, Sources
  <2> QED BY <1>4, <2>2 DEF PostRegister
<1>5. CASE PostFails(p)
  BY <1>5 DEF PostFails
<1> QED BY <1>2, <1>3, <1>4, <1>5

\* ... and the cleanup.
LEMMA CleanupKeepsTypes ==
    ASSUME TypeInv, Cleanup
    PROVE  TypeInv'
<1> USE DEF TypeInv, FilesOK, RowsOK, CountsOK, HandlersOK, files, history
<1>1. CASE CleanupList    BY <1>1 DEF CleanupList
<1>2. CASE CleanupCommit  BY <1>2 DEF CleanupCommit, NoCleanup
<1>3. CASE CleanupFails   BY <1>3 DEF CleanupFails, NoCleanup
<1>4. ASSUME NEW id \in Ids, CleanupFile(id) PROVE TypeInv'
  BY <1>4 DEF CleanupFile
<1>5. ASSUME NEW p \in Paths, Sweep(p) PROVE TypeInv'
  BY <1>5 DEF Sweep
<1> QED BY <1>1, <1>2, <1>3, <1>4, <1>5 DEF Cleanup

\* Types are right at the start and stay right.
LEMMA TypesHold == (Init => TypeInv) /\ (TypeInv /\ [Next]_vars => TypeInv')
<1>1. Init => TypeInv
  <2> SUFFICES ASSUME Init PROVE TypeInv
    OBVIOUS
  <2> USE TransfersAssumption DEF Init
  <2>1. RequestOK(NoRequest) /\ DownloadOK(NoDownload)
    BY DEF NoRequest, RequestOK, RequestRecords, RequestSteps, NoDownload, DownloadOK,
           DownloadRecords
  <2>2. HandlersOK
    BY <2>1 DEF HandlersOK, NoCleanup, RequestOK, DownloadOK
  <2>3. FilesOK /\ RowsOK /\ CountsOK
    BY DEF FilesOK, RowsOK, CountsOK
  <2> QED BY <2>2, <2>3 DEF TypeInv
<1>2. TypeInv /\ [Next]_vars => TypeInv'
  <2> SUFFICES ASSUME TypeInv, [Next]_vars PROVE TypeInv'
    OBVIOUS
  <2> USE TransfersAssumption
      DEF TypeInv, FilesOK, RowsOK, CountsOK, HandlersOK, files, history
  <2>1. ASSUME NEW p \in Posts, PostOpen(p) \/ PostWrite(p) \/ PostRegister(p) \/ PostFails(p)
        PROVE  TypeInv'
    BY ONLY TypeInv, <2>1, PostKeepsTypes
  <2>2. ASSUME NEW u \in Uploads, Create(u) \/ Lapse(u) \/ Ask(u) PROVE TypeInv'
    BY <2>2 DEF Create, Lapse, Ask, Sources
  <2>3. ASSUME NEW r \in Requests, Request(r) PROVE TypeInv'
    BY ONLY TypeInv, <2>3, RequestKeepsTypes
  <2>4. ASSUME NEW d \in Downloads, Download(d) PROVE TypeInv'
    BY ONLY TypeInv, <2>4, DownloadKeepsTypes
  <2>5. CASE Cleanup
    BY ONLY TypeInv, <2>5, CleanupKeepsTypes
  <2>6. ASSUME NEW s \in Sources, Expire(s) PROVE TypeInv'
    BY <2>6 DEF Expire
  <2>7. CASE Crash
    <3>1. RequestOK(NoRequest) /\ DownloadOK(NoDownload) /\ DownloadOK([NoDownload EXCEPT !.pc = "done"])
      BY DEF NoRequest, RequestOK, RequestRecords, RequestSteps, NoDownload, DownloadOK,
             DownloadRecords
    <3>2. req' \in [Requests -> RequestRecords] /\ \A r \in Requests : RequestOK(req'[r])
      BY <2>7, <3>1 DEF Crash, RequestOK
    <3>3. dl' \in [Downloads -> DownloadRecords] /\ \A d \in Downloads : DownloadOK(dl'[d])
      BY <2>7, <3>1 DEF Crash, DownloadOK
    <3>4. post' \in [Posts -> {"idle", "writing", "register", "done"}]
          /\ cln' \in [pc : {"idle", "files"}, ids : SUBSET Ids, left : SUBSET Ids]
      BY <2>7 DEF Crash, NoCleanup
    <3> QED BY <2>7, <3>2, <3>3, <3>4 DEF Crash
  <2>8. CASE UNCHANGED vars
    BY <2>8 DEF vars
  <2> QED BY <2>1, <2>2, <2>3, <2>4, <2>5, <2>6, <2>7, <2>8 DEF Next
<1> QED BY <1>1, <1>2

\* Every variable keeps its kind, and no session that is saved counts a whole
\* upload, however many requests, faults and registrations there are.
THEOREM TypeCorrect == Spec => []TypeOK
<1>1. TypeInv => TypeOK
  BY DEF TypeInv, FilesOK, RowsOK, CountsOK, TypeOK
<1> QED BY <1>1, TypesHold, PTL DEF Spec

-----------------------------------------------------------------------------
\* What has been begun and made

Active(r, s) == req[r].pc # "idle" /\ req[r].of = s

\* Nothing is kept of, or under way for, a source that was not begun.
BeginningsFirst ==
    /\ \A p \in Posts : post[p] # "idle" => p \in begun
    /\ \A u \in Uploads \ begun : known[u] = 0 /\ sent[u] = 0 /\ sess[u] = None
    /\ \A r \in Requests : req[r].pc # "idle" => req[r].of \in begun
    /\ \A s \in Sources : made[s] > 0 => s \in begun
    /\ \A p \in Paths : temp[p] # None => \E u \in begun : PathOf[u] = p
    /\ again \subseteq begun \cap Uploads

\* Rows, and the copies and lists of them, are of registrations.
RowsAreMade ==
    /\ \A p \in Posts : /\ made[p] > 0 => post[p] = "done"
                        /\ p \in due => made[p] > 0
    /\ \A id \in Ids : rows[id] # None => made[id[1]] > 0
    /\ \A d \in Downloads : dl[d].pc \in {"mark", "save"} => made[dl[d].id[1]] > 0
    /\ cln.pc = "files" =>
          \A id \in cln.ids \cup cln.left : made[id[1]] > 0 /\ id[1] \in due

\* Only an upload with overlapping requests has two at work.
OneAtATime ==
    \A u \in Uploads \ overlapped : \A q, r \in Requests : Active(q, u) /\ Active(r, u) => q = r

ReachInv == BeginningsFirst /\ RowsAreMade /\ OneAtATime

\* A registration is of its source and of no other.
LEMMA RegistrationIs ==
    ASSUME RowsOK, NEW s \in Sources, NEW sum, NEW size, Register(s, sum, size)
    PROVE  /\ made'[s] = made[s] + 1 /\ made'[s] > 0
           /\ \A t \in Sources \ {s} : made'[t] = made[t]
           /\ \A id \in Ids : rows'[id] \in {rows[id], [sum |-> sum, size |-> size]}
           /\ \A id \in Ids : id[1] # s => rows'[id] = rows[id]
           /\ made[s] = 0 => rows'[<<s, 1>>] = [sum |-> sum, size |-> size]
<1>1. made'[s] = made[s] + 1 /\ made'[s] > 0 /\ \A t \in Sources \ {s} : made'[t] = made[t]
  BY DEF RowsOK, Register
<1>2. rows' = [rows EXCEPT ![<<s, made'[s]>>] = [sum |-> sum, size |-> size]]
  BY DEF Register
<1>3. \A id \in Ids : rows'[id] \in {rows[id], [sum |-> sum, size |-> size]}
  BY <1>2 DEF RowsOK
<1>4. \A id \in Ids : id[1] # s => rows'[id] = rows[id]
  BY <1>2 DEF RowsOK
<1>5. made[s] = 0 => rows'[<<s, 1>>] = [sum |-> sum, size |-> size]
  BY <1>1, <1>2, TransfersAssumption DEF RowsOK, Ids
<1> QED BY <1>1, <1>3, <1>4, <1>5

\* The request of a step, and its upload.
LEMMA AtWork ==
    ASSUME TypeInv, BeginningsFirst, NEW r \in Requests, req[r].pc # "idle"
    PROVE  req[r].of \in Uploads /\ req[r].of \in Sources /\ req[r].of \in begun
  BY DEF TypeInv, HandlersOK, RequestOK, BeginningsFirst, Sources

\* Everything begins with its source.
LEMMA StepKeepsBeginnings ==
    ASSUME TypeInv, ReachInv, [Next]_vars
    PROVE  BeginningsFirst'
<1> USE TransfersAssumption
    DEF TypeInv, FilesOK, RowsOK, CountsOK, HandlersOK, RequestOK, DownloadOK, files,
        history, To, Idle, ReachInv, BeginningsFirst, Sources
<1>1. ASSUME NEW p \in Posts, PostOpen(p) \/ PostWrite(p) \/ PostRegister(p) \/ PostFails(p)
      PROVE  BeginningsFirst'
  <2>1. CASE PostOpen(p)
    BY <2>1 DEF PostOpen
  <2>2. CASE PostWrite(p)
    BY <2>2 DEF PostWrite
  <2>3. CASE PostRegister(p)
    <3>1. /\ made'[p] = made[p] + 1 /\ made'[p] > 0
          /\ \A t \in Sources \ {p} : made'[t] = made[t]
          /\ \A id \in Ids : id[1] # p => rows'[id] = rows[id]
      BY <2>3, RegistrationIs DEF PostRegister
    <3> QED BY <2>3, <3>1 DEF PostRegister
  <2>4. CASE PostFails(p)
    BY <2>4 DEF PostFails
  <2> QED BY <1>1, <2>1, <2>2, <2>3, <2>4
<1>2. ASSUME NEW u \in Uploads, Create(u) \/ Lapse(u) \/ Ask(u)
      PROVE  BeginningsFirst'
  <2>1. CASE Create(u)
    BY <2>1 DEF Create
  <2>2. CASE Lapse(u)
    BY <2>2 DEF Lapse
  <2>3. CASE Ask(u)
    BY <2>3 DEF Ask
  <2> QED BY <1>2, <2>1, <2>2, <2>3
<1>3. ASSUME NEW r \in Requests, Request(r)
      PROVE  BeginningsFirst'
  <2>1. ASSUME NEW u \in Uploads, Receive(r, u) PROVE BeginningsFirst'
    BY <2>1 DEF Receive
  <2>2. CASE AppendChunk(r) \/ Reopen(r)
    <3>1. /\ req[r].pc # "idle" /\ \E pc : To(r, pc)
          /\ UNCHANGED <<disk, sess, rows, due, post, dl, cln, known, history>>
      BY ONLY <2>2 DEF AppendChunk, Reopen
    <3>2. \A q \in Requests :
             req'[q].pc # "idle" => req[q].pc # "idle" /\ req'[q].of = req[q].of
      <4> HIDE DEF To
      <4> QED BY <3>1, StepOfRequest
    <3>3. req[r].of \in begun /\ req[r].of \in Uploads
      BY <3>1
    <3>4. \A p \in Paths : temp'[p] # None => temp[p] # None \/ p = PathOf[req[r].of]
      <4>1. PICK content : temp' = [temp EXCEPT ![PathOf[req[r].of]] = content]
        BY ONLY <2>2 DEF AppendChunk, Reopen
      <4> QED BY <4>1
    <3> QED BY <3>1, <3>2, <3>3, <3>4
  <2>4. CASE SaveSession(r)
    BY <2>4 DEF SaveSession, NoRequest
  <2>5. CASE MoveTemp(r)
    <3>1. \A q \in Requests :
             req'[q].pc # "idle" => req[q].pc # "idle" /\ req'[q].of = req[q].of
      <4>1. CASE temp[PathOf[req[r].of]] = None
        BY <2>5, <4>1 DEF MoveTemp, NoRequest
      <4>2. CASE temp[PathOf[req[r].of]] # None
        <5> DEFINE x == [req[r] EXCEPT !.pc = "hash"]
        <5>1. req' = [req EXCEPT ![r] = x]
          BY <2>5, <4>2 DEF MoveTemp
        <5>2. x.of = req[r].of
          BY ONLY req[r] \in RequestRecords DEF RequestRecords
        <5>3. req[r].pc # "idle"
          BY <2>5 DEF MoveTemp
        <5> HIDE DEF x
        <5> QED BY <5>1, <5>2, <5>3
      <4> QED BY <4>1, <4>2
    <3>2. \A p \in Paths : temp'[p] # None => temp[p] # None
      BY <2>5 DEF MoveTemp
    <3>3. UNCHANGED <<sess, rows, due, post, dl, cln, known, sent, begun, made, overlapped>>
      BY <2>5 DEF MoveTemp
    <3>4. again' \subseteq begun \cap Uploads
      BY <2>5, AtWork DEF MoveTemp
    <3> QED BY <3>1, <3>2, <3>3, <3>4
  <2>6. CASE HashFile(r)
    <3>1. \A q \in Requests :
             req'[q].pc # "idle" => req[q].pc # "idle" /\ req'[q].of = req[q].of
      <4>1. CASE disk[PathOf[req[r].of]] = None
        BY <2>6, <4>1 DEF HashFile, NoRequest
      <4>2. CASE disk[PathOf[req[r].of]] # None
        <5> DEFINE x == [req[r] EXCEPT !.pc = "register", !.sum = disk[PathOf[req[r].of]]]
        <5>1. req' = [req EXCEPT ![r] = x]
          BY <2>6, <4>2 DEF HashFile
        <5>2. x.of = req[r].of
          BY ONLY req[r] \in RequestRecords DEF RequestRecords
        <5>3. req[r].pc # "idle"
          BY <2>6 DEF HashFile
        <5> HIDE DEF x
        <5> QED BY <5>1, <5>2, <5>3
      <4> QED BY <4>1, <4>2
    <3>2. UNCHANGED <<temp, sess, rows, due, post, dl, cln, known, sent, begun, made, overlapped, again>>
      BY <2>6 DEF HashFile
    <3> QED BY <3>1, <3>2
  <2>7. CASE RegisterFile(r)
    <3> DEFINE u == req[r].of
    <3>1. u \in Sources /\ u \in begun
      BY <2>7, AtWork DEF RegisterFile
    <3>2. /\ made'[u] = made[u] + 1 /\ made'[u] > 0
          /\ \A t \in Sources \ {u} : made'[t] = made[t]
          /\ \A id \in Ids : id[1] # u => rows'[id] = rows[id]
      BY <2>7, <3>1, RegistrationIs DEF RegisterFile
    <3> QED BY <2>7, <3>1, <3>2 DEF RegisterFile
  <2>8. CASE ForgetSession(r)
    BY <2>8 DEF ForgetSession, NoRequest
  <2>9. CASE RequestFails(r)
    BY <2>9 DEF RequestFails, NoRequest
  <2> QED BY <1>3, <2>1, <2>2, <2>4, <2>5, <2>6, <2>7, <2>8, <2>9 DEF Request
<1>4. ASSUME NEW d \in Downloads, Download(d)
      PROVE  BeginningsFirst'
  <2>1. ASSUME NEW id \in Ids, DownloadResolve(d, id) PROVE BeginningsFirst'
    BY <2>1 DEF DownloadResolve
  <2>2. CASE DownloadLoad(d)
    BY <2>2 DEF DownloadLoad, NoDownload
  <2>3. CASE DownloadSave(d)
    BY <2>3 DEF DownloadSave, NoDownload
  <2> QED BY <1>4, <2>1, <2>2, <2>3 DEF Download
<1>5. CASE Cleanup
  <2>1. CASE CleanupList
    BY <2>1 DEF CleanupList
  <2>2. CASE CleanupCommit
    BY <2>2 DEF CleanupCommit, NoCleanup
  <2>3. CASE CleanupFails
    BY <2>3 DEF CleanupFails, NoCleanup
  <2>4. ASSUME NEW id \in Ids, CleanupFile(id) PROVE BeginningsFirst'
    BY <2>4 DEF CleanupFile
  <2>5. ASSUME NEW p \in Paths, Sweep(p) PROVE BeginningsFirst'
    BY <2>5 DEF Sweep
  <2> QED BY <1>5, <2>1, <2>2, <2>3, <2>4, <2>5 DEF Cleanup
<1>6. ASSUME NEW s \in Sources, Expire(s) PROVE BeginningsFirst'
  BY <1>6 DEF Expire
<1>7. CASE Crash
  BY <1>7 DEF Crash, NoRequest, NoDownload, NoCleanup
<1>8. CASE UNCHANGED vars
  BY <1>8 DEF vars
<1> QED BY <1>1, <1>2, <1>3, <1>4, <1>5, <1>6, <1>7, <1>8 DEF Next

\* Rows, copies and lists begin with a registration.
LEMMA StepKeepsRows ==
    ASSUME TypeInv, ReachInv, [Next]_vars
    PROVE  RowsAreMade'
<1> USE TransfersAssumption
    DEF TypeInv, FilesOK, RowsOK, CountsOK, HandlersOK, RequestOK, DownloadOK, files,
        history, To, Idle, ReachInv, BeginningsFirst, RowsAreMade, Sources
<1>1. ASSUME NEW p \in Posts, PostOpen(p) \/ PostWrite(p) \/ PostRegister(p) \/ PostFails(p)
      PROVE  RowsAreMade'
  <2>1. CASE PostOpen(p)
    BY <2>1 DEF PostOpen
  <2>2. CASE PostWrite(p)
    BY <2>2 DEF PostWrite
  <2>3. CASE PostRegister(p)
    <3>1. /\ made'[p] = made[p] + 1 /\ made'[p] > 0
          /\ \A t \in Sources \ {p} : made'[t] = made[t]
          /\ \A id \in Ids : id[1] # p => rows'[id] = rows[id]
      BY <2>3, RegistrationIs DEF PostRegister
    <3>2. \A t \in Sources : made[t] > 0 => made'[t] > 0
      BY <3>1
    <3>3. \A id \in Ids : id[1] \in Sources
      BY DEF Ids
    <3>4. \A q \in Posts : /\ made'[q] > 0 => post'[q] = "done"
                           /\ q \in due' => made'[q] > 0
      BY <2>3, <3>1, <3>2 DEF PostRegister
    <3>5. \A id \in Ids : rows'[id] # None => made'[id[1]] > 0
      BY <3>1, <3>2, <3>3
    <3>6. UNCHANGED <<dl, cln, due>>
      BY <2>3 DEF PostRegister
    <3>7. \A d \in Downloads : dl'[d].pc \in {"mark", "save"} => made'[dl'[d].id[1]] > 0
      BY <3>2, <3>3, <3>6
    <3>8. cln'.pc = "files" =>
            \A id \in cln'.ids \cup cln'.left : made'[id[1]] > 0 /\ id[1] \in due'
      BY <3>2, <3>3, <3>6
    <3> QED BY ONLY <3>4, <3>5, <3>7, <3>8 DEF RowsAreMade
  <2>4. CASE PostFails(p)
    BY <2>4 DEF PostFails
  <2> QED BY <1>1, <2>1, <2>2, <2>3, <2>4
<1>2. ASSUME NEW u \in Uploads, Create(u) \/ Lapse(u) \/ Ask(u)
      PROVE  RowsAreMade'
  <2>1. CASE Create(u)
    BY <2>1 DEF Create
  <2>2. CASE Lapse(u)
    BY <2>2 DEF Lapse
  <2>3. CASE Ask(u)
    BY <2>3 DEF Ask
  <2> QED BY <1>2, <2>1, <2>2, <2>3
<1>3. ASSUME NEW r \in Requests, Request(r)
      PROVE  RowsAreMade'
  <2>1. ASSUME NEW u \in Uploads, Receive(r, u) PROVE RowsAreMade'
    BY <2>1 DEF Receive
  <2>2. CASE AppendChunk(r)
    BY <2>2 DEF AppendChunk
  <2>3. CASE Reopen(r)
    BY <2>3 DEF Reopen
  <2>4. CASE SaveSession(r)
    BY <2>4 DEF SaveSession, NoRequest
  <2>5. CASE MoveTemp(r)
    BY <2>5 DEF MoveTemp, NoRequest
  <2>6. CASE HashFile(r)
    BY <2>6 DEF HashFile, NoRequest
  <2>7. CASE RegisterFile(r)
    <3> DEFINE u == req[r].of
    <3>1. u \in Sources /\ u \in begun
      BY <2>7, AtWork DEF RegisterFile
    <3>2. /\ made'[u] = made[u] + 1 /\ made'[u] > 0
          /\ \A t \in Sources \ {u} : made'[t] = made[t]
          /\ \A id \in Ids : id[1] # u => rows'[id] = rows[id]
      <4>1. Register(u, req[r].sum, req[r].received + 1)
        BY ONLY <2>7 DEF RegisterFile
      <4> QED BY ONLY <3>1, <4>1, RegistrationIs, RowsOK
    <3>3. \A t \in Sources : made[t] > 0 => made'[t] > 0
      BY <3>1, <3>2
    <3>4. \A id \in Ids : id[1] \in Sources
      BY DEF Ids
    <3>5. \A q \in Posts : /\ made'[q] > 0 => post'[q] = "done"
                           /\ q \in due' => made'[q] > 0
      BY <2>7, <3>1, <3>2, <3>3 DEF RegisterFile
    <3>6. \A id \in Ids : rows'[id] # None => made'[id[1]] > 0
      BY <3>1, <3>2, <3>3, <3>4
    <3>7. UNCHANGED <<dl, cln, due>>
      BY <2>7 DEF RegisterFile
    <3>8. \A d \in Downloads : dl'[d].pc \in {"mark", "save"} => made'[dl'[d].id[1]] > 0
      BY <3>3, <3>4, <3>7
    <3>9. cln'.pc = "files" =>
            \A id \in cln'.ids \cup cln'.left : made'[id[1]] > 0 /\ id[1] \in due'
      BY <3>3, <3>4, <3>7
    <3> QED BY ONLY <3>5, <3>6, <3>8, <3>9 DEF RowsAreMade
  <2>8. CASE ForgetSession(r)
    BY <2>8 DEF ForgetSession, NoRequest
  <2>9. CASE RequestFails(r)
    BY <2>9 DEF RequestFails, NoRequest
  <2> QED BY <1>3, <2>1, <2>2, <2>3, <2>4, <2>5, <2>6, <2>7, <2>8, <2>9 DEF Request
<1>4. ASSUME NEW d \in Downloads, Download(d)
      PROVE  RowsAreMade'
  <2>1. ASSUME NEW id \in Ids, DownloadResolve(d, id) PROVE RowsAreMade'
    BY <2>1 DEF DownloadResolve
  <2>2. CASE DownloadLoad(d)
    BY <2>2 DEF DownloadLoad, NoDownload
  <2>3. CASE DownloadSave(d)
    BY <2>3 DEF DownloadSave, NoDownload
  <2> QED BY <1>4, <2>1, <2>2, <2>3 DEF Download
<1>5. CASE Cleanup
  <2>1. CASE CleanupList
    BY <2>1 DEF CleanupList
  <2>2. CASE CleanupCommit
    BY <2>2 DEF CleanupCommit, NoCleanup
  <2>3. CASE CleanupFails
    BY <2>3 DEF CleanupFails, NoCleanup
  <2>4. ASSUME NEW id \in Ids, CleanupFile(id) PROVE RowsAreMade'
    BY <2>4 DEF CleanupFile
  <2>5. ASSUME NEW p \in Paths, Sweep(p) PROVE RowsAreMade'
    BY <2>5 DEF Sweep
  <2> QED BY <1>5, <2>1, <2>2, <2>3, <2>4, <2>5 DEF Cleanup
<1>6. ASSUME NEW s \in Sources, Expire(s) PROVE RowsAreMade'
  BY <1>6 DEF Expire
<1>7. CASE Crash
  BY <1>7 DEF Crash, NoRequest, NoDownload, NoCleanup
<1>8. CASE UNCHANGED vars
  BY <1>8 DEF vars
<1> QED BY <1>1, <1>2, <1>3, <1>4, <1>5, <1>6, <1>7, <1>8 DEF Next

\* A second request of an upload makes it an overlapped one.
LEMMA StepKeepsRequests ==
    ASSUME TypeInv, ReachInv, [Next]_vars
    PROVE  OneAtATime'
<1> USE TransfersAssumption
    DEF TypeInv, FilesOK, RowsOK, CountsOK, HandlersOK, RequestOK, DownloadOK, files,
        history, To, Idle, ReachInv, OneAtATime, Active
<1>1. ASSUME NEW p \in Posts, PostOpen(p) \/ PostWrite(p) \/ PostRegister(p) \/ PostFails(p)
      PROVE  OneAtATime'
  <2>1. CASE PostOpen(p)
    BY <2>1 DEF PostOpen
  <2>2. CASE PostWrite(p)
    BY <2>2 DEF PostWrite
  <2>3. CASE PostRegister(p)
    BY <2>3 DEF PostRegister
  <2>4. CASE PostFails(p)
    BY <2>4 DEF PostFails
  <2> QED BY <1>1, <2>1, <2>2, <2>3, <2>4
<1>2. ASSUME NEW u \in Uploads, Create(u) \/ Lapse(u) \/ Ask(u)
      PROVE  OneAtATime'
  <2>1. CASE Create(u)
    BY <2>1 DEF Create
  <2>2. CASE Lapse(u)
    BY <2>2 DEF Lapse
  <2>3. CASE Ask(u)
    BY <2>3 DEF Ask
  <2> QED BY <1>2, <2>1, <2>2, <2>3
<1>3. ASSUME NEW r \in Requests, Request(r)
      PROVE  OneAtATime'
  <2>1. ASSUME NEW u \in Uploads, Receive(r, u) PROVE OneAtATime'
    BY <2>1 DEF Receive
  <2>2. CASE AppendChunk(r) \/ Reopen(r)
    <3>1. req[r].pc # "idle" /\ overlapped' = overlapped /\ \E pc : To(r, pc)
      BY ONLY <2>2 DEF AppendChunk, Reopen, history
    <3>2. \A q \in Requests :
             req'[q].pc # "idle" => req[q].pc # "idle" /\ req'[q].of = req[q].of
      <4> HIDE DEF To
      <4> QED BY <3>1, StepOfRequest
    <3> QED BY <3>1, <3>2
  <2>4. CASE SaveSession(r)
    BY <2>4 DEF SaveSession, NoRequest
  <2>5. CASE MoveTemp(r)
    <3>1. \A q \in Requests :
             req'[q].pc # "idle" => req[q].pc # "idle" /\ req'[q].of = req[q].of
      <4>1. CASE temp[PathOf[req[r].of]] = None
        BY <2>5, <4>1 DEF MoveTemp, NoRequest
      <4>2. CASE temp[PathOf[req[r].of]] # None
        <5> DEFINE x == [req[r] EXCEPT !.pc = "hash"]
        <5>1. req' = [req EXCEPT ![r] = x]
          BY <2>5, <4>2 DEF MoveTemp
        <5>2. x.of = req[r].of
          BY ONLY req[r] \in RequestRecords DEF RequestRecords
        <5>3. req[r].pc # "idle"
          BY <2>5 DEF MoveTemp
        <5> HIDE DEF x
        <5> QED BY <5>1, <5>2, <5>3
      <4> QED BY <4>1, <4>2
    <3>2. \A p \in Paths : temp'[p] # None => temp[p] # None
      BY <2>5 DEF MoveTemp
    <3>3. UNCHANGED <<sess, rows, due, post, dl, cln, known, sent, begun, made, overlapped>>
      BY <2>5 DEF MoveTemp
    <3> QED BY <3>1, <3>2, <3>3
  <2>6. CASE HashFile(r)
    <3>1. \A q \in Requests :
             req'[q].pc # "idle" => req[q].pc # "idle" /\ req'[q].of = req[q].of
      <4>1. CASE disk[PathOf[req[r].of]] = None
        BY <2>6, <4>1 DEF HashFile, NoRequest
      <4>2. CASE disk[PathOf[req[r].of]] # None
        <5> DEFINE x == [req[r] EXCEPT !.pc = "register", !.sum = disk[PathOf[req[r].of]]]
        <5>1. req' = [req EXCEPT ![r] = x]
          BY <2>6, <4>2 DEF HashFile
        <5>2. x.of = req[r].of
          BY ONLY req[r] \in RequestRecords DEF RequestRecords
        <5>3. req[r].pc # "idle"
          BY <2>6 DEF HashFile
        <5> HIDE DEF x
        <5> QED BY <5>1, <5>2, <5>3
      <4> QED BY <4>1, <4>2
    <3>2. UNCHANGED <<temp, sess, rows, due, post, dl, cln, known, sent, begun, made, overlapped, again>>
      BY <2>6 DEF HashFile
    <3> QED BY <3>1, <3>2
  <2>7. CASE RegisterFile(r)
    BY <2>7 DEF RegisterFile
  <2>8. CASE ForgetSession(r)
    BY <2>8 DEF ForgetSession, NoRequest
  <2>9. CASE RequestFails(r)
    BY <2>9 DEF RequestFails, NoRequest
  <2> QED BY <1>3, <2>1, <2>2, <2>4, <2>5, <2>6, <2>7, <2>8, <2>9 DEF Request
<1>4. ASSUME NEW d \in Downloads, Download(d)
      PROVE  OneAtATime'
  <2>1. ASSUME NEW id \in Ids, DownloadResolve(d, id) PROVE OneAtATime'
    BY <2>1 DEF DownloadResolve
  <2>2. CASE DownloadLoad(d)
    BY <2>2 DEF DownloadLoad, NoDownload
  <2>3. CASE DownloadSave(d)
    BY <2>3 DEF DownloadSave, NoDownload
  <2> QED BY <1>4, <2>1, <2>2, <2>3 DEF Download
<1>5. CASE Cleanup
  <2>1. CASE CleanupList
    BY <2>1 DEF CleanupList
  <2>2. CASE CleanupCommit
    BY <2>2 DEF CleanupCommit, NoCleanup
  <2>3. CASE CleanupFails
    BY <2>3 DEF CleanupFails, NoCleanup
  <2>4. ASSUME NEW id \in Ids, CleanupFile(id) PROVE OneAtATime'
    BY <2>4 DEF CleanupFile
  <2>5. ASSUME NEW p \in Paths, Sweep(p) PROVE OneAtATime'
    BY <2>5 DEF Sweep
  <2> QED BY <1>5, <2>1, <2>2, <2>3, <2>4, <2>5 DEF Cleanup
<1>6. ASSUME NEW s \in Sources, Expire(s) PROVE OneAtATime'
  BY <1>6 DEF Expire
<1>7. CASE Crash
  BY <1>7 DEF Crash, NoRequest, NoDownload, NoCleanup
<1>8. CASE UNCHANGED vars
  BY <1>8 DEF vars
<1> QED BY <1>1, <1>2, <1>3, <1>4, <1>5, <1>6, <1>7, <1>8 DEF Next

-----------------------------------------------------------------------------
\* Rows and files

\* None of the exceptions of StoredAsRecorded befell s.
Clean(s) == Alone(s) /\ s \notin overlapped \cup again

\* The file is what is, or will be, recorded of it; once the cleanup has deleted
\* it, it stays away.
Sound(s) ==
    /\ s \in Posts /\ post[s] = "register" => disk[PathOf[s]] = Whole(s)
    /\ \A r \in Requests : Active(r, s) =>
          /\ req[r].pc \in {"hash", "register"} => made[s] = 0
          /\ req[r].pc = "register" => disk[PathOf[s]] = req[r].sum
    /\ s \notin due =>
          /\ \A id \in Ids : id[1] = s /\ rows[id] # None => disk[PathOf[s]] = rows[id].sum
          /\ \A d \in Downloads :
                dl[d].pc = "save" /\ dl[d].id[1] = s => disk[PathOf[s]] = dl[d].row.sum
    /\ cln.pc = "files" =>
          \A id \in cln.ids \ cln.left : id[1] = s => disk[PathOf[s]] = None
    /\ made[s] > 0 /\ (\A n \in 1 .. MaxRegistrations : rows[<<s, n>>] = None)
          => disk[PathOf[s]] = None

FilesSound == \A s \in begun : Clean(s) => Sound(s)

\* What befell a source is never forgotten.
LEMMA HistoryGrows ==
    ASSUME [Next]_vars
    PROVE  /\ begun \subseteq begun' /\ overlapped \subseteq overlapped' /\ again \subseteq again'
           /\ repeated \subseteq repeated' /\ swept \subseteq swept'
<1> USE DEF history
<1>1. ASSUME NEW p \in Posts, PostOpen(p) \/ PostWrite(p) \/ PostRegister(p) \/ PostFails(p)
      PROVE  begun \subseteq begun' /\ UNCHANGED <<overlapped, again, repeated, swept>>
  BY <1>1 DEF PostOpen, PostWrite, PostRegister, PostFails
<1>2. ASSUME NEW u \in Uploads, Create(u) \/ Lapse(u) \/ Ask(u)
      PROVE  begun \subseteq begun' /\ UNCHANGED <<overlapped, again, repeated, swept>>
  BY <1>2 DEF Create, Lapse, Ask
<1>3. ASSUME NEW r \in Requests, Request(r)
      PROVE  /\ overlapped \subseteq overlapped' /\ again \subseteq again'
             /\ repeated \subseteq repeated' /\ UNCHANGED <<begun, swept>>
  BY <1>3 DEF Request, Receive, AppendChunk, Reopen, SaveSession, MoveTemp, HashFile,
              RegisterFile, ForgetSession, RequestFails
<1>4. ASSUME NEW d \in Downloads, Download(d) PROVE UNCHANGED history
  BY <1>4 DEF Download, DownloadResolve, DownloadLoad, DownloadSave
<1>5. CASE Cleanup
  BY <1>5 DEF Cleanup, CleanupList, CleanupCommit, CleanupFails, CleanupFile, Sweep
<1>6. CASE Crash \/ (\E s \in Sources : Expire(s)) \/ UNCHANGED vars
  BY <1>6 DEF Crash, Expire, vars
<1> QED BY <1>1, <1>2, <1>3, <1>4, <1>5, <1>6 DEF Next

\* What is clean after a step was so before it.
LEMMA CleanWas ==
    ASSUME [Next]_vars, NEW s \in begun, Clean(s)'
    PROVE  Clean(s)
  BY HistoryGrows DEF Clean, Alone

\* Another source that was begun is stored elsewhere.
LEMMA Elsewhere ==
    ASSUME TypeInv, NEW s \in Sources, Clean(s)', NEW t \in begun', t # s
    PROVE  PathOf[t] # PathOf[s]
  BY DEF Clean, Alone

\* Before the registration nothing rests on the file of a clean source.
LEMMA NothingYet ==
    ASSUME TypeInv, ReachInv, NEW s \in Sources, made[s] = 0
    PROVE  /\ \A id \in Ids : id[1] = s => rows[id] = None
           /\ \A d \in Downloads : dl[d].pc = "save" => dl[d].id[1] # s
           /\ cln.pc = "files" => \A id \in cln.ids \cup cln.left : id[1] # s
  BY DEF TypeInv, RowsOK, ReachInv, RowsAreMade

\* What a step does not touch stays sound.
LEMMA Untouched ==
    ASSUME NEW s \in Sources, Sound(s),
           disk'[PathOf[s]] = disk[PathOf[s]], made'[s] = made[s],
           s \in due => s \in due',
           s \in Posts /\ post'[s] = "register" => post[s] = "register",
           \A id \in Ids : id[1] = s => rows'[id] = rows[id],
           \A r \in Requests :
              Active(r, s)' /\ req'[r].pc \in {"hash", "register"} => req'[r] = req[r],
           \A d \in Downloads : dl'[d].pc = "save" => dl'[d] = dl[d],
           cln'.pc = "files" => cln' = cln
    PROVE  Sound(s)'
<1>1. \A n \in 1 .. MaxRegistrations : rows'[<<s, n>>] = rows[<<s, n>>]
  BY DEF Ids
<1>2. s \in Posts /\ post'[s] = "register" => disk'[PathOf[s]] = Whole(s)
  BY DEF Sound
<1>3. \A r \in Requests : Active(r, s)' =>
          /\ req'[r].pc \in {"hash", "register"} => made'[s] = 0
          /\ req'[r].pc = "register" => disk'[PathOf[s]] = req'[r].sum
  BY DEF Sound, Active
<1>4. s \notin due' =>
          /\ \A id \in Ids : id[1] = s /\ rows'[id] # None => disk'[PathOf[s]] = rows'[id].sum
          /\ \A d \in Downloads :
                dl'[d].pc = "save" /\ dl'[d].id[1] = s => disk'[PathOf[s]] = dl'[d].row.sum
  BY DEF Sound
<1>5. cln'.pc = "files" =>
          \A id \in cln'.ids \ cln'.left : id[1] = s => disk'[PathOf[s]] = None
  BY DEF Sound
<1>6. made'[s] > 0 /\ (\A n \in 1 .. MaxRegistrations : rows'[<<s, n>>] = None)
          => disk'[PathOf[s]] = None
  BY <1>1 DEF Sound
<1> QED BY <1>2, <1>3, <1>4, <1>5, <1>6 DEF Sound, Whole

\* With nothing made of s, and no request about to register it, only a post
\* about to be registered says anything of the file.
LEMMA NothingMade ==
    ASSUME NEW s \in Sources, TypeInv', made'[s] = 0,
           s \in Posts /\ post'[s] = "register" => disk'[PathOf[s]] = Whole(s),
           \A r \in Requests : Active(r, s)' /\ req'[r].pc = "register"
              => disk'[PathOf[s]] = req'[r].sum,
           ReachInv'
    PROVE  Sound(s)'
<1>1. /\ \A id \in Ids : id[1] = s => rows'[id] = None
      /\ \A d \in Downloads : dl'[d].pc = "save" => dl'[d].id[1] # s
      /\ cln'.pc = "files" => \A id \in cln'.ids \cup cln'.left : id[1] # s
  BY DEF TypeInv, RowsOK, ReachInv, RowsAreMade
<1> QED BY <1>1 DEF Sound, Whole

\* A post writes only to its own file.
LEMMA PostKeepsSound ==
    ASSUME TypeInv, ReachInv, FilesSound, TypeInv', ReachInv', [Next]_vars,
           NEW s \in begun', Clean(s)', NEW p \in Posts,
           PostOpen(p) \/ PostWrite(p) \/ PostRegister(p) \/ PostFails(p)
    PROVE  Sound(s)'
<1> USE DEF files, history
<1>1. s \in Sources /\ p \in Sources /\ p \in begun'
  BY DEF TypeInv, RowsOK, ReachInv, BeginningsFirst, HandlersOK, PostOpen, PostWrite,
         PostRegister, PostFails, Sources
<1>2. post[p] # "done" => made[p] = 0
  BY <1>1 DEF ReachInv, RowsAreMade, TypeInv, RowsOK
<1>3. \A r \in Requests : ~Active(r, p)' 
  BY TransfersAssumption DEF TypeInv, HandlersOK, RequestOK, Active
<1>4. s # p => s \in begun /\ Sound(s)
  BY CleanWas DEF FilesSound, PostOpen, PostWrite, PostRegister, PostFails
<1>5. s # p => PathOf[p] # PathOf[s]
  BY <1>1, Elsewhere
<1>6. CASE PostOpen(p)
  <2>1. CASE s = p
    BY <1>1, <1>2, <1>3, <1>6, <2>1, NothingMade DEF PostOpen, TypeInv, HandlersOK
  <2>2. CASE s # p
    BY <1>1, <1>4, <1>5, <1>6, <2>2, Untouched, TransfersAssumption
       DEF PostOpen, TypeInv, FilesOK, HandlersOK
  <2> QED BY <2>1, <2>2
<1>7. CASE PostWrite(p)
  <2>1. CASE s = p
    <3>1. disk'[PathOf[p]] = Whole(p)
      BY <1>1, <1>7, TransfersAssumption DEF PostWrite, TypeInv, FilesOK
    <3> QED BY <1>1, <1>2, <1>3, <1>7, <2>1, <3>1, NothingMade DEF PostWrite
  <2>2. CASE s # p
    BY <1>1, <1>4, <1>5, <1>7, <2>2, Untouched, TransfersAssumption
       DEF PostWrite, TypeInv, FilesOK, HandlersOK
  <2> QED BY <2>1, <2>2
<1>8. CASE PostRegister(p)
  <2> DEFINE row == [sum |-> Whole(p), size |-> 1]
  <2>1. /\ \A t \in Sources \ {p} : made'[t] = made[t]
        /\ \A id \in Ids : rows'[id] \in {rows[id], row}
        /\ \A id \in Ids : id[1] # p => rows'[id] = rows[id]
        /\ made[p] = 0 => rows'[<<p, 1>>] = row
    BY <1>1, <1>8, RegistrationIs DEF PostRegister, TypeInv
  <2>2. CASE s = p
    <3>1. made[p] = 0 /\ disk'[PathOf[p]] = Whole(p) /\ row # None
      <4>1. made[p] = 0 /\ p \in begun /\ Clean(p)
        BY <1>2, <1>8, <2>2, CleanWas DEF PostRegister
      <4>2. disk'[PathOf[p]] = Whole(p)
        BY <1>8, <4>1 DEF PostRegister, FilesSound, Sound
      <4>3. Whole(p) \in Contents
        BY TransfersAssumption DEF Contents, Whole, Sources
      <4>4. row \in RowRecords
        BY <4>3, TransfersAssumption DEF RowRecords
      <4>5. row # None
        BY <4>4, NoneIsNothing
      <4> QED BY <4>1, <4>2, <4>5
    <3>2. /\ \A id \in Ids : id[1] = p => rows[id] = None
          /\ \A d \in Downloads : dl[d].pc = "save" => dl[d].id[1] # p
          /\ cln.pc = "files" => \A id \in cln.ids \cup cln.left : id[1] # p
      BY <1>1, <3>1, NothingYet
    <3>3. \A id \in Ids : id[1] = p /\ rows'[id] # None => rows'[id].sum = Whole(p)
      BY <2>1, <3>2
    <3>4. rows'[<<p, 1>>] # None /\ 1 \in 1 .. MaxRegistrations
      BY <2>1, <3>1, TransfersAssumption
    <3>5. UNCHANGED <<dl, cln>> /\ post'[p] = "done"
      BY <1>1, <1>8 DEF PostRegister, TypeInv, HandlersOK
    <3> HIDE DEF row
    <3> QED BY <1>3, <2>2, <3>1, <3>2, <3>3, <3>4, <3>5 DEF Sound
  <2>3. CASE s # p
    BY <1>1, <1>4, <1>8, <2>1, <2>3, Untouched DEF PostRegister, TypeInv, HandlersOK
  <2> QED BY <2>2, <2>3
<1>9. CASE PostFails(p)
  <2>1. s \in begun /\ Sound(s)
    BY <1>9, CleanWas DEF PostFails, FilesSound
  <2> QED BY <1>1, <1>9, <2>1, Untouched DEF PostFails, TypeInv, HandlersOK
<1> QED BY <1>6, <1>7, <1>8, <1>9

\* A chunk request touches only its own upload's file, before it is recorded.
LEMMA RequestKeepsSound ==
    ASSUME TypeInv, ReachInv, FilesSound, TypeInv', ReachInv', [Next]_vars,
           NEW s \in begun', Clean(s)', NEW r \in Requests, Request(r)
    PROVE  Sound(s)'
<1> USE DEF files, history, To, Idle
<1>1. /\ s \in Sources /\ s \in begun /\ Clean(s) /\ Sound(s)
  <2>1. begun' = begun
    BY DEF Request, Receive, AppendChunk, Reopen, SaveSession, MoveTemp, HashFile,
           RegisterFile, ForgetSession, RequestFails
  <2> QED BY <2>1, CleanWas DEF TypeInv, RowsOK, FilesSound
<1> DEFINE u == req[r].of
<1>2. req[r].pc # "idle" => u \in Uploads /\ u \in Sources /\ u \in begun'
  <2>1. req[r].pc # "idle" => u \in Uploads /\ u \in Sources /\ u \in begun
    BY AtWork DEF ReachInv
  <2> QED BY <2>1, HistoryGrows
<1>3. req[r].pc # "idle" /\ u # s => PathOf[u] # PathOf[s]
  BY <1>1, <1>2, Elsewhere
\* A clean upload has one request at a time.
<1>4. req[r].pc # "idle" /\ u = s => \A q \in Requests \ {r} : ~Active(q, s)
  BY <1>1, <1>2 DEF ReachInv, OneAtATime, Clean, Active
\* Steps that leave the request at none of the last ones.
<1>5. ASSUME UNCHANGED <<disk, rows, due, post, dl, cln, made>>,
             \A q \in Requests \ {r} : req'[q] = req[q],
             req'[r].pc \notin {"hash", "register"}
      PROVE  Sound(s)'
  BY <1>1, <1>5, Untouched DEF Active
<1>6. req \in [Requests -> RequestRecords]
  BY DEF TypeInv, HandlersOK
<1>7. ASSUME NEW v \in Uploads, Receive(r, v) PROVE Sound(s)'
  BY <1>5, <1>6, <1>7 DEF Receive
<1>8. CASE AppendChunk(r) \/ Reopen(r)
  <2>1. PICK pc \in {"reopen", "move", "save"} : To(r, pc)
    BY ONLY <1>8 DEF AppendChunk, Reopen
  <2>2. UNCHANGED <<disk, rows, due, post, dl, cln, made>>
    BY ONLY <1>8 DEF AppendChunk, Reopen, history
  <2>3. req'[r].pc = pc /\ \A q \in Requests \ {r} : req'[q] = req[q]
    <3> HIDE DEF To
    <3> QED BY ONLY <1>6, <2>1, StepOfRequest
  <2> QED BY ONLY <1>5, <2>1, <2>2, <2>3
<1>9. CASE SaveSession(r) \/ ForgetSession(r) \/ RequestFails(r)
  BY <1>5, <1>6, <1>9 DEF SaveSession, ForgetSession, RequestFails, NoRequest
<1>10. CASE MoveTemp(r)
  <2>1. UNCHANGED <<rows, due, post, dl, cln, made>> /\ \A q \in Requests \ {r} : req'[q] = req[q]
    BY <1>6, <1>10 DEF MoveTemp
  <2>2. CASE temp[PathOf[u]] = None
    <3>1. disk' = disk /\ req'[r].pc = "idle"
      BY <1>6, <1>10, <2>2 DEF MoveTemp, NoRequest
    <3> QED BY <1>5, <2>1, <3>1
  <2>3. CASE temp[PathOf[u]] # None
    <3>1. req'[r].pc = "hash" /\ req'[r].of = u /\ req[r].pc = "move"
      BY <1>6, <1>10, <2>3 DEF MoveTemp, RequestRecords
    <3>2. CASE u = s
      <4>1. made[s] > 0 => s \in again'
        BY <1>10, <2>3, <3>2 DEF MoveTemp
      <4>2. made'[s] = 0
        BY <1>1, <2>1, <4>1 DEF Clean, TypeInv, RowsOK
      <4>3. s \notin Posts
        BY <1>2, <3>1, <3>2, TransfersAssumption
      <4>4. \A q \in Requests : ~(Active(q, s)' /\ req'[q].pc = "register")
        BY <1>4, <2>1, <3>1, <3>2 DEF Active
      <4> QED BY <1>1, <4>2, <4>3, <4>4, NothingMade
    <3>3. CASE u # s
      <4>1. disk'[PathOf[s]] = disk[PathOf[s]]
        BY <1>1, <1>2, <1>3, <1>10, <2>3, <3>1, <3>3, TransfersAssumption
           DEF MoveTemp, TypeInv, FilesOK
      <4>2. \A q \in Requests : Active(q, s)' => req'[q] = req[q]
        BY <2>1, <3>1, <3>3 DEF Active
      <4> QED BY <1>1, <2>1, <4>1, <4>2, Untouched
    <3> QED BY <3>2, <3>3
  <2> QED BY <2>2, <2>3
<1>11. CASE HashFile(r)
  <2>1. UNCHANGED <<disk, rows, due, post, dl, cln, made>> /\ \A q \in Requests \ {r} : req'[q] = req[q]
    <3>1. UNCHANGED <<disk, rows, due, post, dl, cln, made>>
      BY ONLY <1>11 DEF HashFile, files, history
    <3> QED BY <1>6, <1>11, <3>1, HashOfRequest
  <2>2. CASE disk[PathOf[u]] = None
    <3>1. req'[r].pc = "idle"
      BY <1>6, <1>11, <2>2, HashOfRequest
    <3> QED BY <1>5, <2>1, <3>1
  <2>3. CASE disk[PathOf[u]] # None
    <3>1. /\ req'[r].pc = "register" /\ req'[r].of = u /\ req[r].pc = "hash"
          /\ req'[r].sum = disk[PathOf[u]]
      BY <1>6, <1>11, <2>3, HashOfRequest
    <3>2. CASE u = s
      <4>1. made'[s] = 0
        BY <1>1, <2>1, <3>1, <3>2 DEF Sound, Active
      <4>2. s \notin Posts
        BY <1>2, <3>1, <3>2, TransfersAssumption
      <4>3. \A q \in Requests : Active(q, s)' /\ req'[q].pc = "register"
               => disk'[PathOf[s]] = req'[q].sum
        BY <1>4, <2>1, <3>1, <3>2 DEF Active
      <4> QED BY <1>1, <4>1, <4>2, <4>3, NothingMade
    <3>3. CASE u # s
      <4>1. \A q \in Requests : Active(q, s)' => req'[q] = req[q]
        BY <2>1, <3>1, <3>3 DEF Active
      <4> QED BY <1>1, <2>1, <4>1, Untouched
    <3> QED BY <3>2, <3>3
  <2> QED BY <2>2, <2>3
<1>12. CASE RegisterFile(r)
  <2> DEFINE row == [sum |-> req[r].sum, size |-> req[r].received + 1]
  <2>1. /\ made'[u] = made[u] + 1
        /\ \A t \in Sources \ {u} : made'[t] = made[t]
        /\ \A id \in Ids : rows'[id] \in {rows[id], row}
        /\ \A id \in Ids : id[1] # u => rows'[id] = rows[id]
        /\ made[u] = 0 => rows'[<<u, 1>>] = row
    BY <1>2, <1>12, RegistrationIs DEF RegisterFile, TypeInv
  <2>2. /\ UNCHANGED <<disk, due, post, dl, cln>> /\ \A q \in Requests \ {r} : req'[q] = req[q]
        /\ req'[r].pc = "forget" /\ req'[r].of = u /\ req[r].pc = "register"
    BY <1>6, <1>12 DEF RegisterFile, RequestRecords
  <2>3. row # None
    <3>1. row \in RowRecords
      BY <2>2, <1>6 DEF TypeInv, HandlersOK, RequestOK, RequestRecords, RowRecords
    <3> QED BY <3>1, NoneIsNothing
  <2>4. CASE u = s
    <3>1. made[s] = 0 /\ disk[PathOf[s]] = row.sum
      BY <1>1, <2>2, <2>4 DEF Sound, Active
    <3>2. /\ \A id \in Ids : id[1] = s => rows[id] = None
          /\ \A d \in Downloads : dl[d].pc = "save" => dl[d].id[1] # s
          /\ cln.pc = "files" => \A id \in cln.ids \cup cln.left : id[1] # s
      BY <1>1, <3>1, NothingYet
    <3>3. \A id \in Ids : id[1] = s /\ rows'[id] # None => rows'[id].sum = row.sum
      BY <2>1, <3>2
    <3>4. rows'[<<s, 1>>] # None /\ 1 \in 1 .. MaxRegistrations
      BY <2>1, <2>3, <2>4, <3>1, TransfersAssumption
    <3>5. \A q \in Requests : ~(Active(q, s)' /\ req'[q].pc \in {"hash", "register"})
      BY <1>4, <2>2, <2>4 DEF Active
    <3>6. s \notin Posts
      BY <1>2, <2>2, <2>4, TransfersAssumption
    <3> HIDE DEF row
    <3> QED BY <2>2, <3>1, <3>2, <3>3, <3>4, <3>5, <3>6 DEF Sound
  <2>5. CASE u # s
    <3>1. \A q \in Requests : Active(q, s)' => req'[q] = req[q]
      BY <2>2, <2>5 DEF Active
    <3>2. made'[s] = made[s] /\ \A id \in Ids : id[1] = s => rows'[id] = rows[id]
      BY <1>1, <2>1, <2>5
    <3> QED BY <1>1, <2>2, <3>1, <3>2, Untouched
  <2> QED BY <2>4, <2>5
<1> QED BY <1>7, <1>8, <1>9, <1>10, <1>11, <1>12 DEF Request

\* A download saves what was true when it was read, which only expiry ends.
LEMMA DownloadKeepsSound ==
    ASSUME TypeInv, ReachInv, FilesSound, TypeInv', ReachInv', [Next]_vars,
           NEW s \in begun', Clean(s)', NEW d \in Downloads, Download(d)
    PROVE  Sound(s)'
<1> USE DEF files, history
<1>1. /\ s \in Sources /\ Sound(s)
      /\ UNCHANGED <<disk, due, post, req, cln, made>>
      /\ \A e \in Downloads \ {d} : dl'[e] = dl[e]
  <2>1. /\ UNCHANGED <<disk, due, post, req, cln, made, begun>>
        /\ \A e \in Downloads \ {d} : dl'[e] = dl[e]
    BY DEF Download, DownloadResolve, DownloadLoad, DownloadSave, TypeInv, HandlersOK
  <2> QED BY <2>1, CleanWas DEF TypeInv, RowsOK, FilesSound
<1>2. dl \in [Downloads -> DownloadRecords]
  BY DEF TypeInv, HandlersOK
<1>3. ASSUME NEW id \in Ids, DownloadResolve(d, id) PROVE Sound(s)'
  BY <1>1, <1>2, <1>3, Untouched DEF DownloadResolve
<1>4. CASE DownloadLoad(d)
  <2> DEFINE row == rows[dl[d].id]
  <2>1. CASE row = None
    BY <1>1, <1>2, <1>4, <2>1, Untouched DEF DownloadLoad, NoDownload
  <2>2. CASE row # None
    <3>1. rows' = rows /\ dl'[d].row = row /\ dl'[d].id = dl[d].id /\ dl[d].id \in Ids
      BY <1>2, <1>4, <2>2 DEF DownloadLoad, DownloadRecords, TypeInv, HandlersOK, DownloadOK
    <3>2. s \notin due' => \A e \in Downloads :
             dl'[e].pc = "save" /\ dl'[e].id[1] = s => disk'[PathOf[s]] = dl'[e].row.sum
      BY <1>1, <2>2, <3>1 DEF Sound
    <3> HIDE DEF row
    <3> QED BY <1>1, <3>1, <3>2 DEF Sound, Active, Whole
  <2> QED BY <2>1, <2>2
<1>5. CASE DownloadSave(d)
  <2> DEFINE i == dl[d].id
             row == dl[d].row
  <2>1. i \in Ids /\ row # None /\ dl[d].pc = "save"
    BY <1>5, NoneIsNothing DEF DownloadSave, TypeInv, HandlersOK, DownloadOK
  <2>2. rows'[i] = row /\ \A id \in Ids \ {i} : rows'[id] = rows[id]
    BY <1>5, <2>1 DEF DownloadSave, TypeInv, RowsOK
  <2>3. dl'[d].pc = "done"
    BY <1>2, <1>5 DEF DownloadSave, NoDownload
  <2>4. s \notin due' =>
          /\ \A id \in Ids : id[1] = s /\ rows'[id] # None => disk'[PathOf[s]] = rows'[id].sum
          /\ \A e \in Downloads :
                dl'[e].pc = "save" /\ dl'[e].id[1] = s => disk'[PathOf[s]] = dl'[e].row.sum
    BY <1>1, <2>1, <2>2, <2>3 DEF Sound
  <2>5. made'[s] > 0 /\ (\A n \in 1 .. MaxRegistrations : rows'[<<s, n>>] = None)
           => disk'[PathOf[s]] = None
    <3>1. CASE i[1] = s
      <4>1. i[2] \in 1 .. MaxRegistrations /\ i = <<s, i[2]>>
        BY <2>1, <3>1 DEF Ids
      <4> QED BY <2>1, <2>2, <4>1
    <3>2. CASE i[1] # s
      <4>1. \A n \in 1 .. MaxRegistrations : rows'[<<s, n>>] = rows[<<s, n>>]
        BY <1>1, <2>2, <3>2 DEF Ids
      <4> QED BY <1>1, <4>1 DEF Sound
    <3> QED BY <3>1, <3>2
  <2> HIDE DEF i, row
  <2> QED BY <1>1, <2>4, <2>5 DEF Sound, Active, Whole
<1> QED BY <1>3, <1>4, <1>5 DEF Download

\* The cleanup deletes the file before the row, and only of what has expired.
LEMMA CleanupKeepsSound ==
    ASSUME TypeInv, ReachInv, FilesSound, TypeInv', ReachInv', [Next]_vars,
           NEW s \in begun', Clean(s)', Cleanup
    PROVE  Sound(s)'
<1> USE DEF files, history
<1>1. /\ s \in Sources /\ s \in begun /\ Clean(s) /\ Sound(s)
      /\ UNCHANGED <<due, post, req, dl, made, begun>>
  <2>1. UNCHANGED <<due, post, req, dl, made, begun>>
    BY DEF Cleanup, CleanupList, CleanupCommit, CleanupFails, CleanupFile, Sweep
  <2> QED BY <2>1, CleanWas DEF TypeInv, RowsOK, FilesSound
<1>2. CASE CleanupList
  <2>1. disk' = disk /\ rows' = rows /\ cln'.ids \ cln'.left = {}
    BY <1>2 DEF CleanupList
  <2> QED BY <1>1, <2>1 DEF Sound, Active, Whole
<1>3. CASE CleanupCommit
  <2>1. /\ disk' = disk /\ cln'.pc = "idle" /\ cln.left = {} /\ cln.pc = "files"
        /\ rows' = [id \in Ids |-> IF id \in cln.ids THEN None ELSE rows[id]]
    BY <1>3 DEF CleanupCommit, NoCleanup
  <2>2. \A id \in Ids : rows'[id] # None => rows'[id] = rows[id]
    BY <2>1
  <2>3. made'[s] > 0 /\ (\A n \in 1 .. MaxRegistrations : rows'[<<s, n>>] = None)
           => disk'[PathOf[s]] = None
    <3>1. CASE \E id \in cln.ids : id[1] = s
      BY <1>1, <2>1, <3>1 DEF Sound
    <3>2. CASE ~ \E id \in cln.ids : id[1] = s
      <4>1. \A n \in 1 .. MaxRegistrations : rows'[<<s, n>>] = rows[<<s, n>>]
        BY <1>1, <2>1, <3>2 DEF Ids
      <4> QED BY <1>1, <2>1, <4>1 DEF Sound
    <3> QED BY <3>1, <3>2
  <2>4. s \notin due' => \A id \in Ids :
           id[1] = s /\ rows'[id] # None => disk'[PathOf[s]] = rows'[id].sum
    BY <1>1, <2>1, <2>2 DEF Sound
  <2> QED BY <1>1, <2>1, <2>3, <2>4 DEF Sound, Active, Whole
<1>4. CASE CleanupFails
  BY <1>1, <1>4, Untouched DEF CleanupFails, NoCleanup
<1>5. ASSUME NEW id \in Ids, CleanupFile(id) PROVE Sound(s)'
  <2>1. /\ rows' = rows /\ cln.pc = "files" /\ cln' = [cln EXCEPT !.left = @ \ {id}]
        /\ disk' = [disk EXCEPT ![PathOf[id[1]]] = None] /\ id \in cln.left
    BY <1>5 DEF CleanupFile
  <2>2. id[1] \in Sources /\ id[1] \in begun' /\ made[id[1]] > 0 /\ id[1] \in due
    BY <1>1, <2>1 DEF Ids, ReachInv, RowsAreMade, BeginningsFirst
  <2>3. cln'.ids = cln.ids /\ cln'.left = cln.left \ {id}
    BY <2>1 DEF TypeInv, HandlersOK
  <2>4. CASE id[1] = s
    <3>1. disk'[PathOf[s]] = None
      BY <1>1, <2>1, <2>4, TransfersAssumption DEF TypeInv, FilesOK
    <3>2. s \in Posts => post'[s] # "register"
      BY <1>1, <2>2, <2>4 DEF ReachInv, RowsAreMade
    <3>3. \A r \in Requests : Active(r, s)' => req'[r].pc \notin {"hash", "register"}
      BY <1>1, <2>2, <2>4 DEF Sound, Active, TypeInv, RowsOK
    <3> QED BY <1>1, <2>2, <2>4, <3>1, <3>2, <3>3 DEF Sound
  <2>5. CASE id[1] # s
    <3>1. disk'[PathOf[s]] = disk[PathOf[s]]
      BY <1>1, <2>1, <2>2, <2>5, Elsewhere, TransfersAssumption DEF TypeInv, FilesOK
    <3>2. \A i \in cln'.ids \ cln'.left : i[1] = s => i \in cln.ids \ cln.left
      BY <2>3, <2>5
    <3>3. cln'.pc = "files" =>
             \A i \in cln'.ids \ cln'.left : i[1] = s => disk'[PathOf[s]] = None
      BY <1>1, <2>1, <3>1, <3>2 DEF Sound
    <3> QED BY <1>1, <2>1, <3>1, <3>3 DEF Sound, Active, Whole
  <2> QED BY <2>4, <2>5
<1>6. ASSUME NEW p \in Paths, Sweep(p) PROVE Sound(s)'
  BY <1>1, <1>6, Untouched DEF Sweep
<1> QED BY <1>2, <1>3, <1>4, <1>5, <1>6 DEF Cleanup

\* A step keeps the files of clean sources as they are recorded.
LEMMA StepKeepsSound ==
    ASSUME TypeInv, ReachInv, FilesSound, TypeInv', ReachInv', [Next]_vars
    PROVE  FilesSound'
<1> SUFFICES ASSUME NEW s \in begun', Clean(s)' PROVE Sound(s)'
  BY DEF FilesSound
<1> USE DEF files, history
<1>1. s \in Sources
  BY DEF TypeInv, RowsOK
<1>2. s \in begun => Sound(s)
  BY CleanWas DEF FilesSound
<1>3. ASSUME NEW p \in Posts, PostOpen(p) \/ PostWrite(p) \/ PostRegister(p) \/ PostFails(p)
      PROVE  Sound(s)'
  BY <1>3, PostKeepsSound
<1>4. ASSUME NEW u \in Uploads, Create(u) \/ Lapse(u) \/ Ask(u) PROVE Sound(s)'
  <2>1. UNCHANGED <<disk, rows, due, post, req, dl, cln, made>>
    BY <1>4 DEF Create, Lapse, Ask
  <2>2. CASE s \in begun
    BY <1>1, <1>2, <2>1, <2>2, Untouched
  <2>3. CASE s \notin begun
    <3>1. /\ made'[s] = 0 /\ \A r \in Requests : ~Active(r, s)'
          /\ s \in Posts => post'[s] # "register"
      BY <1>1, <2>1, <2>3 DEF ReachInv, BeginningsFirst, Active, TypeInv, RowsOK
    <3> QED BY <1>1, <3>1, NothingMade
  <2> QED BY <2>2, <2>3
<1>5. ASSUME NEW r \in Requests, Request(r) PROVE Sound(s)'
  BY <1>5, RequestKeepsSound
<1>6. ASSUME NEW d \in Downloads, Download(d) PROVE Sound(s)'
  BY <1>6, DownloadKeepsSound
<1>7. CASE Cleanup
  BY <1>7, CleanupKeepsSound
<1>8. ASSUME NEW t \in Sources, Expire(t) PROVE Sound(s)'
  BY <1>1, <1>2, <1>8, Untouched DEF Expire
<1>9. CASE Crash
  BY <1>1, <1>2, <1>9, Untouched DEF Crash, NoRequest, NoDownload, NoCleanup, Active
<1>10. CASE UNCHANGED vars
  BY <1>1, <1>2, <1>10, Untouched DEF vars
<1> QED BY <1>3, <1>4, <1>5, <1>6, <1>7, <1>8, <1>9, <1>10 DEF Next

\* All of this together is an invariant.
LEMMA SoundInvariant == Spec => [](TypeInv /\ ReachInv /\ FilesSound)
<1>1. Init => ReachInv /\ FilesSound
  <2> SUFFICES ASSUME Init PROVE ReachInv /\ FilesSound
    OBVIOUS
  <2>1. BeginningsFirst /\ OneAtATime
    BY DEF Init, BeginningsFirst, OneAtATime, Active, NoRequest, Sources
  <2>2. RowsAreMade
    BY DEF Init, RowsAreMade, NoDownload, NoCleanup, Sources
  <2>3. FilesSound
    BY DEF Init, FilesSound
  <2> QED BY <2>1, <2>2, <2>3 DEF ReachInv
<1>2. TypeInv /\ ReachInv /\ FilesSound /\ [Next]_vars => ReachInv' /\ FilesSound'
  BY TypesHold, StepKeepsBeginnings, StepKeepsRows, StepKeepsRequests, StepKeepsSound DEF ReachInv
<1> QED BY <1>1, <1>2, TypesHold, PTL DEF Spec

\* The row of a transfer tells the truth about its file, whatever fails,
\* crashes, expires or is saved from a stale copy, unless one of the three
\* exceptions befell it.
THEOREM RowsTellTheTruth == Spec => []StoredAsRecorded
<1>1. TypeInv /\ ReachInv /\ FilesSound => StoredAsRecorded
  <2> SUFFICES ASSUME TypeInv, ReachInv, FilesSound, NEW id \in Ids,
                      rows[id] # None, id[1] \notin due, Clean(id[1])
               PROVE  disk[PathOf[id[1]]] = rows[id].sum
    BY DEF StoredAsRecorded, Clean
  <2>1. id[1] \in begun
    BY DEF ReachInv, RowsAreMade, BeginningsFirst, Ids
  <2> QED BY <2>1 DEF FilesSound, Sound
<1> QED BY <1>1, SoundInvariant, PTL

\* A transfer whose rows have gone has left no file, with the same exceptions.
THEOREM RemovedTransfersLeaveNoFile == Spec => []RemovedWithItsFile
<1>1. FilesSound => RemovedWithItsFile
  BY DEF FilesSound, Sound, Clean, RemovedWithItsFile
<1> QED BY <1>1, SoundInvariant, PTL

-----------------------------------------------------------------------------
\* Whole files

Prefix(u, n) == [c \in 1 .. n |-> <<u, c>>]

Content(p) == IF temp[p] = None THEN <<>> ELSE temp[p]

RightRow(s) == [sum |-> Whole(s), size |-> Len(Whole(s))]

\* A request of u at work has sent the last chunk so far, after all the others.
InStep(u, r) ==
    /\ req[r].no = sent[u] /\ req[r].received + 1 = sent[u]
    /\ sess[u] \in {None, req[r].received}
    /\ made[u] > 0 => req[r].pc = "forget"
    /\ req[r].pc = "append" => Content(PathOf[u]) = Prefix(u, req[r].received)
    /\ req[r].pc \in {"reopen", "save", "move"} => temp[PathOf[u]] = Prefix(u, sent[u])
    /\ req[r].pc = "hash" => disk[PathOf[u]] = Whole(u)
    /\ req[r].pc = "register" => req[r].sum = Whole(u)

\* Client, session and temporary file agree on what has been sent.
InOrder(u) ==
    /\ u \notin again /\ (made[u] > 0 => sent[u] = Chunks)
    /\ known[u] <= sent[u]
    /\ sess[u] # None => known[u] <= sess[u] /\ sess[u] <= sent[u]
    /\ sess[u] # None /\ sess[u] = sent[u] => Content(PathOf[u]) = Prefix(u, sent[u])
    /\ \A r \in Requests : Active(r, u) => InStep(u, r)

RowsRight(s) ==
    /\ \A id \in Ids : id[1] = s /\ rows[id] # None => rows[id] = RightRow(s)
    /\ \A d \in Downloads : dl[d].pc = "save" /\ dl[d].id[1] = s => dl[d].row = RightRow(s)

Undisturbed(s) == Alone(s) /\ s \notin overlapped \cup repeated \cup swept

UploadsInOrder == \A u \in Uploads \cap begun : Undisturbed(u) => InOrder(u) /\ RowsRight(u)

PostsRight == \A p \in Posts : RowsRight(p)

WholeInv == UploadsInOrder /\ PostsRight

\* Facts about prefixes and whole files.
LEMMA PrefixIsContent ==
    ASSUME NEW u \in Uploads, NEW n \in 0 .. Chunks
    PROVE  Prefix(u, n) \in Contents /\ Len(Prefix(u, n)) = n
<1>1. n \in Nat
  BY TransfersAssumption
<1>2. \A c \in 1 .. n : <<u, c>> \in Sources \X (1 .. Chunks)
  BY TransfersAssumption DEF Sources
<1>3. Prefix(u, n) \in [1 .. n -> Sources \X (1 .. Chunks)]
  BY <1>2 DEF Prefix
<1> QED BY <1>1, <1>3 DEF Contents

\* The next chunk, appended, makes the next prefix.
LEMMA PrefixGrows ==
    ASSUME NEW u \in Uploads, NEW n \in 0 .. Chunks - 1
    PROVE  Append(Prefix(u, n), <<u, n + 1>>) = Prefix(u, n + 1)
<1>1. n \in Nat /\ n \in 0 .. Chunks /\ n + 1 \in 0 .. Chunks
  BY TransfersAssumption
<1>2. Prefix(u, n) \in Seq(Sources \X (1 .. Chunks)) /\ Len(Prefix(u, n)) = n
  BY <1>1, PrefixIsContent DEF Contents
<1>3. Append(Prefix(u, n), <<u, n + 1>>) =
        [c \in 1 .. n + 1 |-> IF c <= n THEN Prefix(u, n)[c] ELSE <<u, n + 1>>]
  BY <1>1, <1>2
<1>4. \A c \in 1 .. n + 1 : (IF c <= n THEN Prefix(u, n)[c] ELSE <<u, n + 1>>) = <<u, c>>
  BY <1>1 DEF Prefix
<1> QED BY <1>3, <1>4 DEF Prefix

\* Before the first chunk there is nothing.
LEMMA PrefixOfNone == \A u \in Uploads : Prefix(u, 0) = <<>>
<1> SUFFICES ASSUME NEW u \in Uploads PROVE Prefix(u, 0) = <<>>
  OBVIOUS
<1>1. Prefix(u, 0) \in Seq(Sources \X (1 .. Chunks)) /\ Len(Prefix(u, 0)) = 0
  BY PrefixIsContent, TransfersAssumption DEF Contents
<1> QED BY <1>1

\* All chunks are the whole file, and its row counts them.
LEMMA WholeUpload ==
    ASSUME NEW u \in Uploads
    PROVE  Whole(u) = Prefix(u, Chunks) /\ RightRow(u) = [sum |-> Prefix(u, Chunks), size |-> Chunks]
<1>1. Whole(u) = Prefix(u, Chunks)
  BY TransfersAssumption DEF Whole, Prefix
<1>2. Len(Prefix(u, Chunks)) = Chunks
  BY PrefixIsContent, TransfersAssumption
<1> QED BY <1>1, <1>2 DEF RightRow

\* A post counts as one chunk.
LEMMA WholePost == \A p \in Posts : RightRow(p) = [sum |-> Whole(p), size |-> 1]
  BY DEF RightRow, Whole

-----------------------------------------------------------------------------
\* Steps keep what is undisturbed whole.
LEMMA UndisturbedWas ==
    ASSUME [Next]_vars, NEW s \in begun, Undisturbed(s)'
    PROVE  Undisturbed(s) /\ Alone(s)'
  BY HistoryGrows DEF Undisturbed, Alone

\* Other sources that were begun are stored elsewhere.
LEMMA Apart ==
    ASSUME NEW s \in Sources, Alone(s)', NEW t \in begun', t # s
    PROVE  PathOf[t] # PathOf[s]
  BY DEF Alone

\* What a step does not touch stays in order.
LEMMA OrderUntouched ==
    ASSUME NEW u \in Uploads, InOrder(u),
           temp'[PathOf[u]] = temp[PathOf[u]], disk'[PathOf[u]] = disk[PathOf[u]],
           known'[u] = known[u], sess'[u] = sess[u], sent'[u] = sent[u], made'[u] = made[u],
           u \in again' => u \in again,
           \A r \in Requests : Active(r, u)' => req'[r] = req[r]
    PROVE  InOrder(u)'
<1>1. Content(PathOf[u])' = Content(PathOf[u])
  BY DEF Content
<1>2. \A r \in Requests : Active(r, u)' => InStep(u, r)'
  BY <1>1 DEF InOrder, InStep, Active, Whole
<1> QED BY <1>1, <1>2 DEF InOrder

\* Rows and copies come from rows that were right.
LEMMA RightUntouched ==
    ASSUME NEW s \in Sources, RowsRight(s),
           \A id \in Ids : id[1] = s => rows'[id] \in {None, rows[id]},
           \A d \in Downloads : dl'[d].pc = "save" => dl'[d] = dl[d]
    PROVE  RowsRight(s)'
  BY DEF RowsRight, RightRow, Whole

\* With nothing made there is nothing wrong.
LEMMA NothingWrong ==
    ASSUME TypeInv, ReachInv, NEW s \in Sources, made[s] = 0
    PROVE  RowsRight(s)
  BY NothingYet DEF RowsRight

\* The rows of a source are right after a step if a registration of this step is.
LEMMA StepKeepsRight ==
    ASSUME TypeInv, ReachInv, TypeInv', ReachInv', [Next]_vars, NEW s \in Sources, RowsRight(s),
           \A r \in Requests : Active(r, s) /\ RegisterFile(r)
              => [sum |-> req[r].sum, size |-> req[r].received + 1] = RightRow(s)
    PROVE  RowsRight(s)'
<1> USE DEF files, history
<1>1. ASSUME UNCHANGED <<rows, dl>> PROVE RowsRight(s)'
  BY <1>1, RightUntouched
<1>2. ASSUME NEW p \in Posts, PostOpen(p) \/ PostWrite(p) \/ PostRegister(p) \/ PostFails(p)
      PROVE  RowsRight(s)'
  <2>1. CASE PostOpen(p) \/ PostWrite(p) \/ PostFails(p)
    BY <1>1, <2>1 DEF PostOpen, PostWrite, PostFails
  <2>2. CASE PostRegister(p)
    <3>1. p \in Sources
      BY DEF Sources
    <3>2. /\ \A id \in Ids : rows'[id] \in {rows[id], [sum |-> Whole(p), size |-> 1]}
          /\ \A id \in Ids : id[1] # p => rows'[id] = rows[id]
      BY <2>2, <3>1, RegistrationIs DEF PostRegister, TypeInv
    <3>3. dl' = dl
      BY <2>2 DEF PostRegister
    <3>4. CASE s = p
      BY <3>2, <3>3, <3>4, WholePost DEF RowsRight, RightRow, Whole
    <3>5. CASE s # p
      BY <3>2, <3>3, <3>5, RightUntouched
    <3> QED BY <3>4, <3>5
  <2> QED BY <1>2, <2>1, <2>2
<1>3. ASSUME NEW u \in Uploads, Create(u) \/ Lapse(u) \/ Ask(u) PROVE RowsRight(s)'
  BY <1>1, <1>3 DEF Create, Lapse, Ask
<1>4. ASSUME NEW r \in Requests, Request(r) PROVE RowsRight(s)'
  <2>1. CASE ~RegisterFile(r)
    BY <1>1, <1>4, <2>1 DEF Request, Receive, AppendChunk, Reopen, SaveSession, MoveTemp,
       HashFile, ForgetSession, RequestFails
  <2>2. CASE RegisterFile(r)
    <3> DEFINE u == req[r].of
               row == [sum |-> req[r].sum, size |-> req[r].received + 1]
    <3>1. u \in Sources /\ req[r].pc # "idle"
      BY <2>2, AtWork DEF RegisterFile, ReachInv
    <3>2. /\ \A id \in Ids : rows'[id] \in {rows[id], row}
          /\ \A id \in Ids : id[1] # u => rows'[id] = rows[id]
      BY <2>2, <3>1, RegistrationIs DEF RegisterFile, TypeInv
    <3>3. dl' = dl
      BY <2>2 DEF RegisterFile
    <3>4. u = s => row = RightRow(s)
      BY <2>2, <3>1 DEF Active
    <3> HIDE DEF u, row
    <3>5. \A id \in Ids : id[1] = s /\ rows'[id] # None => rows'[id] = RightRow(s)
      BY <3>2, <3>4 DEF RowsRight
    <3> QED BY <3>3, <3>5 DEF RowsRight, RightRow, Whole
  <2> QED BY <2>1, <2>2
<1>5. ASSUME NEW d \in Downloads, Download(d) PROVE RowsRight(s)'
  <2>1. dl \in [Downloads -> DownloadRecords]
    BY DEF TypeInv, HandlersOK
  <2>2. ASSUME NEW id \in Ids, DownloadResolve(d, id) PROVE RowsRight(s)'
    BY <2>1, <2>2, RightUntouched DEF DownloadResolve
  <2>3. CASE DownloadLoad(d)
    <3> DEFINE row == rows[dl[d].id]
    <3>1. CASE row = None
      BY <2>1, <2>3, <3>1, RightUntouched DEF DownloadLoad, NoDownload
    <3>2. CASE row # None
      <4>1. /\ rows' = rows /\ dl'[d].row = row /\ dl'[d].id = dl[d].id /\ dl[d].id \in Ids
            /\ \A e \in Downloads \ {d} : dl'[e] = dl[e]
        BY <2>1, <2>3, <3>2 DEF DownloadLoad, DownloadRecords, TypeInv, HandlersOK, DownloadOK
      <4> HIDE DEF row
      <4>2. dl[d].id[1] = s => row = RightRow(s)
        BY <3>2, <4>1 DEF RowsRight, row
      <4> QED BY <4>1, <4>2 DEF RowsRight, RightRow, Whole
    <3> QED BY <3>1, <3>2
  <2>4. CASE DownloadSave(d)
    <3> DEFINE i == dl[d].id
               row == dl[d].row
    <3>1. i \in Ids /\ dl[d].pc = "save"
      BY <2>4 DEF DownloadSave, TypeInv, HandlersOK, DownloadOK
    <3>2. rows'[i] = row /\ \A id \in Ids \ {i} : rows'[id] = rows[id]
      BY <2>4, <3>1 DEF DownloadSave, TypeInv, RowsOK
    <3>3. dl'[d].pc = "done" /\ \A e \in Downloads \ {d} : dl'[e] = dl[e]
      BY <2>1, <2>4 DEF DownloadSave, NoDownload
    <3>4. i[1] = s => row = RightRow(s)
      BY <3>1 DEF RowsRight
    <3> HIDE DEF i, row
    <3> QED BY <3>1, <3>2, <3>3, <3>4 DEF RowsRight, RightRow, Whole
  <2> QED BY <1>5, <2>2, <2>3, <2>4 DEF Download
<1>6. CASE Cleanup
  <2>1. dl' = dl /\ \A id \in Ids : rows'[id] \in {None, rows[id]}
    BY <1>6 DEF Cleanup, CleanupList, CleanupCommit, CleanupFails, CleanupFile, Sweep
  <2> QED BY <2>1, RightUntouched
<1>7. ASSUME NEW t \in Sources, Expire(t) PROVE RowsRight(s)'
  BY <1>1, <1>7 DEF Expire
<1>8. CASE Crash
  BY <1>8, RightUntouched DEF Crash, NoDownload
<1>9. CASE UNCHANGED vars
  BY <1>1, <1>9 DEF vars
<1> QED BY <1>2, <1>3, <1>4, <1>5, <1>6, <1>7, <1>8, <1>9 DEF Next

\* A step of a request keeps an upload in order, be it its own or another's.
LEMMA RequestKeepsOrder ==
    ASSUME TypeInv, ReachInv, FilesSound, UploadsInOrder, [Next]_vars,
           NEW u \in Uploads, u \in begun, Undisturbed(u)', NEW r \in Requests, Request(r)
    PROVE  InOrder(u)'
<1> USE DEF files, history, To, Idle
<1>1. /\ u \in Sources /\ u \in begun' /\ Undisturbed(u) /\ Alone(u)' /\ InOrder(u)
  BY UndisturbedWas, HistoryGrows DEF UploadsInOrder, Sources
<1> DEFINE v == req[r].of
<1>2. req[r].pc # "idle" => v \in Uploads /\ v \in Sources /\ v \in begun'
  <2>1. req[r].pc # "idle" => v \in Uploads /\ v \in Sources /\ v \in begun
    BY AtWork DEF ReachInv
  <2> QED BY <2>1, HistoryGrows
<1>3. req[r].pc # "idle" /\ v # u => PathOf[v] # PathOf[u]
  BY <1>1, <1>2, Apart
<1>4. req[r].pc # "idle" /\ v = u => \A q \in Requests \ {r} : ~Active(q, u)
  BY <1>1, <1>2 DEF ReachInv, OneAtATime, Undisturbed, Active
<1>5. req[r].pc # "idle" /\ v = u => InStep(u, r)
  BY <1>1 DEF InOrder, Active
<1>6. /\ req \in [Requests -> RequestRecords] /\ RequestOK(req[r])
      /\ known[u] \in Nat /\ sent[u] \in 0 .. Chunks /\ (sess[u] # None => sess[u] \in Nat)
      /\ PathOf[u] \in Paths /\ Chunks \in Nat
  BY <1>1, TransfersAssumption DEF TypeInv, HandlersOK, CountsOK
<1>7. ASSUME NEW w \in Uploads, Receive(r, w) PROVE InOrder(u)'
  <2>1. /\ UNCHANGED <<disk, temp, sess, known, made, again>> /\ \A q \in Requests \ {r} : req'[q] = req[q]
        /\ req'[r] = [pc |-> "append", of |-> w, no |-> known[w] + 1,
                      received |-> sess[w], sum |-> None]
    BY <1>6, <1>7 DEF Receive
  <2>2. CASE w = u
    <3>1. known[u] + 1 > sent[u]
      BY <1>1, <1>6, <1>7, <2>2 DEF Receive, Undisturbed
    <3>2. sent'[u] = known[u] + 1
      BY <1>6, <1>7, <2>2, <3>1 DEF Receive, TypeInv, CountsOK
    <3>3. sess[u] # None /\ known[u] = sent[u] /\ sess[u] = sent[u]
      BY <1>1, <1>6, <1>7, <2>2, <3>1 DEF Receive, InOrder
    <3>4. \A q \in Requests : ~Active(q, u)
      BY <1>1, <1>7, <2>2 DEF Receive, Undisturbed, Active
    <3>5. Content(PathOf[u])' = Content(PathOf[u]) /\ Content(PathOf[u]) = Prefix(u, sent[u])
      BY <1>1, <2>1, <3>3 DEF Content, InOrder
    <3>6. ~(made[u] > 0)
      BY <1>1, <1>6, <1>7, <2>2, <3>3 DEF Receive, InOrder
    <3>7. InStep(u, r)'
      BY <1>6, <2>1, <2>2, <3>2, <3>3, <3>5, <3>6 DEF InStep
    <3>8. \A q \in Requests : Active(q, u)' => q = r
      BY <2>1, <3>4 DEF Active
    <3> QED BY <1>1, <1>6, <2>1, <3>2, <3>3, <3>6, <3>7, <3>8 DEF InOrder
  <2>3. CASE w # u
    <3>1. sent'[u] = sent[u]
      BY <1>6, <1>7, <2>3 DEF Receive, TypeInv, CountsOK
    <3> QED BY <1>1, <2>1, <2>3, <3>1, OrderUntouched DEF Active
  <2> QED BY <2>2, <2>3
\* A step of another upload's request touches only its own files and counts.
<1>8. ASSUME req[r].pc # "idle", v # u,
             \A p \in Paths \ {PathOf[v]} : temp'[p] = temp[p] /\ disk'[p] = disk[p],
             \A w \in Uploads \ {v} : known'[w] = known[w] /\ sess'[w] = sess[w],
             sent' = sent, made'[u] = made[u], u \in again' => u \in again,
             \A q \in Requests \ {r} : req'[q] = req[q],
             req'[r].pc = "idle" \/ req'[r].of = v
      PROVE  InOrder(u)'
  BY <1>1, <1>3, <1>6, <1>8, OrderUntouched DEF Active
<1>9. CASE AppendChunk(r)
  <2>1. /\ UNCHANGED <<disk, sess, known, sent, made, again>> /\ \A q \in Requests \ {r} : req'[q] = req[q]
        /\ req'[r] = [req[r] EXCEPT !.pc = "reopen"] /\ req[r].pc = "append"
    BY <1>6, <1>9 DEF AppendChunk
  <2>2. /\ req'[r].of = v /\ req'[r].pc = "reopen" /\ req'[r].no = req[r].no
        /\ req'[r].received = req[r].received
    BY <1>6, <2>1 DEF RequestRecords
  <2>3. temp' = [temp EXCEPT ![PathOf[v]] = Append(Content(PathOf[v]), <<v, req[r].no>>)]
    BY <1>2, <1>6, <1>9, TransfersAssumption DEF AppendChunk, Content, TypeInv, FilesOK
  <2>4. CASE v # u
    BY <1>8, <2>1, <2>2, <2>3, <2>4 DEF TypeInv, FilesOK
  <2>5. CASE v = u
    <3>1. /\ req[r].no = sent[u] /\ req[r].received + 1 = sent[u] /\ InStep(u, r)
          /\ Content(PathOf[u]) = Prefix(u, req[r].received)
      BY <1>5, <2>1, <2>5 DEF InStep
    <3>2. req[r].received \in 0 .. Chunks - 1
      BY <1>6 DEF RequestRecords
    <3>3. Append(Prefix(u, req[r].received), <<u, sent[u]>>) = Prefix(u, sent[u])
      BY <3>1, <3>2, PrefixGrows
    <3>4. temp'[PathOf[u]] = Prefix(u, sent[u])
      BY <1>6, <2>3, <2>5, <3>1, <3>3 DEF TypeInv, FilesOK
    <3>5. InStep(u, r)'
      BY <2>1, <2>2, <3>1, <3>4 DEF InStep
    <3>6. sess[u] # None => sess[u] # sent[u]
      BY <1>6, <3>1, <3>2 DEF InStep
    <3>7. \A q \in Requests : Active(q, u)' => q = r
      BY <1>4, <2>1, <2>5 DEF Active
    <3> QED BY <1>1, <2>1, <3>5, <3>6, <3>7 DEF InOrder
  <2> QED BY <2>4, <2>5
<1>10. CASE Reopen(r)
  <2>1. /\ UNCHANGED <<disk, sess, known, sent, made, again>> /\ \A q \in Requests \ {r} : req'[q] = req[q]
        /\ req[r].pc = "reopen"
        /\ \E pc \in {"move", "save"} : req'[r] = [req[r] EXCEPT !.pc = pc]
    BY <1>6, <1>10 DEF Reopen
  <2>2. /\ req'[r].of = v /\ req'[r].pc \in {"move", "save"} /\ req'[r].no = req[r].no
        /\ req'[r].received = req[r].received
    BY <1>6, <2>1 DEF RequestRecords
  <2>3. temp' = [temp EXCEPT ![PathOf[v]] = Content(PathOf[v])]
    BY <1>2, <1>6, <1>10, TransfersAssumption DEF Reopen, Content, TypeInv, FilesOK
  <2>4. CASE v # u
    BY <1>8, <2>1, <2>2, <2>3, <2>4 DEF TypeInv, FilesOK
  <2>5. CASE v = u
    <3>1. InStep(u, r) /\ temp[PathOf[u]] = Prefix(u, sent[u])
      BY <1>5, <2>1, <2>5 DEF InStep
    <3>2. Prefix(u, sent[u]) # None
      BY <1>6, PrefixIsContent, NoneIsNothing
    <3>3. temp'[PathOf[u]] = temp[PathOf[u]]
      BY <1>6, <2>3, <2>5, <3>1, <3>2 DEF Content, TypeInv, FilesOK
    <3>4. InStep(u, r)'
      BY <2>1, <2>2, <3>1, <3>3 DEF InStep
    <3>5. \A q \in Requests : Active(q, u)' => q = r
      BY <1>4, <2>1, <2>5 DEF Active
    <3>6. Content(PathOf[u])' = Content(PathOf[u])
      BY <3>3 DEF Content
    <3> QED BY <1>1, <2>1, <3>4, <3>5, <3>6 DEF InOrder
  <2> QED BY <2>4, <2>5
<1>11. CASE SaveSession(r)
  <2>1. /\ UNCHANGED <<disk, temp, sent, made, again>> /\ \A q \in Requests \ {r} : req'[q] = req[q]
        /\ req[r].pc = "save" /\ req'[r].pc = "idle"
    BY <1>6, <1>11 DEF SaveSession, NoRequest
  <2>2. \A w \in Uploads \ {v} : known'[w] = known[w] /\ sess'[w] = sess[w]
    BY <1>11 DEF SaveSession, TypeInv, CountsOK
  <2>3. CASE v # u
    BY <1>8, <2>1, <2>2, <2>3
  <2>4. CASE v = u
    <3>1. InStep(u, r) /\ temp[PathOf[u]] = Prefix(u, sent[u]) /\ req[r].received + 1 = sent[u]
      BY <1>5, <2>1, <2>4 DEF InStep
    <3>2. sess'[u] = sent[u] /\ known'[u] \in {known[u], sent[u]}
      BY <1>11, <2>4, <3>1 DEF SaveSession, TypeInv, CountsOK
    <3>3. Prefix(u, sent[u]) # None
      BY <1>6, PrefixIsContent, NoneIsNothing
    <3>4. Content(PathOf[u])' = Prefix(u, sent'[u])
      BY <2>1, <3>1, <3>3 DEF Content
    <3>5. \A q \in Requests : ~Active(q, u)'
      BY <1>4, <2>1, <2>4 DEF Active
    <3> QED BY <1>1, <1>6, <2>1, <3>2, <3>4, <3>5 DEF InOrder
  <2> QED BY <2>3, <2>4
<1>12. CASE MoveTemp(r)
  <2>1. /\ UNCHANGED <<sess, known, sent, made>> /\ \A q \in Requests \ {r} : req'[q] = req[q]
        /\ req[r].pc = "move"
    BY <1>6, <1>12 DEF MoveTemp
  <2>2. \A p \in Paths \ {PathOf[v]} : temp'[p] = temp[p] /\ disk'[p] = disk[p]
    BY <1>12 DEF MoveTemp, TypeInv, FilesOK
  <2>3. req'[r].pc = "idle" \/ (req'[r] = [req[r] EXCEPT !.pc = "hash"] /\ req'[r].of = v)
    BY <1>6, <1>12 DEF MoveTemp, NoRequest, RequestRecords
  <2>6. again' = again \/ (again' = again \cup {v} /\ made[v] > 0)
    BY <1>12 DEF MoveTemp
  <2>4. CASE v # u
    BY <1>8, <2>1, <2>2, <2>3, <2>4, <2>6
  <2>5. CASE v = u
    <3>1. /\ InStep(u, r) /\ temp[PathOf[u]] = Prefix(u, sent[u]) /\ ~(made[u] > 0)
          /\ req[r].no = sent[u] /\ req[r].received + 1 = sent[u]
      BY <1>5, <2>1, <2>5 DEF InStep
    <3>2. sent[u] = Chunks
      BY <1>6, <2>1, <3>1 DEF RequestOK
    <3>3. temp[PathOf[u]] = Whole(u) /\ temp[PathOf[u]] # None
      BY <1>6, <3>1, <3>2, WholeUpload, PrefixIsContent, NoneIsNothing
    <3>4. disk'[PathOf[u]] = Whole(u) /\ req'[r] = [req[r] EXCEPT !.pc = "hash"]
      BY <1>6, <1>12, <2>5, <3>3 DEF MoveTemp, TypeInv, FilesOK
    <3>5. /\ req'[r].pc = "hash" /\ req'[r].no = req[r].no
          /\ req'[r].received = req[r].received
      BY <1>6, <3>4 DEF RequestRecords
    <3>6. Whole(u)' = Whole(u)
      BY DEF Whole
    <3>7. InStep(u, r)'
      <4>1. /\ req'[r].no = sent'[u] /\ req'[r].received + 1 = sent'[u]
            /\ sess'[u] \in {None, req'[r].received} /\ ~(made'[u] > 0)
        BY <2>1, <3>1, <3>5 DEF InStep
      <4> QED BY ONLY <4>1, <3>4, <3>5, <3>6 DEF InStep
    <3>8. sess[u] # None => sess[u] # sent[u]
      <4>1. req[r].received \in Nat
        BY <1>6 DEF RequestRecords
      <4> QED BY <1>6, <3>1, <4>1 DEF InStep
    <3>9. \A q \in Requests : Active(q, u)' => q = r
      BY <1>4, <2>1, <2>5 DEF Active
    <3> QED BY <1>1, <2>1, <2>5, <2>6, <3>1, <3>7, <3>8, <3>9 DEF InOrder
  <2> QED BY <2>4, <2>5
<1>13. CASE HashFile(r)
  <2>1. /\ UNCHANGED <<disk, temp, sess, known, sent, made, again>>
        /\ \A q \in Requests \ {r} : req'[q] = req[q]
    <3>1. UNCHANGED <<disk, temp, sess, known, sent, made, again>>
      BY ONLY <1>13 DEF HashFile, files, history
    <3> QED BY <1>6, <1>13, <3>1, HashOfRequest
  <2>2. \/ req'[r].pc = "idle"
        \/ /\ req'[r].of = v /\ req'[r].pc = "register" /\ req'[r].no = req[r].no
           /\ req'[r].received = req[r].received /\ req'[r].sum = disk[PathOf[v]]
    BY <1>6, <1>13, HashOfRequest
  <2>3. req[r].pc = "hash"
    BY <1>13 DEF HashFile
  <2>4. CASE v # u
    BY <1>8, <2>1, <2>2, <2>3, <2>4
  <2>5. CASE v = u
    <3>1. InStep(u, r) /\ disk[PathOf[u]] = Whole(u)
      BY <1>5, <2>3, <2>5 DEF InStep
    <3>2. Whole(u)' = Whole(u)
      BY DEF Whole
    <3>3. req'[r].pc # "idle" => InStep(u, r)'
      <4> SUFFICES ASSUME req'[r].pc # "idle" PROVE InStep(u, r)'
        OBVIOUS
      <4>1. /\ req'[r].pc = "register" /\ req'[r].no = req[r].no
            /\ req'[r].received = req[r].received /\ req'[r].sum = Whole(u)
        BY <2>2, <2>5, <3>1
      <4>2. /\ req'[r].no = sent'[u] /\ req'[r].received + 1 = sent'[u]
            /\ sess'[u] \in {None, req'[r].received} /\ ~(made'[u] > 0)
        BY <2>1, <2>3, <3>1, <4>1 DEF InStep
      <4> QED BY ONLY <3>2, <4>1, <4>2 DEF InStep
    <3>4. \A q \in Requests : Active(q, u)' => q = r
      BY <1>4, <2>1, <2>3, <2>5 DEF Active
    <3>5. Content(PathOf[u])' = Content(PathOf[u])
      BY <2>1 DEF Content
    <3> QED BY <1>1, <2>1, <3>3, <3>4, <3>5 DEF InOrder, Active
  <2> QED BY <2>4, <2>5
<1>14. CASE RegisterFile(r)
  <2>1. /\ UNCHANGED <<disk, temp, sess, known, sent, again>> /\ req[r].pc = "register"
        /\ \A q \in Requests \ {r} : req'[q] = req[q]
    BY <1>6, <1>14 DEF RegisterFile
  <2>2. /\ req'[r].of = v /\ req'[r].pc = "forget" /\ req'[r].no = req[r].no
        /\ req'[r].received = req[r].received
    BY <1>6, <1>14 DEF RegisterFile, RequestRecords
  <2>5. \A t \in Sources \ {v} : made'[t] = made[t]
    BY <1>2, <1>14, RegistrationIs DEF RegisterFile, TypeInv
  <2>3. CASE v # u
    BY <1>1, <1>8, <2>1, <2>2, <2>3, <2>5
  <2>4. CASE v = u
    <3>4. sent[u] = Chunks
      BY <1>5, <1>6, <2>1, <2>4 DEF InStep, RequestOK
    <3>1. InStep(u, r)'
      BY <1>5, <2>1, <2>2, <2>4 DEF InStep
    <3>2. \A q \in Requests : Active(q, u)' => q = r
      BY <1>4, <2>1, <2>4 DEF Active
    <3>3. Content(PathOf[u])' = Content(PathOf[u])
      BY <2>1 DEF Content
    <3> QED BY <1>1, <2>1, <3>1, <3>2, <3>3, <3>4 DEF InOrder
  <2> QED BY <2>3, <2>4
<1>15. CASE ForgetSession(r) \/ RequestFails(r)
  <2>1. /\ UNCHANGED <<disk, temp, known, sent, made, again>> /\ req[r].pc # "idle" /\ req'[r].pc = "idle"
        /\ \A q \in Requests \ {r} : req'[q] = req[q]
    BY <1>6, <1>15 DEF ForgetSession, RequestFails, NoRequest
  <2>2. sess'[u] \in {None, sess[u]} /\ \A w \in Uploads \ {v} : sess'[w] = sess[w]
    BY <1>15 DEF ForgetSession, RequestFails, TypeInv, CountsOK
  <2>3. CASE v # u
    BY <1>8, <2>1, <2>2, <2>3
  <2>4. CASE v = u
    <3>1. \A q \in Requests : ~Active(q, u)'
      BY <1>4, <2>1, <2>4 DEF Active
    <3>2. Content(PathOf[u])' = Content(PathOf[u])
      BY <2>1 DEF Content
    <3> QED BY <1>1, <2>1, <2>2, <3>1, <3>2 DEF InOrder
  <2> QED BY <2>3, <2>4
<1> QED BY <1>7, <1>9, <1>10, <1>11, <1>12, <1>13, <1>14, <1>15 DEF Request

\* A new upload begins with nothing sent and no file.
LEMMA BeginsInOrder ==
    ASSUME TypeInv, ReachInv, TypeInv', [Next]_vars,
           NEW u \in Uploads, u \notin begun, u \in begun', Alone(u)'
    PROVE  InOrder(u)'
<1> USE DEF files, history
<1>1. Create(u)
  <2>1. ASSUME NEW p \in Posts, PostOpen(p) \/ PostWrite(p) \/ PostRegister(p) \/ PostFails(p)
        PROVE  FALSE
    BY <2>1, TransfersAssumption DEF PostOpen, PostWrite, PostRegister, PostFails
  <2>2. ASSUME NEW v \in Uploads, Create(v) \/ Lapse(v) \/ Ask(v) PROVE Create(u)
    BY <2>2 DEF Create, Lapse, Ask
  <2>3. ASSUME NEW r \in Requests, Request(r) PROVE FALSE
    BY <2>3 DEF Request, Receive, AppendChunk, Reopen, SaveSession, MoveTemp, HashFile,
       RegisterFile, ForgetSession, RequestFails
  <2>4. ASSUME NEW d \in Downloads, Download(d) PROVE FALSE
    BY <2>4 DEF Download, DownloadResolve, DownloadLoad, DownloadSave
  <2>5. CASE Cleanup
    BY <2>5 DEF Cleanup, CleanupList, CleanupCommit, CleanupFails, CleanupFile, Sweep
  <2>6. CASE Crash \/ (\E s \in Sources : Expire(s)) \/ UNCHANGED vars
    BY <2>6 DEF Crash, Expire, vars
  <2> QED BY <2>1, <2>2, <2>3, <2>4, <2>5, <2>6 DEF Next
<1>2. /\ UNCHANGED <<temp, known, sent, req, made, again>>
      /\ sess'[u] = 0 /\ ~(made[u] > 0) /\ known[u] = 0 /\ sent[u] = 0
      /\ u \notin again /\ \A r \in Requests : ~Active(r, u)
  BY <1>1 DEF Create, TypeInv, CountsOK, RowsOK, ReachInv, BeginningsFirst, Active, Sources
<1>3. temp[PathOf[u]] = None
  <2>1. u \in Sources /\ PathOf[u] \in Paths /\ begun \subseteq begun'
    BY HistoryGrows, TransfersAssumption DEF Sources
  <2>2. \A t \in begun : PathOf[t] # PathOf[u]
    BY <2>1, Apart
  <2> QED BY <2>1, <2>2 DEF ReachInv, BeginningsFirst
<1>4. Content(PathOf[u])' = <<>> /\ Prefix(u, 0) = <<>>
  BY <1>2, <1>3, PrefixOfNone DEF Content
<1> QED BY <1>2, <1>4 DEF InOrder, Active

\* Every step does.
LEMMA StepKeepsOrder ==
    ASSUME TypeInv, ReachInv, FilesSound, UploadsInOrder, TypeInv', ReachInv', [Next]_vars,
           NEW u \in Uploads, u \in begun, Undisturbed(u)'
    PROVE  InOrder(u)'
<1> USE DEF files, history
<1>1. /\ u \in Sources /\ PathOf[u] \in Paths /\ u \in begun'
      /\ Undisturbed(u) /\ Alone(u)' /\ InOrder(u)
  BY UndisturbedWas, HistoryGrows, TransfersAssumption DEF UploadsInOrder, Sources
<1>11. Sound(u)
  BY <1>1 DEF FilesSound, Clean, Undisturbed, InOrder
<1>2. ASSUME NEW p \in Posts, PostOpen(p) \/ PostWrite(p) \/ PostRegister(p) \/ PostFails(p)
      PROVE  InOrder(u)'
  <2>1. p # u /\ p \in Sources /\ p \in begun'
    BY <1>2, TransfersAssumption DEF ReachInv, BeginningsFirst, PostOpen, PostWrite,
       PostRegister, PostFails, Sources
  <2>2. PathOf[p] # PathOf[u]
    BY <1>1, <2>1, Apart
  <2>3. disk'[PathOf[u]] = disk[PathOf[u]] /\ UNCHANGED <<temp, known, sess, sent, req, again>>
    BY <1>1, <1>2, <2>1, <2>2, TransfersAssumption
       DEF PostOpen, PostWrite, PostRegister, PostFails, TypeInv, FilesOK
  <2>4. made'[u] = made[u]
    BY <1>1, <1>2, <2>1, RegistrationIs
       DEF PostOpen, PostWrite, PostRegister, PostFails, TypeInv
  <2> QED BY <1>1, <2>3, <2>4, OrderUntouched
<1>3. ASSUME NEW v \in Uploads, Create(v) \/ Lapse(v) PROVE InOrder(u)'
  <2>1. /\ UNCHANGED <<disk, temp, known, sent, req, made, again>> /\ sess'[u] \in {sess[u], None}
    BY <1>1, <1>3 DEF Create, Lapse, TypeInv, CountsOK
  <2>2. Content(PathOf[u])' = Content(PathOf[u])
    BY <2>1 DEF Content
  <2>3. \A r \in Requests : Active(r, u)' => InStep(u, r)'
    BY <1>1, <2>1, <2>2 DEF InOrder, InStep, Active, Whole
  <2> QED BY <1>1, <2>1, <2>2, <2>3 DEF InOrder
<1>4. ASSUME NEW v \in Uploads, Ask(v) PROVE InOrder(u)'
  <2>1. /\ UNCHANGED <<disk, temp, sess, sent, req, made, again>>
        /\ known'[u] = known[u] \/ (sess[u] # None /\ known'[u] = sess[u])
    BY <1>4 DEF Ask, TypeInv, CountsOK
  <2>2. Content(PathOf[u])' = Content(PathOf[u])
    BY <2>1 DEF Content
  <2>3. \A r \in Requests : Active(r, u)' => InStep(u, r)'
    BY <1>1, <2>1, <2>2 DEF InOrder, InStep, Active, Whole
  <2>4. sess[u] # None => sess[u] \in Nat
    BY TransfersAssumption DEF TypeInv, CountsOK
  <2> QED BY <1>1, <2>1, <2>2, <2>3, <2>4 DEF InOrder
<1>5. ASSUME NEW r \in Requests, Request(r) PROVE InOrder(u)'
  BY <1>5, RequestKeepsOrder
<1>6. ASSUME NEW d \in Downloads, Download(d) PROVE InOrder(u)'
  <2>1. UNCHANGED <<disk, temp, known, sess, sent, req, made, again>>
    BY <1>6 DEF Download, DownloadResolve, DownloadLoad, DownloadSave
  <2> QED BY <1>1, <2>1, OrderUntouched
<1>7. CASE Cleanup
  <2>1. UNCHANGED <<known, sess, sent, req, made, again>>
    BY <1>7 DEF Cleanup, CleanupList, CleanupCommit, CleanupFails, CleanupFile, Sweep
  <2>2. CASE CleanupList \/ CleanupCommit \/ CleanupFails
    BY <1>1, <2>1, <2>2, OrderUntouched DEF CleanupList, CleanupCommit, CleanupFails
  <2>3. ASSUME NEW id \in Ids, CleanupFile(id) PROVE InOrder(u)'
    <3>1. id[1] \in begun' /\ made[id[1]] > 0 /\ temp' = temp
      BY <2>3, HistoryGrows DEF CleanupFile, ReachInv, RowsAreMade, BeginningsFirst, Ids
    <3>2. CASE id[1] = u
      <4>1. \A r \in Requests : Active(r, u) => req[r].pc # "hash"
        BY <1>1, <1>11, <3>1, <3>2 DEF Sound, TypeInv, RowsOK
      <4>2. Content(PathOf[u])' = Content(PathOf[u])
        BY <3>1 DEF Content
      <4>3. \A r \in Requests : Active(r, u)' => InStep(u, r)'
        BY <1>1, <2>1, <3>1, <4>1, <4>2 DEF InOrder, InStep, Active
      <4> QED BY <1>1, <2>1, <4>2, <4>3 DEF InOrder
    <3>3. CASE id[1] # u
      <4>1. disk'[PathOf[u]] = disk[PathOf[u]]
        BY <1>1, <2>3, <3>1, <3>3, Apart DEF CleanupFile, TypeInv, FilesOK
      <4> QED BY <1>1, <2>1, <3>1, <4>1, OrderUntouched
    <3> QED BY <3>2, <3>3
  <2>4. ASSUME NEW p \in Paths, Sweep(p) PROVE InOrder(u)'
    <3>1. PathOf[u] # p
      BY <1>1, <2>4, UndisturbedWas DEF Sweep, Undisturbed
    <3>2. temp'[PathOf[u]] = temp[PathOf[u]] /\ disk' = disk
      BY <1>1, <2>4, <3>1 DEF Sweep, TypeInv, FilesOK
    <3> QED BY <1>1, <2>1, <3>2, OrderUntouched
  <2> QED BY <1>7, <2>2, <2>3, <2>4 DEF Cleanup
<1>8. ASSUME NEW t \in Sources, Expire(t) PROVE InOrder(u)'
  BY <1>1, <1>8, OrderUntouched DEF Expire
<1>9. CASE Crash
  BY <1>1, <1>9, OrderUntouched DEF Crash, NoRequest, Active
<1>10. CASE UNCHANGED vars
  BY <1>1, <1>10, OrderUntouched DEF vars
<1> QED BY <1>2, <1>3, <1>4, <1>5, <1>6, <1>7, <1>8, <1>9, <1>10 DEF Next

\* Order and right rows carry each other on.
LEMMA StepKeepsWhole ==
    ASSUME TypeInv, ReachInv, FilesSound, WholeInv, TypeInv', ReachInv', [Next]_vars
    PROVE  WholeInv'
<1>1. ASSUME NEW u \in Uploads, u \in begun', Undisturbed(u)' PROVE InOrder(u)' /\ RowsRight(u)'
  <2>1. CASE u \notin begun
    <3>1. made[u] = 0 /\ u \in Sources
      BY <2>1 DEF ReachInv, BeginningsFirst, TypeInv, RowsOK, Sources
    <3>2. RowsRight(u)
      BY <3>1, NothingWrong
    <3>3. \A r \in Requests : ~Active(r, u)
      BY <2>1 DEF ReachInv, BeginningsFirst, Active
    <3> QED BY <1>1, <2>1, <3>1, <3>2, <3>3, StepKeepsRight, BeginsInOrder DEF Undisturbed
  <2>2. CASE u \in begun
    <3>1. Undisturbed(u) /\ InOrder(u) /\ RowsRight(u) /\ u \in Sources
      BY <1>1, <2>2, UndisturbedWas DEF WholeInv, UploadsInOrder, Sources
    <3>2. ASSUME NEW r \in Requests, Active(r, u), RegisterFile(r)
          PROVE  [sum |-> req[r].sum, size |-> req[r].received + 1] = RightRow(u)
      BY <3>1, <3>2, WholeUpload DEF InOrder, InStep, RegisterFile, TypeInv, HandlersOK, RequestOK
    <3>3. RowsRight(u)'
      BY <3>1, <3>2, StepKeepsRight
    <3>4. InOrder(u)'
      BY <1>1, <2>2, StepKeepsOrder DEF WholeInv
    <3> QED BY <3>3, <3>4
  <2> QED BY <2>1, <2>2
<1>2. ASSUME NEW p \in Posts PROVE RowsRight(p)'
  <2>1. p \in Sources /\ RowsRight(p)
    BY DEF Sources, WholeInv, PostsRight
  <2>2. \A r \in Requests : ~(Active(r, p) /\ RegisterFile(r))
    BY TransfersAssumption DEF Active, TypeInv, HandlersOK, RequestOK
  <2> QED BY <2>1, <2>2, StepKeepsRight
<1> QED BY <1>1, <1>2 DEF WholeInv, UploadsInOrder, PostsRight

\* So they are an invariant.
LEMMA WholeInvariant == Spec => []WholeInv
<1>1. Init => WholeInv
  BY DEF Init, WholeInv, UploadsInOrder, PostsRight, RowsRight, NoDownload
<1> QED BY <1>1, StepKeepsWhole, SoundInvariant, TypesHold, PTL DEF Spec

\* An upload sent in order and within the hour is published whole, whatever
\* fails or crashes on the way.
THEOREM UploadsArePublishedWhole == Spec => []WholeUnlessRepeated
<1>1. TypeInv /\ ReachInv /\ FilesSound /\ WholeInv => WholeUnlessRepeated
  <2> SUFFICES ASSUME TypeInv, ReachInv, FilesSound, WholeInv, NEW id \in Ids,
                      rows[id] # None, id[1] \notin due, Undisturbed(id[1])
               PROVE  /\ disk[PathOf[id[1]]] = Whole(id[1])
                      /\ rows[id] = [sum |-> Whole(id[1]), size |-> Len(Whole(id[1]))]
    BY DEF WholeUnlessRepeated, Undisturbed
  <2>1. id[1] \in begun /\ id[1] \in Sources
    BY DEF ReachInv, RowsAreMade, BeginningsFirst, Ids
  <2>2. RowsRight(id[1])
    BY <2>1 DEF WholeInv, UploadsInOrder, PostsRight, Sources
  <2>3. rows[id] = RightRow(id[1])
    BY <2>2 DEF RowsRight
  <2>4. id[1] \in again => id[1] \in Posts
    BY <2>1 DEF WholeInv, UploadsInOrder, InOrder, Sources
  <2>5. Clean(id[1])
    BY <2>1, <2>4, TransfersAssumption DEF Undisturbed, Clean, ReachInv, BeginningsFirst
  <2>6. disk[PathOf[id[1]]] = rows[id].sum
    BY <2>1, <2>5 DEF FilesSound, Sound
  <2> QED BY <2>3, <2>6 DEF RightRow
<1> QED BY <1>1, SoundInvariant, WholeInvariant, PTL

=============================================================================

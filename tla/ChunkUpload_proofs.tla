-------------------------- MODULE ChunkUpload_proofs --------------------------
(* Theorems about ChunkUpload, for every Size, every set of Requests and    *)
(* both databases.                                                          *)
EXTENDS ChunkUpload, SequenceTheorems, TLAPS

-----------------------------------------------------------------------------
\* Slices

\* A slice of the file is a content of the expected length.
LEMMA SliceType ==
    ASSUME NEW i \in 0 .. Size, NEW j \in i .. Size
    PROVE  /\ Slice(i, j) \in Contents
           /\ Len(Slice(i, j)) = j - i
           /\ \A k \in 1 .. (j - i) : Slice(i, j)[k] = i + k
<1>1. j - i \in Nat /\ \A k \in 1 .. (j - i) : i + k \in 1 .. Size
  BY SizeAssumption
<1>2. Slice(i, j) \in [1 .. (j - i) -> 1 .. Size]
  BY <1>1 DEF Slice
<1> QED BY <1>1, <1>2 DEF Slice, Contents

\* Appending to a beginning of the file the bytes that follow it gives a
\* longer beginning of the file.
LEMMA SliceJoin ==
    ASSUME NEW i \in 0 .. Size, NEW j \in i .. Size
    PROVE  Slice(0, i) \o Slice(i, j) = Slice(0, j)
<1> DEFINE s == Slice(0, i)
           t == Slice(i, j)
           u == Slice(0, j)
<1>1. 0 \in 0 .. Size /\ i \in 0 .. Size /\ j \in 0 .. Size /\ i <= j
  BY SizeAssumption
<1>2. /\ s \in Contents /\ Len(s) = i /\ \A k \in 1 .. i : s[k] = k
      /\ t \in Contents /\ Len(t) = j - i
      /\ \A k \in 1 .. (j - i) : t[k] = i + k
      /\ u \in Contents /\ Len(u) = j /\ \A k \in 1 .. j : u[k] = k
  <2>1. /\ i - 0 = i /\ j - 0 = j /\ i \in 0 .. Size /\ j \in 0 .. Size
        /\ \A k \in Int : 0 + k = k
    BY <1>1, SizeAssumption
  <2>2. t \in Contents /\ Len(t) = j - i /\ \A k \in 1 .. (j - i) : t[k] = i + k
    BY SliceType
  <2>3. s \in Contents /\ Len(s) = i - 0 /\ \A k \in 1 .. (i - 0) : s[k] = 0 + k
    BY <1>1, SliceType
  <2>4. u \in Contents /\ Len(u) = j - 0 /\ \A k \in 1 .. (j - 0) : u[k] = 0 + k
    BY <1>1, SliceType
  <2> HIDE DEF s, t, u
  <2> QED BY <2>1, <2>2, <2>3, <2>4
<1> HIDE DEF s, t, u
<1>3. /\ s \o t \in Contents
      /\ Len(s \o t) = Len(s) + Len(t)
      /\ \A k \in 1 .. Len(s) + Len(t) :
            (s \o t)[k] = IF k <= Len(s) THEN s[k] ELSE t[k - Len(s)]
  BY <1>2, ConcatProperties DEF Contents
<1>4. \A k \in 1 .. j : (s \o t)[k] = u[k]
  <2> TAKE k \in 1 .. j
  <2>1. (s \o t)[k] = IF k <= i THEN s[k] ELSE t[k - i]
    <3>1. Len(s) = i /\ Len(s) + Len(t) = j
      BY <1>1, <1>2
    <3> QED BY <1>3, <3>1
  <2>2. k <= i => k \in 1 .. i
    OBVIOUS
  <2>3. ~(k <= i) => k - i \in 1 .. (j - i) /\ i + (k - i) = k
    BY <1>1
  <2> QED BY <1>2, <2>1, <2>2, <2>3
<1>5. Len(s \o t) = Len(u) /\ Len(s \o t) = j
  BY <1>1, <1>2, <1>3
<1>6. s \o t = u
  BY <1>2, <1>3, <1>4, <1>5, SeqEqual DEF Contents
<1> QED BY <1>6 DEF s, t, u

-----------------------------------------------------------------------------
\* Types

Ordered == \A r \in Requests : req[r].from <= req[r].to

HoldsItem ==
    \A r \in Requests :
        req[r].pc \in {"check", "write", "hash"} => req[r].snap # None

TypeInv == TypeOK /\ Ordered /\ HoldsItem

\* The idle handler is a handler.
LEMMA NoRequestType == NoRequest \in Handlers
BY SizeAssumption DEF NoRequest, Handlers, Steps, Codes

\* Giving one handler a well-formed value keeps all handlers well formed.
LEMMA OneHandler ==
    ASSUME TypeInv, NEW r \in Requests, NEW h \in Handlers, h.from <= h.to,
           h.pc \in {"check", "write", "hash"} => h.snap # None,
           req' = [req EXCEPT ![r] = h]
    PROVE  req' \in [Requests -> Handlers] /\ Ordered' /\ HoldsItem'
BY DEF TypeInv, TypeOK, Ordered, HoldsItem

\* An answer keeps all handlers well formed.
LEMMA AnswerType ==
    ASSUME TypeInv, NEW r \in Requests, NEW code \in Codes, Answer(r, code)
    PROVE  req' \in [Requests -> Handlers] /\ Ordered' /\ HoldsItem'
<1> DEFINE h == [NoRequest EXCEPT !.pc = "done", !.code = code]
<1>1. h \in Handlers
  BY NoRequestType DEF Handlers, Steps
<1>2. h.from <= h.to /\ h.pc = "done"
  BY DEF NoRequest
<1>3. req' = [req EXCEPT ![r] = h]
  BY DEF Answer
<1> HIDE DEF h
<1> QED BY <1>1, <1>2, <1>3, OneHandler

\* So does a step to the part of the handler that needs the hash only.
LEMMA ConcludeType ==
    ASSUME TypeInv, NEW r \in Requests, NEW pc \in {"expire", "move", "load"},
           NEW sha \in Contents \cup {None}, Conclude(r, pc, sha)
    PROVE  req' \in [Requests -> Handlers] /\ Ordered' /\ HoldsItem'
<1> DEFINE h == [NoRequest EXCEPT !.pc = pc, !.sha = sha]
<1>1. h \in Handlers
  BY NoRequestType DEF Handlers, Steps
<1>2. h.from <= h.to /\ h.pc \in {"expire", "move", "load"}
  BY DEF NoRequest
<1>3. req' = [req EXCEPT ![r] = h]
  BY DEF Conclude
<1> HIDE DEF h
<1> QED BY <1>1, <1>2, <1>3, OneHandler

\* So does a step to the next point of the handler.
LEMMA GotoType ==
    ASSUME TypeInv, NEW r \in Requests, NEW pc \in Steps, Goto(r, pc),
           pc \in {"check", "write", "hash"} => req[r].snap # None
    PROVE  req' \in [Requests -> Handlers] /\ Ordered' /\ HoldsItem'
<1> DEFINE h == [req[r] EXCEPT !.pc = pc]
<1>1. h \in Handlers /\ h.from <= h.to /\ h.pc = pc /\ h.snap = req[r].snap
  BY DEF TypeInv, TypeOK, Ordered, Handlers
<1>2. req' = [req EXCEPT ![r] = h]
  BY DEF Goto
<1> HIDE DEF h
<1> QED BY <1>1, <1>2, OneHandler

\* Appending a slice to the part gives a content.
LEMMA AppendType ==
    ASSUME TypeInv, NEW r \in Requests, NEW m \in req[r].from .. req[r].to
    PROVE  Existing \o Slice(req[r].from, m) \in Contents
<1>1. /\ req[r].from \in 0 .. Size /\ req[r].to \in 0 .. Size
      /\ m \in req[r].from .. Size
  BY SizeAssumption DEF TypeInv, TypeOK, Ordered, Handlers
<1>2. Slice(req[r].from, m) \in Contents
  BY <1>1, SliceType
<1>3. Existing \in Contents
  BY EmptySeq DEF TypeInv, TypeOK, Existing, Contents
<1> QED BY <1>2, <1>3, ConcatProperties DEF Contents

\* The rows' types are kept by what deletes them.
LEMMA RowsType ==
    ASSUME TypeInv, RowsDeleted
    PROVE  session' \in Sessions /\ item' \in Items \cup {None}
BY DEF TypeInv, TypeOK, RowsDeleted, Sessions

\* The derived status is a status.
LEMMA DerivedType ==
    ASSUME NEW status \in SessionStatus, NEW statuses
    PROVE  DerivedStatus(status, statuses) \in SessionStatus
BY DEF DerivedStatus, SessionStatus, Terminal

\* A failing deletion or cleanup goes on or stops, and changes nothing else.
LEMMA FailuresStop ==
    ASSUME HousekeepingFails
    PROVE  /\ UNCHANGED <<disk, rows, declared, req, discarded>>
           /\ del' \in {del, "idle", "row"} /\ cln' \in {cln, NoCleanup}
BY DEF HousekeepingFails, DeletePartFails, DeleteFails, CleanupFails

\* Every step keeps the types.
LEMMA TypeStep == TypeInv /\ [Next]_vars => TypeInv'
<1> SUFFICES ASSUME TypeInv, [Next]_vars PROVE TypeInv'
  OBVIOUS
<1> USE DEF TypeInv
<1>1. CASE UNCHANGED vars
  BY <1>1 DEF vars, TypeOK, Ordered, HoldsItem
<1>2. ASSUME NEW r \in Requests, NEW i \in 0 .. Size, NEW j \in 0 .. Size,
             Receive(r, i, j)
      PROVE  TypeInv'
  <2> DEFINE h == [NoRequest EXCEPT !.pc = "admit", !.from = i, !.to = j]
  <2>1. h \in Handlers /\ h.from <= h.to /\ h.pc = "admit"
    BY <1>2 DEF Receive, NoRequest, Handlers, Steps, Codes
  <2>2. req' = [req EXCEPT ![r] = h]
    BY <1>2 DEF Receive
  <2> HIDE DEF h
  <2>3. req' \in [Requests -> Handlers] /\ Ordered' /\ HoldsItem'
    BY <2>1, <2>2, OneHandler
  <2> QED BY <1>2, <2>3 DEF Receive, TypeOK, disk, rows
<1>3. ASSUME NEW r \in Requests, AdmitMissing(r) PROVE TypeInv'
  <2>1. req' \in [Requests -> Handlers] /\ Ordered' /\ HoldsItem'
    BY <1>3, AnswerType DEF AdmitMissing, Codes
  <2> QED BY <1>3, <2>1 DEF AdmitMissing, TypeOK, disk, rows
<1>4. ASSUME NEW r \in Requests, AdmitExpired(r) PROVE TypeInv'
  <2>1. req' \in [Requests -> Handlers] /\ Ordered' /\ HoldsItem'
    BY <1>4, ConcludeType DEF AdmitExpired
  <2> QED BY <1>4, <2>1 DEF AdmitExpired, TypeOK, disk, rows
<1>5. ASSUME NEW r \in Requests, AdmitItem(r) PROVE TypeInv'
  <2> DEFINE h == [req[r] EXCEPT !.pc = "check", !.snap = item]
  <2>1. h \in Handlers /\ h.from <= h.to /\ h.snap # None
    BY <1>5 DEF AdmitItem, TypeOK, Ordered, Handlers, Steps
  <2>2. req' = [req EXCEPT ![r] = h]
    BY <1>5 DEF AdmitItem
  <2> HIDE DEF h
  <2>3. req' \in [Requests -> Handlers] /\ Ordered' /\ HoldsItem'
    BY <2>1, <2>2, OneHandler
  <2> QED BY <1>5, <2>3 DEF AdmitItem, TypeOK, disk, rows
<1>6. ASSUME NEW r \in Requests, Check(r) PROVE TypeInv'
  <2>1. req[r].snap # None
    BY <1>6 DEF Check, At, HoldsItem
  <2>2. req' \in [Requests -> Handlers] /\ Ordered' /\ HoldsItem'
    <3>1. PICK pc \in Steps : Goto(r, pc)
      BY <1>6 DEF Check, Steps
    <3> QED BY <2>1, <3>1, GotoType
  <2> QED BY <1>6, <2>2 DEF Check, TypeOK, disk, rows
<1>7. ASSUME NEW r \in Requests, AnswerConflict(r) PROVE TypeInv'
  <2>1. req' \in [Requests -> Handlers] /\ Ordered' /\ HoldsItem'
    BY <1>7, AnswerType DEF AnswerConflict, Codes
  <2> QED BY <1>7, <2>1 DEF AnswerConflict, TypeOK, disk, rows
<1>8. ASSUME NEW r \in Requests, Write(r) PROVE TypeInv'
  <2>1. req[r].snap # None
    BY <1>8 DEF Write, At, HoldsItem
  <2>2. req' \in [Requests -> Handlers] /\ Ordered' /\ HoldsItem'
    <3>1. CASE LastChunk(req[r])
      BY <1>8, <2>1, <3>1, GotoType DEF Write, Steps
    <3>2. CASE ~LastChunk(req[r])
      BY <1>8, <3>2, ConcludeType DEF Write
    <3> QED BY <3>1, <3>2
  <2>3. part' \in Contents
    <3>1. req[r].to \in req[r].from .. req[r].to
      BY DEF TypeOK, Ordered, Handlers
    <3> QED BY <1>8, <3>1, AppendType DEF Write
  <2> QED BY <1>8, <2>2, <2>3 DEF Write, TypeOK, rows
<1>9. ASSUME NEW r \in Requests, WriteFails(r) PROVE TypeInv'
  <2>1. req' \in [Requests -> Handlers] /\ Ordered' /\ HoldsItem'
    BY <1>9, AnswerType DEF WriteFails, Codes
  <2>2. part' \in Contents
    BY <1>9, AppendType DEF WriteFails
  <2> QED BY <1>9, <2>1, <2>2 DEF WriteFails, TypeOK, rows
<1>10. ASSUME NEW r \in Requests, Hash(r) PROVE TypeInv'
  <2>1. part \in Contents
    BY <1>10 DEF Hash, TypeOK
  <2>2. req' \in [Requests -> Handlers] /\ Ordered' /\ HoldsItem'
    <3>1. CASE HashMatches(req[r], part)
      BY <1>10, <2>1, <3>1, ConcludeType DEF Hash
    <3>2. CASE ~HashMatches(req[r], part)
      BY <1>10, <3>2, AnswerType DEF Hash, Codes
    <3> QED BY <3>1, <3>2
  <2> QED BY <1>10, <2>2 DEF Hash, TypeOK, disk, rows
<1>11. ASSUME NEW r \in Requests, Move(r) PROVE TypeInv'
  <2>1. req[r].sha \in Contents \cup {None}
    BY DEF TypeOK, Handlers
  <2>2. req' \in [Requests -> Handlers] /\ Ordered' /\ HoldsItem'
    BY <1>11, <2>1, ConcludeType DEF Move
  <2> QED BY <1>11, <2>2 DEF Move, TypeOK, rows
<1>12. ASSUME NEW r \in Requests, PartVanished(r) PROVE TypeInv'
  <2>1. req' \in [Requests -> Handlers] /\ Ordered' /\ HoldsItem'
    BY <1>12, AnswerType DEF PartVanished, Codes
  <2> QED BY <1>12, <2>1 DEF PartVanished, TypeOK, disk, rows
<1>13. ASSUME NEW r \in Requests, Load(r) PROVE TypeInv'
  <2> DEFINE h == [req[r] EXCEPT !.pc = "save", !.snap = item]
  <2>1. h \in Handlers /\ h.from <= h.to /\ h.pc = "save"
    BY DEF TypeOK, Ordered, Handlers, Steps
  <2>2. req' = [req EXCEPT ![r] = h]
    BY <1>13 DEF Load
  <2> HIDE DEF h
  <2>3. req' \in [Requests -> Handlers] /\ Ordered' /\ HoldsItem'
    BY <2>1, <2>2, OneHandler
  <2> QED BY <1>13, <2>3 DEF Load, TypeOK, disk, rows
<1>14. ASSUME NEW r \in Requests, SaveMissing(r) PROVE TypeInv'
  <2>1. req' \in [Requests -> Handlers] /\ Ordered' /\ HoldsItem'
    BY <1>14, AnswerType DEF SaveMissing, Codes
  <2> QED BY <1>14, <2>1 DEF SaveMissing, TypeOK, disk, rows
<1>15. ASSUME NEW r \in Requests, SaveProgress(r) PROVE TypeInv'
  <2>1. req' \in [Requests -> Handlers] /\ Ordered' /\ HoldsItem'
    BY <1>15, AnswerType DEF SaveProgress, Codes
  <2>2. req[r].snap \in Items
    BY <1>15 DEF SaveProgress, Mergeable, TypeOK, Handlers
  <2>3. item' \in Items
    BY <1>15, <2>2 DEF SaveProgress, Items, ItemStatus
  <2> QED BY <1>15, <2>1, <2>3 DEF SaveProgress, TypeOK, disk
<1>16. ASSUME NEW r \in Requests, SaveCompleted(r) PROVE TypeInv'
  <2>1. req' \in [Requests -> Handlers] /\ Ordered' /\ HoldsItem'
    BY <1>16, AnswerType DEF SaveCompleted, Codes
  <2>2. req[r].sha \in Contents
    BY <1>16 DEF SaveCompleted, TypeOK, Handlers
  <2>3. Len(req[r].sha) \in Nat
    BY <2>2, LenProperties DEF Contents
  <2>4. item' \in Items
    BY <1>16, <2>2, <2>3 DEF SaveCompleted, Items, ItemStatus
  <2>5. session' \in Sessions
    BY <1>16, DerivedType DEF SaveCompleted, TypeOK, Sessions
  <2> QED BY <1>16, <2>1, <2>4, <2>5 DEF SaveCompleted, TypeOK, disk
<1>17. ASSUME NEW r \in Requests, StepFails(r) PROVE TypeInv'
  <2>1. req' \in [Requests -> Handlers] /\ Ordered' /\ HoldsItem'
    BY <1>17, AnswerType DEF StepFails, Codes
  <2> QED BY <1>17, <2>1 DEF StepFails, TypeOK, disk, rows
<1>18. ASSUME NEW r \in Requests, Finish(r) PROVE TypeInv'
  <2>1. NoRequest.from <= NoRequest.to /\ NoRequest.pc = "idle"
    BY DEF NoRequest
  <2>2. req' \in [Requests -> Handlers] /\ Ordered' /\ HoldsItem'
    BY <1>18, <2>1, NoRequestType, OneHandler DEF Finish
  <2> QED BY <1>18, <2>2 DEF Finish, TypeOK, disk, rows
<1>19. CASE DeleteStart
  BY <1>19 DEF DeleteStart, TypeOK, Ordered, HoldsItem, disk, rows
<1>20. CASE DeletePart
  BY <1>20 DEF DeletePart, TypeOK, Ordered, HoldsItem, rows
<1>21. CASE DeleteRow
  BY <1>21, RowsType DEF DeleteRow, TypeOK, Ordered, HoldsItem, disk
<1>22. CASE CleanupList
  BY <1>22 DEF CleanupList, TypeOK, Ordered, HoldsItem, Items, disk, rows
<1>23. CASE CleanupFile
  BY <1>23 DEF CleanupFile, TypeOK, Ordered, HoldsItem, rows
<1>24. CASE CleanupRow
  BY <1>24, RowsType DEF CleanupRow, NoCleanup, TypeOK, Ordered, HoldsItem, disk
<1>25. CASE TimePasses
  BY <1>25 DEF TimePasses, TypeOK, Ordered, HoldsItem, Sessions, disk
<1>26. CASE Crash
  <2>1. \A r \in Requests : req'[r] = NoRequest
    BY <1>26 DEF Crash
  <2>2. NoRequest.from <= NoRequest.to /\ NoRequest.pc = "idle"
    BY DEF NoRequest
  <2>3. req' \in [Requests -> Handlers]
    BY <1>26, NoRequestType DEF Crash
  <2>4. Ordered' /\ HoldsItem'
    BY <2>1, <2>2 DEF Ordered, HoldsItem
  <2> QED BY <1>26, <2>3, <2>4 DEF Crash, NoCleanup, TypeOK, disk, rows
<1>27. ASSUME NEW r \in Requests, SaveExpired(r) PROVE TypeInv'
  <2>1. req' \in [Requests -> Handlers] /\ Ordered' /\ HoldsItem'
    BY <1>27, AnswerType DEF SaveExpired, Codes
  <2> QED BY <1>27, <2>1 DEF SaveExpired, TypeOK, Sessions, SessionStatus, disk
<1>28. CASE HousekeepingFails
  <2>1. /\ UNCHANGED <<disk, rows, declared, req, discarded>>
        /\ del' \in {del, "idle", "row"} /\ cln' \in {cln, NoCleanup}
    BY <1>28, FailuresStop
  <2>2. /\ cln' \in [pc : {"idle", "file", "row"}, path : BOOLEAN]
        /\ del' \in {"idle", "part", "row"}
    <3>1. NoCleanup \in [pc : {"idle", "file", "row"}, path : BOOLEAN]
      BY DEF NoCleanup
    <3> QED BY <2>1, <3>1 DEF TypeOK
  <2> QED BY <2>1, <2>2 DEF TypeOK, Ordered, HoldsItem, disk, rows
<1> QED
  BY <1>1, <1>2, <1>3, <1>4, <1>5, <1>6, <1>7, <1>8, <1>9, <1>10, <1>11, <1>12,
     <1>13, <1>14, <1>15, <1>16, <1>17, <1>18, <1>19, <1>20, <1>21, <1>22, <1>23,
     <1>24, <1>25, <1>26, <1>27, <1>28
     DEF Next, Handle, Fault, Housekeeping

\* The initial state has the types.
LEMMA TypeInit == Init => TypeInv
<1> SUFFICES ASSUME Init PROVE TypeInv
  OBVIOUS
<1>1. Whole \in Contents
  <2>1. 0 \in 0 .. Size /\ Size \in 0 .. Size
    BY SizeAssumption
  <2> QED BY <2>1, SliceType DEF Whole
<1>2. declared \in Contents \cup {None, Wrong} /\ declared \in Declarable
  BY <1>1 DEF Init, Declarable
<1>3. item \in Items
  BY <1>2, SizeAssumption DEF Init, Items, ItemStatus
<1>4. req \in [Requests -> Handlers] /\ \A r \in Requests : req[r] = NoRequest
  BY NoRequestType DEF Init
<1>5. Ordered /\ HoldsItem
  BY <1>4 DEF Ordered, HoldsItem, NoRequest
<1> QED
  BY <1>2, <1>3, <1>4, <1>5
     DEF Init, TypeInv, TypeOK, Sessions, SessionStatus, NoCleanup

\* Every variable keeps to its kind, whatever requests, faults, deletions and
\* cleanups overlap.
THEOREM TypeCorrect == Spec => []TypeOK
<1>1. TypeInv => TypeOK
  BY DEF TypeInv
<1> QED BY <1>1, TypeInit, TypeStep, PTL DEF Spec

-----------------------------------------------------------------------------
\* The declared checksum, under any overlap of requests

\* Every copy of the checksum, in the row and in the handlers, is the declared
\* one: the row alone is not inductive, since handlers write their copies back.
DeclaredInv ==
    declared # None =>
        /\ item # None => item.sha = declared
        /\ \A r \in Requests :
              /\ req[r].snap # None => req[r].snap.sha = declared
              /\ req[r].sha # None => req[r].sha = declared

\* A handler that keeps its copies, or forgets them, keeps DeclaredInv.
LEMMA SameCopies ==
    ASSUME DeclaredInv, NEW r \in Requests,
           req'[r].snap \in {None, req[r].snap, item},
           req'[r].sha \in {None, req[r].sha},
           \A q \in Requests \ {r} : req'[q] = req[q],
           item' = item, declared' = declared
    PROVE  DeclaredInv'
BY DEF DeclaredInv

\* In particular one that answers ...
LEMMA AnswerKeeps ==
    ASSUME TypeInv, DeclaredInv, NEW r \in Requests, NEW code,
           Answer(r, code), declared' = declared,
           declared # None /\ item' # None => item'.sha = declared
    PROVE  DeclaredInv'
<1>1. req'[r].snap = None /\ req'[r].sha = None
  BY DEF Answer, NoRequest, TypeInv, TypeOK
<1>2. \A q \in Requests \ {r} : req'[q] = req[q]
  BY DEF Answer, TypeInv, TypeOK
<1> QED BY <1>1, <1>2 DEF DeclaredInv

\* ... or that goes on to another point.
LEMMA GotoKeeps ==
    ASSUME TypeInv, DeclaredInv, NEW r \in Requests, NEW pc,
           Goto(r, pc), item' = item, declared' = declared
    PROVE  DeclaredInv'
<1>1. req'[r].snap = req[r].snap /\ req'[r].sha = req[r].sha
  BY DEF Goto, TypeInv, TypeOK, Handlers
<1>2. \A q \in Requests \ {r} : req'[q] = req[q]
  BY DEF Goto, TypeInv, TypeOK
<1> QED BY <1>1, <1>2, SameCopies

\* Or that goes on with a hash that is the declared one.
LEMMA ConcludeKeeps ==
    ASSUME TypeInv, DeclaredInv, NEW r \in Requests, NEW pc, NEW sha,
           Conclude(r, pc, sha), item' = item, declared' = declared,
           declared # None /\ sha # None => sha = declared
    PROVE  DeclaredInv'
<1>1. req'[r].snap = None /\ req'[r].sha = sha
  BY DEF Conclude, NoRequest, TypeInv, TypeOK
<1>2. \A q \in Requests \ {r} : req'[q] = req[q]
  BY DEF Conclude, TypeInv, TypeOK
<1> QED BY <1>1, <1>2 DEF DeclaredInv

\* Every step keeps DeclaredInv; Hash is where the copies are compared.
LEMMA DeclaredStep == TypeInv /\ DeclaredInv /\ [Next]_vars => DeclaredInv'
<1> SUFFICES ASSUME TypeInv, DeclaredInv, [Next]_vars PROVE DeclaredInv'
  OBVIOUS
<1>1. CASE UNCHANGED vars
  BY <1>1 DEF vars, DeclaredInv
<1>2. ASSUME NEW r \in Requests, NEW i \in 0 .. Size, NEW j \in 0 .. Size,
             Receive(r, i, j)
      PROVE  DeclaredInv'
  <2>1. req'[r].snap = None /\ req'[r].sha = None
    BY <1>2 DEF Receive, NoRequest, TypeInv, TypeOK
  <2>2. \A q \in Requests \ {r} : req'[q] = req[q]
    BY <1>2 DEF Receive, TypeInv, TypeOK
  <2> QED BY <1>2, <2>1, <2>2, SameCopies DEF Receive, rows
<1>3. ASSUME NEW r \in Requests,
             \/ AdmitMissing(r) \/ SaveExpired(r) \/ AnswerConflict(r)
             \/ PartVanished(r) \/ SaveMissing(r) \/ StepFails(r) \/ WriteFails(r)
      PROVE  DeclaredInv'
  <2>1. item' = item /\ declared' = declared
    BY <1>3 DEF AdmitMissing, SaveExpired, AnswerConflict, PartVanished,
                SaveMissing, StepFails, WriteFails, rows
  <2>2. PICK code : Answer(r, code)
    BY <1>3 DEF AdmitMissing, SaveExpired, AnswerConflict, PartVanished,
                SaveMissing, StepFails, WriteFails
  <2>3. declared # None /\ item' # None => item'.sha = declared
    BY <2>1 DEF DeclaredInv
  <2> QED BY <2>1, <2>2, <2>3, AnswerKeeps
<1>15. ASSUME NEW r \in Requests, AdmitExpired(r) PROVE DeclaredInv'
  <2>1. Conclude(r, "expire", None) /\ item' = item /\ declared' = declared
    BY ONLY <1>15 DEF AdmitExpired, rows
  <2> QED BY <2>1, ConcludeKeeps
<1>4. ASSUME NEW r \in Requests, AdmitItem(r) \/ Load(r) PROVE DeclaredInv'
  <2>1. req'[r].snap = item /\ req'[r].sha = req[r].sha
    BY <1>4 DEF AdmitItem, Load, TypeInv, TypeOK, Handlers
  <2>2. \A q \in Requests \ {r} : req'[q] = req[q]
    BY <1>4 DEF AdmitItem, Load, TypeInv, TypeOK
  <2> QED BY <1>4, <2>1, <2>2, SameCopies DEF AdmitItem, Load, rows
<1>5. ASSUME NEW r \in Requests, Check(r) PROVE DeclaredInv'
  BY <1>5, GotoKeeps DEF Check, rows
<1>6. ASSUME NEW r \in Requests, Write(r) PROVE DeclaredInv'
  <2>1. item' = item /\ declared' = declared
    BY <1>6 DEF Write, rows
  <2>2. CASE LastChunk(req[r])
    BY <1>6, <2>1, <2>2, GotoKeeps DEF Write
  <2>3. CASE ~LastChunk(req[r])
    BY <1>6, <2>1, <2>3, ConcludeKeeps DEF Write
  <2> QED BY <2>2, <2>3
<1>7. ASSUME NEW r \in Requests, Hash(r) PROVE DeclaredInv'
  <2>1. item' = item /\ declared' = declared
    BY <1>7 DEF Hash, rows
  <2>2. CASE HashMatches(req[r], part)
    <3>1. req[r].snap # None
      BY <1>7 DEF Hash, At, TypeInv, HoldsItem
    <3>2. declared # None => part = declared
      BY <2>2, <3>1 DEF HashMatches, DeclaredInv
    <3> QED BY <1>7, <2>1, <2>2, <3>2, ConcludeKeeps DEF Hash
  <2>3. CASE ~HashMatches(req[r], part)
    <3>1. declared # None /\ item' # None => item'.sha = declared
      BY <2>1 DEF DeclaredInv
    <3> QED BY <1>7, <2>1, <2>3, <3>1, AnswerKeeps DEF Hash
  <2> QED BY <2>2, <2>3
<1>8. ASSUME NEW r \in Requests, Move(r) PROVE DeclaredInv'
  <2>1. declared # None /\ req[r].sha # None => req[r].sha = declared
    BY DEF DeclaredInv
  <2> QED BY <1>8, <2>1, ConcludeKeeps DEF Move, rows
<1>9. ASSUME NEW r \in Requests, SaveProgress(r) PROVE DeclaredInv'
  <2>1. req[r].snap \in Items /\ req[r].snap # None
    BY <1>9 DEF SaveProgress, Mergeable, TypeInv, TypeOK, Handlers
  <2>2. declared # None => item'.sha = declared
    BY <1>9, <2>1 DEF SaveProgress, DeclaredInv, Items
  <2> QED BY <1>9, <2>2, AnswerKeeps DEF SaveProgress
<1>10. ASSUME NEW r \in Requests, SaveCompleted(r) PROVE DeclaredInv'
  <2>1. declared # None => item'.sha = declared
    BY <1>10 DEF SaveCompleted, DeclaredInv
  <2> QED BY <1>10, <2>1, AnswerKeeps DEF SaveCompleted
<1>11. ASSUME NEW r \in Requests, Finish(r) PROVE DeclaredInv'
  <2>1. req'[r].snap = None /\ req'[r].sha = None
    BY <1>11 DEF Finish, NoRequest, TypeInv, TypeOK
  <2>2. \A q \in Requests \ {r} : req'[q] = req[q]
    BY <1>11 DEF Finish, TypeInv, TypeOK
  <2> QED BY <1>11, <2>1, <2>2, SameCopies DEF Finish, rows
<1>12. CASE DeleteStart \/ DeletePart \/ CleanupList \/ CleanupFile \/ TimePasses
  BY <1>12 DEF DeleteStart, DeletePart, CleanupList, CleanupFile, TimePasses,
               DeclaredInv, rows
<1>13. CASE DeleteRow \/ CleanupRow
  BY <1>13 DEF DeleteRow, CleanupRow, RowsDeleted, DeclaredInv
<1>14. CASE Crash
  <2>1. \A r \in Requests : req'[r].snap = None /\ req'[r].sha = None
    BY <1>14 DEF Crash, NoRequest
  <2> QED BY <1>14, <2>1 DEF Crash, DeclaredInv, rows
<1>16. CASE HousekeepingFails
  BY <1>16, FailuresStop DEF DeclaredInv, rows
<1> QED
  BY <1>1, <1>2, <1>3, <1>4, <1>5, <1>6, <1>7, <1>8, <1>9, <1>10, <1>11, <1>12,
     <1>13, <1>14, <1>15, <1>16
     DEF Next, Handle, Fault, Housekeeping

\* A declared checksum is never replaced by another, however many requests for
\* the item overlap, fail or crash.
THEOREM DeclaredChecksumIsKept == Spec => []DeclaredChecksumKept
<1>1. Init => DeclaredInv
  BY DEF Init, DeclaredInv, NoRequest
<1>2. DeclaredInv => DeclaredChecksumKept
  BY DEF DeclaredInv, DeclaredChecksumKept
<1> QED BY <1>1, <1>2, TypeInit, TypeStep, DeclaredStep, PTL DEF Spec

-----------------------------------------------------------------------------
\* What is published has its file, under any overlap of requests

CleanupIsDue == cln.pc # "idle" => session.due

\* A handler about to publish, or holding a copy that is published, has a file.
Backed(q) ==
    /\ q.pc \in {"load", "save"} /\ q.sha # None => stored # None
    /\ q.pc = "save" /\ q.snap # None /\ q.snap.path => stored # None

\* The row alone is not inductive: handlers publish the file they moved, and
\* write back copies of a published row.
FilesBehind ==
    ~session.due =>
        /\ item # None /\ item.path => stored # None
        /\ \A r \in Requests : Backed(req[r])

FileInv == CleanupIsDue /\ FilesBehind

\* A handler's step keeps it when what that handler and the row say is right.
LEMMA FileKept ==
    ASSUME FileInv, NEW r \in Requests,
           \A q \in Requests \ {r} : req'[q] = req[q],
           session.due => session'.due, cln' = cln, stored # None => stored' # None,
           ~session.due => /\ Backed(req[r])'
                           /\ item' # None /\ item'.path => stored' # None
    PROVE  FileInv'
BY DEF FileInv, CleanupIsDue, FilesBehind, Backed

\* A handler with nothing to save says nothing.
LEMMA NothingToSave ==
    ASSUME FileInv, NEW r \in Requests,
           \A q \in Requests \ {r} : req'[q] = req[q], req'[r].pc \notin {"load", "save"},
           session.due => session'.due, cln' = cln, item' = item,
           stored' = stored
    PROVE  FileInv'
BY FileKept DEF FileInv, FilesBehind, Backed

\* Every step keeps it.
LEMMA FileStep == TypeInv /\ FileInv /\ [Next]_vars => FileInv'
<1> SUFFICES ASSUME TypeInv, FileInv, [Next]_vars PROVE FileInv'
  OBVIOUS
<1> USE DEF TypeInv, TypeOK
<1>1. ASSUME NEW r \in Requests, NEW i, NEW j, Receive(r, i, j) PROVE FileInv'
  BY <1>1, NothingToSave DEF Receive, NoRequest, disk, rows
<1>2. ASSUME NEW r \in Requests,
             \/ AdmitMissing(r) \/ SaveExpired(r) \/ AnswerConflict(r)
             \/ PartVanished(r) \/ SaveMissing(r) \/ StepFails(r) \/ WriteFails(r)
      PROVE  FileInv'
  <2>1. item' = item /\ stored' = stored /\ cln' = cln /\ (session.due => session'.due)
    BY <1>2 DEF AdmitMissing, SaveExpired, AnswerConflict, PartVanished,
                SaveMissing, StepFails, WriteFails, Sessions, disk, rows
  <2>2. PICK code : Answer(r, code)
    BY <1>2 DEF AdmitMissing, SaveExpired, AnswerConflict, PartVanished,
                SaveMissing, StepFails, WriteFails
  <2>3. /\ \A q \in Requests \ {r} : req'[q] = req[q]
        /\ req'[r].pc = "done"
    BY <2>2 DEF Answer, NoRequest
  <2> QED BY <2>1, <2>3, NothingToSave
<1>3. ASSUME NEW r \in Requests, AdmitItem(r) \/ Check(r) PROVE FileInv'
  <2>1. CASE AdmitItem(r)
    BY <2>1, NothingToSave DEF AdmitItem, Handlers, disk, rows
  <2>2. CASE Check(r)
    BY <2>2, NothingToSave DEF Check, Goto, Handlers, disk, rows
  <2> QED BY <1>3, <2>1, <2>2
<1>4. ASSUME NEW r \in Requests, Write(r) PROVE FileInv'
  <2>1. UNCHANGED <<stored, item, session, cln>>
    BY <1>4 DEF Write, rows
  <2>2. CASE LastChunk(req[r])
    <3>1. Goto(r, "hash")
      BY <1>4, <2>2 DEF Write
    <3>2. req'[r].pc = "hash" /\ \A q \in Requests \ {r} : req'[q] = req[q]
      BY <3>1 DEF Goto, Handlers
    <3> QED BY <2>1, <3>2, NothingToSave
  <2>3. CASE ~LastChunk(req[r])
    <3>1. Conclude(r, "load", None)
      BY <1>4, <2>3 DEF Write
    <3>2. req'[r].pc = "load" /\ req'[r].sha = None
          /\ \A q \in Requests \ {r} : req'[q] = req[q]
      BY <3>1 DEF Conclude, NoRequest
    <3> QED BY <2>1, <3>2, FileKept DEF FileInv, FilesBehind, Backed
  <2> QED BY <2>2, <2>3
<1>5. ASSUME NEW r \in Requests, Hash(r) PROVE FileInv'
  <2>1. UNCHANGED <<stored, item, session, cln>>
    BY <1>5 DEF Hash, disk, rows
  <2>2. Conclude(r, "move", part) \/ Answer(r, "bad")
    BY <1>5 DEF Hash
  <2>3. CASE Conclude(r, "move", part)
    BY <2>1, <2>3, NothingToSave DEF Conclude, NoRequest
  <2>4. CASE Answer(r, "bad")
    BY <2>1, <2>4, NothingToSave DEF Answer, NoRequest
  <2> QED BY <2>2, <2>3, <2>4
<1>6. ASSUME NEW r \in Requests, Move(r) PROVE FileInv'
  <2>1. /\ stored' # None /\ UNCHANGED <<item, session, cln>>
        /\ \A q \in Requests \ {r} : req'[q] = req[q]
    BY <1>6 DEF Move, Conclude, rows
  <2> QED BY <2>1, FileKept DEF Backed
<1>7. ASSUME NEW r \in Requests, Load(r) PROVE FileInv'
  <2>1. /\ req[r].pc = "load" /\ req'[r].pc = "save" /\ req'[r].snap = item
        /\ req'[r].sha = req[r].sha
        /\ \A q \in Requests \ {r} : req'[q] = req[q]
    BY <1>7 DEF Load, At, Handlers
  <2>2. UNCHANGED <<stored, item, session, cln>>
    BY <1>7 DEF Load, disk, rows
  <2> QED BY <2>1, <2>2, FileKept DEF FileInv, FilesBehind, Backed
<1>8. ASSUME NEW r \in Requests, SaveProgress(r) \/ SaveCompleted(r) PROVE FileInv'
  <2>1. /\ req[r].pc = "save" /\ req'[r].pc = "done"
        /\ \A q \in Requests \ {r} : req'[q] = req[q]
    <3>1. req[r].pc = "save" /\ Answer(r, "ok")
      BY ONLY <1>8 DEF SaveProgress, SaveCompleted, At
    <3> QED BY <3>1 DEF Answer, NoRequest
  <2>2. stored' = stored /\ cln' = cln /\ session'.due = session.due
    <3>1. CASE SaveProgress(r)
      BY <3>1 DEF SaveProgress, disk
    <3>2. CASE SaveCompleted(r)
      BY <3>2 DEF SaveCompleted, Sessions, disk
    <3> QED BY <1>8, <3>1, <3>2
  <2>3. ~session.due => (item'.path => stored # None)
    <3>1. CASE SaveProgress(r)
      <4>1. req[r].snap \in Items /\ item' = [req[r].snap EXCEPT !.status = "uploading"]
        BY <3>1 DEF SaveProgress, Mergeable, Handlers
      <4>2. item'.path = req[r].snap.path /\ req[r].snap # None
        BY <4>1, SentinelAssumption DEF Items
      <4> QED BY <2>1, <4>2 DEF FileInv, FilesBehind, Backed
    <3>2. CASE SaveCompleted(r)
      BY <2>1, <3>2 DEF SaveCompleted, FileInv, FilesBehind, Backed
    <3> QED BY <1>8, <3>1, <3>2
  <2> QED BY <2>1, <2>2, <2>3, FileKept DEF Backed
<1>9. ASSUME NEW r \in Requests, Finish(r) PROVE FileInv'
  BY <1>9, NothingToSave DEF Finish, NoRequest, disk, rows
<1>10. CASE DeleteStart \/ DeletePart
  BY <1>10 DEF DeleteStart, DeletePart, FileInv, CleanupIsDue, FilesBehind, Backed, disk, rows
<1>11. CASE DeleteRow \/ CleanupRow
  <2>1. /\ stored' = stored /\ req' = req /\ item' \in {item, None}
        /\ session'.due = session.due /\ cln'.pc \in {"idle", cln.pc}
    BY <1>11 DEF DeleteRow, CleanupRow, RowsDeleted, NoCleanup, Sessions, disk
  <2> QED BY <2>1 DEF FileInv, CleanupIsDue, FilesBehind, Backed
<1>12. CASE CleanupList \/ CleanupFile \/ TimePasses
  <2>1. session'.due
    BY <1>12 DEF CleanupList, CleanupFile, TimePasses, FileInv, CleanupIsDue, Sessions, rows
  <2> QED BY <2>1 DEF FileInv, CleanupIsDue, FilesBehind
<1>13. CASE Crash
  <2>1. \A r \in Requests : req'[r].pc = "idle"
    BY <1>13 DEF Crash, NoRequest
  <2>2. stored' = stored /\ item' = item /\ session' = session /\ cln'.pc = "idle"
    BY <1>13 DEF Crash, NoCleanup, disk, rows
  <2> QED BY <2>1, <2>2 DEF FileInv, CleanupIsDue, FilesBehind, Backed
<1>14. CASE UNCHANGED vars
  BY <1>14 DEF vars, FileInv, CleanupIsDue, FilesBehind, Backed
<1>15. ASSUME NEW r \in Requests, AdmitExpired(r) PROVE FileInv'
  <2>1. UNCHANGED <<stored, item, session, cln>> /\ Conclude(r, "expire", None)
    BY ONLY <1>15 DEF AdmitExpired, disk, rows
  <2> QED BY <2>1, NothingToSave DEF Conclude, NoRequest
<1>16. CASE HousekeepingFails
  BY <1>16, FailuresStop DEF FileInv, CleanupIsDue, FilesBehind, Backed, NoCleanup, disk, rows
<1> QED
  BY <1>1, <1>2, <1>3, <1>4, <1>5, <1>6, <1>7, <1>8, <1>9, <1>10, <1>11, <1>12,
     <1>13, <1>14, <1>15, <1>16
     DEF Next, Handle, Fault, Housekeeping

\* While a session can be downloaded from, what is published has its file,
\* however many requests for the item overlap, fail or crash.
THEOREM PublishedFilesAreThere == Spec => []PublishedHasFile
<1>1. Init => FileInv
  BY DEF Init, FileInv, CleanupIsDue, FilesBehind, Backed, NoRequest, NoCleanup
<1>2. TypeInv /\ FileInv => PublishedHasFile
  BY DEF FileInv, FilesBehind, PublishedHasFile, Servable, Published
<1> QED BY <1>1, <1>2, TypeInit, TypeStep, FileStep, PTL DEF Spec

-----------------------------------------------------------------------------
\* One request at a time

AtMostOne ==
    \A r, q \in Requests :
        req[r].pc # "idle" /\ req[q].pc # "idle" => r = q

\* The part is a beginning of the file.
PartSound == part # None => part = Slice(0, Len(part)) /\ Len(part) <= Size

\* The stored file is the whole file, unless nobody can be served it.
StoredSound == stored = Whole \/ ~Servable

ItemSound ==
    item # None => /\ item.size = Size
                   /\ item.path => item.sha = Whole /\ StoredSound

\* What a handler knows at each point: where its chunk goes, that the part it
\* hashes and moves is the whole file, and that its copy of the item is fresh.
HandlerSound(q) ==
    /\ q.snap # None => q.snap.size = Size
    /\ q.pc = "write" => Offset = q.from
    /\ q.pc \in {"hash", "move"} => Size > 0
    /\ q.pc = "hash" => part = Whole
    /\ q.pc = "move" => part = Whole /\ q.sha = Whole
    /\ q.pc \in {"load", "save"} /\ q.sha # None => q.sha = Whole /\ StoredSound
    /\ q.pc = "save" /\ q.snap # None => item \in {None, q.snap}

Sound == PartSound /\ ItemSound /\ \A r \in Requests : HandlerSound(req[r])

\* Nobody brings the session back under a handler that is alone.
GoneTogether ==
    \A r \in Requests :
        req[r].pc = "save" /\ req[r].snap # None /\ item = None => ~session.row

\* The inductive invariant of SerialSpec, over the types.
SerialInv == AtMostOne /\ CleanupIsDue /\ GoneTogether /\ (~discarded => Sound)

\* A serial step is a step.
LEMMA SerialIsNext == [SerialNext]_vars => [Next]_vars
BY DEF SerialNext, Next

\* So what such a handler saves is still there.
LEMMA MergesWhatIsThere ==
    ASSUME SerialInv, NEW r \in Requests, req[r].pc = "save", Mergeable(r)
    PROVE  req[r].snap # None /\ item # None
BY DEF SerialInv, GoneTogether, Mergeable

\* The session comes back by SaveExpired alone, whose handler then is the only one.
LEMMA GoneStep ==
    ASSUME TypeInv, AtMostOne, GoneTogether, [SerialNext]_vars
    PROVE  GoneTogether'
<1> USE DEF TypeInv, TypeOK, GoneTogether
<1>1. ASSUME NEW r \in Requests, \A q \in Requests \ {r} : req'[q] = req[q],
             req'[r].pc # "save" \/ req'[r].snap = item,
             item' = item \/ item' # None, session'.row => session.row
      PROVE  GoneTogether'
  BY <1>1
<1>2. ASSUME NEW r \in Requests, NEW i, NEW j, Receive(r, i, j) PROVE GoneTogether'
  BY <1>1, <1>2 DEF Receive, NoRequest, rows
<1>3. ASSUME NEW r \in Requests,
             \/ AdmitMissing(r) \/ AnswerConflict(r) \/ PartVanished(r) \/ SaveMissing(r)
             \/ StepFails(r) \/ WriteFails(r)
      PROVE  GoneTogether'
  <2>1. UNCHANGED rows /\ \E code : Answer(r, code)
    BY ONLY <1>3 DEF AdmitMissing, AnswerConflict, PartVanished, SaveMissing, StepFails,
                     WriteFails, rows
  <2>2. req'[r].pc = "done" /\ \A q \in Requests \ {r} : req'[q] = req[q]
    BY <2>1 DEF Answer, NoRequest
  <2> QED BY <1>1, <2>1, <2>2 DEF rows
<1>4. ASSUME NEW r \in Requests, SaveExpired(r) PROVE GoneTogether'
  <2>1. \A q \in Requests \ {r} : req'[q].pc = "idle"
    BY <1>4 DEF SaveExpired, Answer, At, AtMostOne
  <2>2. req'[r].pc = "done"
    BY <1>4 DEF SaveExpired, Answer, NoRequest
  <2> QED BY <2>1, <2>2
<1>5. ASSUME NEW r \in Requests, AdmitItem(r) \/ Check(r) \/ Load(r) PROVE GoneTogether'
  <2>1. CASE AdmitItem(r)  BY <1>1, <2>1 DEF AdmitItem, Handlers, rows
  <2>2. CASE Check(r)      BY <1>1, <2>2 DEF Check, Goto, Handlers, rows
  <2>3. CASE Load(r)       BY <1>1, <2>3 DEF Load, Handlers, rows
  <2> QED BY <1>5, <2>1, <2>2, <2>3
<1>6. ASSUME NEW r \in Requests, AdmitExpired(r) \/ Write(r) \/ Hash(r) \/ Move(r)
      PROVE  GoneTogether'
  <2>1. /\ UNCHANGED rows
        /\ \/ \E code : Answer(r, code)
           \/ \E pc \in {"expire", "load", "move"} : \E sha : Conclude(r, pc, sha)
           \/ Goto(r, "hash")
    BY ONLY <1>6 DEF AdmitExpired, Write, Hash, Move, rows
  <2>2. CASE \E code : Answer(r, code)
    <3>1. req'[r].pc = "done" /\ \A q \in Requests \ {r} : req'[q] = req[q]
      BY <2>2 DEF Answer, NoRequest
    <3> QED BY <1>1, <2>1, <3>1 DEF rows
  <2>3. ASSUME NEW pc \in {"expire", "load", "move"}, NEW sha, Conclude(r, pc, sha)
        PROVE  GoneTogether'
    BY <1>1, <2>1, <2>3 DEF Conclude, NoRequest, rows
  <2>4. CASE Goto(r, "hash")
    BY <1>1, <2>1, <2>4 DEF Goto, Handlers, rows
  <2> QED BY <2>1, <2>2, <2>3, <2>4
<1>7. ASSUME NEW r \in Requests, SaveProgress(r) \/ SaveCompleted(r) PROVE GoneTogether'
  <2>1. req[r].pc = "save" /\ Answer(r, "ok")
    BY ONLY <1>7 DEF SaveProgress, SaveCompleted, At
  <2>2. \A q \in Requests : req'[q].pc # "save"
    BY <2>1 DEF Answer, NoRequest, AtMostOne
  <2> QED BY <2>2
<1>8. ASSUME NEW r \in Requests, Finish(r) PROVE GoneTogether'
  BY <1>1, <1>8 DEF Finish, NoRequest, rows
<1>9. CASE DeleteRow \/ CleanupRow
  BY <1>9 DEF DeleteRow, CleanupRow, RowsDeleted, Sessions
<1>10. CASE TimePasses
  BY <1>10 DEF TimePasses, Sessions
<1>11. CASE Crash
  BY <1>11 DEF Crash, NoRequest
<1>12. CASE UNCHANGED <<rows, req>>
  BY <1>12 DEF rows
<1> QED
  BY <1>2, <1>3, <1>4, <1>5, <1>6, <1>7, <1>8, <1>9, <1>10, <1>11, <1>12
     DEF SerialNext, Handle, Fault, Housekeeping, DeleteStart, DeletePart, CleanupList,
         CleanupFile, HousekeepingFails, DeletePartFails, DeleteFails, CleanupFails, vars

\* A session that cannot be served never can again.
LEMMA ServableFalls ==
    ASSUME TypeInv, [Next]_vars, ~Servable
    PROVE  ~Servable'
<1> USE DEF TypeInv, TypeOK, Sessions, Servable
<1>1. CASE UNCHANGED session
  BY <1>1
<1>2. ASSUME NEW r \in Requests, SaveExpired(r) PROVE ~Servable'
  BY <1>2 DEF SaveExpired
<1>3. ASSUME NEW r \in Requests, SaveCompleted(r) PROVE ~Servable'
  <2>1. DerivedStatus("expired", {"completed"}) = "expired"
    BY DEF DerivedStatus, Terminal
  <2> QED BY <1>3, <2>1 DEF SaveCompleted
<1>4. CASE DeleteRow \/ CleanupRow \/ TimePasses
  BY <1>4 DEF DeleteRow, CleanupRow, TimePasses, RowsDeleted
<1> QED
  BY <1>1, <1>2, <1>3, <1>4
     DEF Next, Handle, Fault, Housekeeping, Receive, AdmitMissing, AdmitExpired,
         AdmitItem, Check, AnswerConflict, Write, WriteFails, Hash, Move, PartVanished, Load,
         SaveMissing, SaveProgress, StepFails, Finish, DeleteStart, DeletePart,
         CleanupList, CleanupFile, HousekeepingFails, DeletePartFails, DeleteFails,
         CleanupFails, Crash, vars, rows

\* So what was sound of the stored file stays sound while the file stays.
LEMMA StoredStays ==
    ASSUME TypeInv, [Next]_vars, stored' = stored, StoredSound
    PROVE  StoredSound'
BY ServableFalls DEF StoredSound

\* A step that leaves the files and the item alone leaves them sound.
LEMMA FilesStay ==
    ASSUME TypeInv, [Next]_vars, Sound,
           part' = part, stored' = stored, item' = item
    PROVE  PartSound' /\ ItemSound'
BY StoredStays DEF Sound, PartSound, ItemSound

\* A step of the one active handler is sound if what it does to the files, the
\* item and its own state is.
LEMMA OneHandlerStep ==
    ASSUME TypeInv, SerialInv, NEW r \in Requests, req[r].pc # "idle",
           \A q \in Requests \ {r} : req'[q] = req[q],
           cln' = cln, session.due => session'.due, discarded' = discarded,
           GoneTogether',
           ~discarded => PartSound' /\ ItemSound' /\ HandlerSound(req[r])'
    PROVE  SerialInv'
<1>1. \A q \in Requests \ {r} : req'[q].pc = "idle"
  BY DEF SerialInv, AtMostOne
<1>2. AtMostOne'
  BY <1>1 DEF AtMostOne
<1>3. CleanupIsDue'
  BY DEF SerialInv, CleanupIsDue
<1>4. ASSUME ~discarded PROVE Sound'
  <2>1. ASSUME NEW q \in Requests \ {r} PROVE HandlerSound(req[q])'
    <3>1. req[q].snap # None => req[q].snap.size = Size
      BY <1>4 DEF SerialInv, Sound, HandlerSound
    <3> QED BY <1>1, <3>1 DEF HandlerSound
  <2> QED BY <1>4, <2>1 DEF Sound
<1> QED BY <1>2, <1>3, <1>4 DEF SerialInv

\* An answering handler has nothing left to be sound about.
LEMMA AnswerSound ==
    ASSUME TypeInv, NEW r \in Requests, NEW code, Answer(r, code)
    PROVE  /\ HandlerSound(req[r])'
           /\ \A q \in Requests \ {r} : req'[q] = req[q]
<1>1. req'[r].pc = "done" /\ req'[r].snap = None
  BY DEF Answer, NoRequest, TypeInv, TypeOK
<1>2. \A q \in Requests \ {r} : req'[q] = req[q]
  BY DEF Answer, TypeInv, TypeOK
<1> QED BY <1>1, <1>2 DEF HandlerSound

\* Appending the bytes at its end to a sound part, whole chunk or not.
LEMMA AppendSound ==
    ASSUME TypeInv, PartSound, NEW r \in Requests, Offset = req[r].from,
           NEW m \in req[r].from .. req[r].to,
           part' = Existing \o Slice(req[r].from, m)
    PROVE  PartSound' /\ part' = Slice(0, m)
<1>1. /\ req[r].from \in 0 .. Size /\ req[r].to \in 0 .. Size
      /\ m \in req[r].from .. Size /\ m \in 0 .. Size /\ 0 \in 0 .. Size
  BY SizeAssumption DEF TypeInv, TypeOK, Ordered, Handlers
<1>2. Existing = Slice(0, req[r].from)
  <2>1. CASE part = None
    <3>1. req[r].from = 0 /\ Existing = << >>
      BY <2>1 DEF Offset, Existing
    <3>2. Slice(0, 0) \in Contents /\ Len(Slice(0, 0)) = 0
      BY <1>1, SliceType
    <3>3. Slice(0, 0) = << >>
      BY <3>2, EmptySeq DEF Contents
    <3> QED BY <3>1, <3>3
  <2>2. CASE part # None
    BY <2>2 DEF Offset, Existing, PartSound
  <2> QED BY <2>1, <2>2
<1>3. part' = Slice(0, m)
  BY <1>1, <1>2, SliceJoin
<1>4. Len(Slice(0, m)) = m
  <2>1. Len(Slice(0, m)) = m - 0
    BY <1>1, SliceType
  <2> QED BY <1>1, <2>1
<1> QED BY <1>1, <1>3, <1>4 DEF PartSound

\* Every serial step keeps the invariant.
LEMMA SerialStep == TypeInv /\ SerialInv /\ [SerialNext]_vars => SerialInv'
<1> SUFFICES ASSUME TypeInv, SerialInv, [SerialNext]_vars PROVE SerialInv'
  OBVIOUS
<1>0. [Next]_vars
  BY SerialIsNext
<1>gone. GoneTogether'
  BY GoneStep DEF SerialInv
<1>1. CASE UNCHANGED vars
  BY <1>1, <1>gone DEF vars, SerialInv, AtMostOne, CleanupIsDue, Sound, PartSound,
              ItemSound, HandlerSound, StoredSound, Servable, Offset
<1>2. ASSUME NEW r \in Requests, NEW i \in 0 .. Size, NEW j \in 0 .. Size,
             AllIdle, Receive(r, i, j)
      PROVE  SerialInv'
  <2>1. req'[r].pc = "admit" /\ req'[r].snap = None
    BY <1>2 DEF Receive, NoRequest, TypeInv, TypeOK
  <2>2. \A q \in Requests \ {r} : req'[q] = req[q] /\ req'[q].pc = "idle"
    BY <1>2 DEF Receive, AllIdle, At, TypeInv, TypeOK
  <2>3. AtMostOne'
    BY <2>2 DEF AtMostOne
  <2>4. CleanupIsDue'
    BY <1>2 DEF Receive, rows, SerialInv, CleanupIsDue
  <2>5. ASSUME ~discarded' PROVE Sound'
    <3>1. Sound
      BY <1>2, <2>5 DEF Receive, SerialInv
    <3>2. PartSound' /\ ItemSound'
      BY <1>0, <1>2, <3>1, FilesStay DEF Receive, disk, rows
    <3>3. ASSUME NEW q \in Requests PROVE HandlerSound(req[q])'
      BY <2>1, <2>2, <3>1 DEF Sound, HandlerSound
    <3> QED BY <3>2, <3>3 DEF Sound
  <2> QED BY <2>3, <2>4, <2>5, <1>gone DEF SerialInv
<1>3. ASSUME NEW r \in Requests,
             \/ AdmitMissing(r) \/ SaveExpired(r) \/ AnswerConflict(r)
             \/ PartVanished(r) \/ SaveMissing(r) \/ StepFails(r)
      PROVE  SerialInv'
  <2>1. /\ part' = part /\ stored' = stored /\ item' = item /\ cln' = cln
        /\ session.due => session'.due
        /\ discarded' = discarded /\ req[r].pc # "idle"
    BY <1>3 DEF AdmitMissing, SaveExpired, AnswerConflict, PartVanished,
                SaveMissing, StepFails, At, disk, rows, TypeInv, TypeOK, Sessions
  <2>2. PICK code : Answer(r, code)
    BY <1>3 DEF AdmitMissing, SaveExpired, AnswerConflict, PartVanished,
                SaveMissing, StepFails
  <2>3. ~discarded => PartSound' /\ ItemSound'
    BY <1>0, <2>1, FilesStay DEF SerialInv
  <2> QED BY <2>1, <2>2, <2>3, AnswerSound, OneHandlerStep, <1>gone
<1>4. ASSUME NEW r \in Requests, AdmitItem(r) \/ Check(r) \/ Load(r)
      PROVE  SerialInv'
  <2>1. /\ part' = part /\ stored' = stored /\ item' = item /\ cln' = cln
        /\ session' = session /\ discarded' = discarded
        /\ req[r].pc # "idle" /\ \A q \in Requests \ {r} : req'[q] = req[q]
    BY <1>4 DEF AdmitItem, Check, Load, Goto, At, disk, rows, TypeInv, TypeOK
  <2>2. ASSUME ~discarded PROVE PartSound' /\ ItemSound' /\ HandlerSound(req[r])'
    <3>1. Sound
      BY <2>2 DEF SerialInv
    <3>2. PartSound' /\ ItemSound'
      BY <1>0, <2>1, <3>1, FilesStay
    <3>3. CASE AdmitItem(r)
      <4>1. req'[r].pc = "check" /\ req'[r].snap = item
        BY <3>3 DEF AdmitItem, TypeInv, TypeOK, Handlers
      <4> QED BY <3>1, <4>1, <3>2 DEF Sound, ItemSound, HandlerSound
    <3>4. CASE Check(r)
      <4>1. /\ req'[r].snap = req[r].snap /\ req'[r].from = req[r].from
            /\ req'[r].pc \in {"write", "probe"}
            /\ req'[r].pc = "write" => Offset = req[r].from
        BY <3>4 DEF Check, Goto, TypeInv, TypeOK, Handlers
      <4> QED BY <2>1, <3>1, <3>2, <4>1 DEF Sound, HandlerSound, Offset
    <3>5. CASE Load(r)
      <4>1. /\ req'[r].pc = "save" /\ req'[r].snap = item
            /\ req'[r].sha = req[r].sha /\ req[r].pc = "load"
        BY <3>5 DEF Load, At, TypeInv, TypeOK, Handlers
      <4>2. req[r].sha # None => req[r].sha = Whole /\ StoredSound'
        BY <1>0, <2>1, <3>1, <4>1, StoredStays DEF Sound, HandlerSound
      <4> QED BY <2>1, <3>1, <3>2, <4>1, <4>2 DEF Sound, ItemSound, HandlerSound
    <3> QED BY <1>4, <3>2, <3>3, <3>4, <3>5
  <2> QED BY <2>1, <2>2, OneHandlerStep, <1>gone
<1>5. ASSUME NEW r \in Requests, Write(r) PROVE SerialInv'
  <2>1. /\ stored' = stored /\ item' = item /\ cln' = cln
        /\ session' = session /\ discarded' = discarded
        /\ req[r].pc # "idle" /\ \A q \in Requests \ {r} : req'[q] = req[q]
    <3>1. /\ stored' = stored /\ item' = item /\ cln' = cln
          /\ session' = session /\ discarded' = discarded /\ req[r].pc # "idle"
          /\ Goto(r, "hash") \/ Conclude(r, "load", None)
      BY ONLY <1>5 DEF Write, At, rows
    <3>2. \A q \in Requests \ {r} : req'[q] = req[q]
      BY <3>1 DEF Goto, Conclude, TypeInv, TypeOK
    <3> QED BY <3>1, <3>2
  <2>2. ASSUME ~discarded PROVE PartSound' /\ ItemSound' /\ HandlerSound(req[r])'
    <3>1. Sound
      BY <2>2 DEF SerialInv
    <3>2. Offset = req[r].from /\ req[r].to \in req[r].from .. req[r].to
      BY <1>5, <3>1 DEF Write, At, Sound, HandlerSound, TypeInv, TypeOK, Ordered,
                       Handlers
    <3>3. PartSound' /\ part' = Slice(0, req[r].to)
      BY <1>5, <3>1, <3>2, AppendSound DEF Write, Sound
    <3>4. ItemSound'
      BY <1>0, <2>1, <3>1, StoredStays DEF Sound, ItemSound
    <3>5. CASE LastChunk(req[r])
      <4>1. /\ req'[r].pc = "hash" /\ req'[r].snap = req[r].snap
        <5>1. Goto(r, "hash")
          BY ONLY <1>5, <3>5 DEF Write
        <5> QED BY <5>1 DEF Goto, TypeInv, TypeOK, Handlers
      <4>2. req[r].snap # None /\ req[r].snap.size = Size
        BY <1>5, <3>1 DEF Write, At, TypeInv, HoldsItem, Sound, HandlerSound
      <4>3. req[r].to = Size /\ Size > 0
        BY <3>5, <4>2, SizeAssumption DEF LastChunk, TypeInv, TypeOK, Handlers
      <4> QED BY <3>3, <3>4, <4>1, <4>2, <4>3 DEF HandlerSound, Whole
    <3>6. CASE ~LastChunk(req[r])
      <4>1. req'[r].pc = "load" /\ req'[r].snap = None /\ req'[r].sha = None
        <5>1. Conclude(r, "load", None)
          BY ONLY <1>5, <3>6 DEF Write
        <5> QED BY <5>1 DEF Conclude, NoRequest, TypeInv, TypeOK
      <4> QED BY <3>3, <3>4, <4>1 DEF HandlerSound
    <3> QED BY <3>5, <3>6
  <2> QED BY <2>1, <2>2, OneHandlerStep, <1>gone
<1>6. ASSUME NEW r \in Requests, WriteFails(r) PROVE SerialInv'
  <2>1. /\ stored' = stored /\ item' = item /\ cln' = cln
        /\ session' = session /\ discarded' = discarded
        /\ req[r].pc # "idle" /\ Answer(r, "error")
    BY <1>6 DEF WriteFails, At, rows
  <2>2. ASSUME ~discarded PROVE PartSound' /\ ItemSound'
    <3>1. Sound
      BY <2>2 DEF SerialInv
    <3>2. Offset = req[r].from
      BY <1>6, <3>1 DEF WriteFails, At, Sound, HandlerSound
    <3>3. PICK m \in req[r].from .. req[r].to :
             part' = Existing \o Slice(req[r].from, m)
      BY <1>6 DEF WriteFails
    <3>4. PartSound'
      BY <3>1, <3>2, <3>3, AppendSound DEF Sound
    <3> QED BY <1>0, <2>1, <3>1, <3>4, StoredStays DEF Sound, ItemSound
  <2> QED BY <2>1, <2>2, AnswerSound, OneHandlerStep, <1>gone
<1>7. ASSUME NEW r \in Requests, Hash(r) PROVE SerialInv'
  <2>1. /\ part' = part /\ stored' = stored /\ item' = item /\ cln' = cln
        /\ session' = session /\ discarded' = discarded
        /\ req[r].pc = "hash" /\ req[r].pc # "idle"
        /\ \A q \in Requests \ {r} : req'[q] = req[q]
    <3>1. /\ part' = part /\ stored' = stored /\ item' = item /\ cln' = cln
          /\ session' = session /\ discarded' = discarded
          /\ req[r].pc = "hash"
          /\ Conclude(r, "move", part) \/ Answer(r, "bad")
      BY ONLY <1>7 DEF Hash, At, disk, rows
    <3>2. \A q \in Requests \ {r} : req'[q] = req[q]
      BY <3>1 DEF Answer, Conclude, TypeInv, TypeOK
    <3> QED BY <3>1, <3>2
  <2>2. ASSUME ~discarded PROVE PartSound' /\ ItemSound' /\ HandlerSound(req[r])'
    <3>1. Sound
      BY <2>2 DEF SerialInv
    <3>2. PartSound' /\ ItemSound' /\ part = Whole /\ Size > 0
      BY <1>0, <2>1, <3>1, FilesStay DEF Sound, HandlerSound
    <3>3. CASE HashMatches(req[r], part)
      <4>1. req'[r].pc = "move" /\ req'[r].snap = None /\ req'[r].sha = part
        <5>1. Conclude(r, "move", part)
          BY ONLY <1>7, <3>3 DEF Hash
        <5> QED BY <5>1 DEF Conclude, NoRequest, TypeInv, TypeOK
      <4> QED BY <2>1, <3>2, <4>1 DEF HandlerSound
    <3>4. CASE ~HashMatches(req[r], part)
      <4>1. HandlerSound(req[r])'
        BY <1>7, <3>4, AnswerSound DEF Hash
      <4> QED BY <3>2, <4>1
    <3> QED BY <3>3, <3>4
  <2> QED BY <2>1, <2>2, OneHandlerStep, <1>gone
<1>8. ASSUME NEW r \in Requests, Move(r) PROVE SerialInv'
  <2>1. /\ part' = None /\ stored' = part /\ item' = item /\ cln' = cln
        /\ session' = session /\ discarded' = discarded
        /\ req[r].pc = "move" /\ req[r].pc # "idle"
        /\ req'[r].pc = "load" /\ req'[r].snap = None /\ req'[r].sha = req[r].sha
        /\ \A q \in Requests \ {r} : req'[q] = req[q]
    BY <1>8 DEF Move, Conclude, NoRequest, At, rows, TypeInv, TypeOK
  <2>2. ASSUME ~discarded PROVE PartSound' /\ ItemSound' /\ HandlerSound(req[r])'
    <3>1. Sound
      BY <2>2 DEF SerialInv
    <3>2. stored' = Whole /\ req[r].sha = Whole
      BY <2>1, <3>1 DEF Sound, HandlerSound
    <3>3. StoredSound'
      BY <3>2 DEF StoredSound
    <3> QED BY <2>1, <3>1, <3>2, <3>3
            DEF Sound, PartSound, ItemSound, HandlerSound
  <2> QED BY <2>1, <2>2, OneHandlerStep, <1>gone
<1>9. ASSUME NEW r \in Requests, SaveProgress(r) PROVE SerialInv'
  <2>1. /\ part' = part /\ stored' = stored /\ cln' = cln
        /\ session' = session /\ discarded' = discarded
        /\ req[r].pc = "save" /\ req[r].pc # "idle" /\ Answer(r, "ok")
    BY <1>9 DEF SaveProgress, At, disk
  <2>2. ASSUME ~discarded PROVE PartSound' /\ ItemSound'
    <3>1. Sound
      BY <2>2 DEF SerialInv
    <3>2. item # None /\ req[r].snap = item /\ item \in Items
      BY <1>9, <2>1, <3>1, MergesWhatIsThere
         DEF SaveProgress, Sound, HandlerSound, TypeInv, TypeOK
    <3>3. item'.size = item.size /\ item'.path = item.path /\ item'.sha = item.sha
      BY <1>9, <3>2 DEF SaveProgress, Items
    <3> QED BY <1>0, <2>1, <3>1, <3>2, <3>3, StoredStays
            DEF Sound, PartSound, ItemSound
  <2> QED BY <2>1, <2>2, AnswerSound, OneHandlerStep, <1>gone
<1>10. ASSUME NEW r \in Requests, SaveCompleted(r) PROVE SerialInv'
  <2>1. /\ part' = part /\ stored' = stored /\ cln' = cln
        /\ session'.due = session.due /\ discarded' = discarded
        /\ req[r].pc = "save" /\ req[r].pc # "idle" /\ Answer(r, "ok")
    BY <1>10 DEF SaveCompleted, At, disk, TypeInv, TypeOK, Sessions
  <2>2. ASSUME ~discarded PROVE PartSound' /\ ItemSound'
    <3>1. Sound
      BY <2>2 DEF SerialInv
    <3>2. req[r].sha = Whole /\ StoredSound
      BY <1>10, <2>1, <3>1 DEF SaveCompleted, Sound, HandlerSound
    <3>3. Len(Whole) = Size
      <4>1. 0 \in 0 .. Size /\ Size \in 0 .. Size /\ Size - 0 = Size
        BY SizeAssumption
      <4> QED BY <4>1, SliceType DEF Whole
    <3>4. item'.size = Size /\ item'.sha = Whole
      BY <1>10, <3>2, <3>3 DEF SaveCompleted
    <3> QED BY <1>0, <2>1, <3>1, <3>2, <3>4, StoredStays
            DEF Sound, PartSound, ItemSound
  <2> QED BY <2>1, <2>2, AnswerSound, OneHandlerStep, <1>gone
<1>11. ASSUME NEW r \in Requests, Finish(r) PROVE SerialInv'
  <2>1. /\ part' = part /\ stored' = stored /\ item' = item /\ cln' = cln
        /\ session' = session /\ discarded' = discarded
        /\ req[r].pc # "idle" /\ req'[r].pc = "idle" /\ req'[r].snap = None
        /\ \A q \in Requests \ {r} : req'[q] = req[q]
    BY <1>11 DEF Finish, NoRequest, At, disk, rows, TypeInv, TypeOK
  <2>2. ~discarded => PartSound' /\ ItemSound' /\ HandlerSound(req[r])'
    BY <1>0, <2>1, FilesStay DEF SerialInv, HandlerSound
  <2> QED BY <2>1, <2>2, OneHandlerStep, <1>gone
<1>12. CASE DeletePart
  BY <1>12, <1>gone DEF DeletePart, rows, SerialInv, AtMostOne, CleanupIsDue
<1>13. CASE DeleteStart \/ DeleteRow \/ CleanupList \/ CleanupFile \/ CleanupRow
            \/ TimePasses
  <2>1. AtMostOne' /\ CleanupIsDue'
    BY <1>13 DEF DeleteStart, DeleteRow, CleanupList, CleanupFile, CleanupRow,
                 TimePasses, RowsDeleted, NoCleanup, rows, SerialInv, AtMostOne,
                 CleanupIsDue, TypeInv, TypeOK, Sessions
  <2>2. ASSUME ~discarded' PROVE Sound'
    <3>1. Sound
      BY <1>13, <2>2 DEF DeleteStart, DeleteRow, CleanupList, CleanupFile,
                         CleanupRow, TimePasses, SerialInv
    <3>2. /\ part' = part /\ req' = req /\ item' \in {item, None}
      BY <1>13 DEF DeleteStart, DeleteRow, CleanupList, CleanupFile, CleanupRow,
                   TimePasses, RowsDeleted, disk, rows
    <3>3. StoredSound => StoredSound'
      <4>1. CASE stored' = stored
        BY <1>0, <4>1, StoredStays
      <4>2. CASE CleanupFile
        <5>1. ~Servable
          BY <4>2 DEF CleanupFile, SerialInv, CleanupIsDue, Servable
        <5> QED BY <1>0, <5>1, ServableFalls DEF StoredSound
      <4> QED BY <1>13, <4>1, <4>2 DEF DeleteStart, DeleteRow, CleanupList,
                                       CleanupRow, TimePasses, disk
    <3>4. PartSound' /\ ItemSound'
      BY <3>1, <3>2, <3>3 DEF Sound, PartSound, ItemSound
    <3>5. ASSUME NEW r \in Requests PROVE HandlerSound(req[r])'
      BY <3>1, <3>2, <3>3 DEF Sound, HandlerSound, Offset
    <3> QED BY <3>4, <3>5 DEF Sound
  <2> QED BY <2>1, <2>2, <1>gone DEF SerialInv
<1>14. CASE Crash
  <2>1. \A r \in Requests : req'[r].pc = "idle" /\ req'[r].snap = None
    BY <1>14 DEF Crash, NoRequest
  <2>2. AtMostOne' /\ CleanupIsDue'
    BY <1>14, <2>1 DEF Crash, NoCleanup, AtMostOne, CleanupIsDue
  <2>3. ASSUME ~discarded' PROVE Sound'
    <3>1. Sound
      BY <1>14, <2>3 DEF Crash, SerialInv
    <3>2. PartSound' /\ ItemSound'
      BY <1>0, <1>14, <3>1, FilesStay DEF Crash, disk, rows
    <3> QED BY <2>1, <3>2 DEF Sound, HandlerSound
  <2> QED BY <2>2, <2>3, <1>gone DEF SerialInv
<1>15. ASSUME NEW r \in Requests, AdmitExpired(r) PROVE SerialInv'
  <2>1. /\ part' = part /\ stored' = stored /\ item' = item /\ cln' = cln
        /\ session' = session /\ discarded' = discarded
        /\ req[r].pc # "idle" /\ Conclude(r, "expire", None)
    BY ONLY <1>15 DEF AdmitExpired, At, disk, rows
  <2>2. /\ req'[r].pc = "expire" /\ req'[r].snap = None
        /\ \A q \in Requests \ {r} : req'[q] = req[q]
    BY <2>1 DEF Conclude, NoRequest, TypeInv, TypeOK
  <2>3. ~discarded => PartSound' /\ ItemSound' /\ HandlerSound(req[r])'
    BY <1>0, <2>1, <2>2, FilesStay DEF SerialInv, HandlerSound
  <2> QED BY <2>1, <2>2, <2>3, OneHandlerStep, <1>gone
<1>16. CASE HousekeepingFails
  <2>1. /\ UNCHANGED <<disk, rows, req, discarded>> /\ cln' \in {cln, NoCleanup}
    BY <1>16, FailuresStop
  <2>2. AtMostOne' /\ CleanupIsDue'
    BY <2>1 DEF SerialInv, AtMostOne, CleanupIsDue, NoCleanup, rows
  <2>3. ASSUME ~discarded' PROVE Sound'
    BY <2>1, <2>3 DEF SerialInv, Sound, PartSound, ItemSound, HandlerSound, StoredSound,
                      Servable, Offset, disk, rows
  <2> QED BY <2>2, <2>3, <1>gone DEF SerialInv
<1> QED
  BY <1>1, <1>2, <1>3, <1>4, <1>5, <1>6, <1>7, <1>8, <1>9, <1>10, <1>11, <1>12,
     <1>13, <1>14, <1>15, <1>16
     DEF SerialNext, Handle, Fault, Housekeeping

\* The initial state is sound.
LEMMA SerialInit == Init => SerialInv
<1> SUFFICES ASSUME Init PROVE SerialInv
  OBVIOUS
<1>1. \A r \in Requests : req[r].pc = "idle" /\ req[r].snap = None
  BY DEF Init, NoRequest
<1>2. item.size = Size /\ item.path = FALSE
  BY DEF Init
<1> QED BY <1>1, <1>2 DEF Init, NoCleanup, SerialInv, AtMostOne, CleanupIsDue,
           GoneTogether, Sound, PartSound, ItemSound, HandlerSound

\* The inductive invariant holds of every serial behaviour.
LEMMA SerialInvariant == SerialSpec => [](TypeInv /\ SerialInv)
<1>1. TypeInv /\ SerialInv /\ [SerialNext]_vars => (TypeInv /\ SerialInv)'
  BY SerialIsNext, TypeStep, SerialStep
<1> QED BY <1>1, TypeInit, SerialInit, PTL DEF SerialSpec

\* With one request at a time the part file is a beginning of the file.
THEOREM SerialPartIsPrefix == SerialSpec => []PartIsPrefix
<1>1. SerialInv => PartIsPrefix
  BY DEF SerialInv, Sound, PartSound, PartIsPrefix
<1> QED BY <1>1, SerialInvariant, PTL

\* With one request at a time a published item is the whole file, with its size
\* and its checksum, through failed writes, crashes and repeated uploads.
THEOREM SerialPublishedIsWhole == SerialSpec => []PublishedIsWhole
<1>1. SerialInv => PublishedIsWhole
  BY DEF SerialInv, Sound, ItemSound, StoredSound, PublishedIsWhole, Published
<1> QED BY <1>1, SerialInvariant, PTL

\* A serial step neither takes back a publication nor changes its checksum.
LEMMA PublicationStep ==
    ASSUME TypeInv, SerialInv, [SerialNext]_vars,
           Published, item' # None, ~discarded'
    PROVE  Published' /\ item'.sha = item.sha
<1>1. CASE item' = item
  BY <1>1 DEF Published
<1>2. ASSUME NEW r \in Requests, SaveProgress(r) \/ SaveCompleted(r)
      PROVE  Published' /\ item'.sha = item.sha
  <2>1. Sound /\ req[r].pc = "save" /\ item \in Items
    BY <1>2 DEF SaveProgress, SaveCompleted, At, SerialInv, Published, TypeInv,
                TypeOK
  <2>2. CASE SaveProgress(r)
    <3>1. req[r].snap = item
      BY <2>1, <2>2, MergesWhatIsThere DEF SaveProgress, Sound, HandlerSound
    <3> QED BY <2>1, <2>2, <3>1 DEF SaveProgress, Items, Published
  <2>3. CASE SaveCompleted(r)
    <3>1. item.sha = Whole /\ req[r].sha = Whole
      BY <2>1, <2>3 DEF SaveCompleted, Sound, HandlerSound, ItemSound, Published
    <3> QED BY <2>3, <3>1 DEF SaveCompleted, Published
  <2> QED BY <1>2, <2>2, <2>3
<1>3. CASE DeleteRow \/ CleanupRow
  BY <1>1, <1>3 DEF DeleteRow, CleanupRow, RowsDeleted
<1> QED
  BY <1>1, <1>2, <1>3
     DEF SerialNext, Handle, Fault, Housekeeping, Receive, AdmitMissing, AdmitItem,
         AdmitExpired, SaveExpired, Check, AnswerConflict, Write, WriteFails, Hash, Move,
         PartVanished, Load, SaveMissing, StepFails, Finish, DeleteStart,
         DeletePart, CleanupList, CleanupFile, HousekeepingFails, DeletePartFails,
         DeleteFails, CleanupFails, TimePasses, Crash, vars, rows

\* With one request at a time a published item stays published with the same
\* checksum as long as its row exists, even when it is uploaded again.
THEOREM SerialPublicationIsFinal == SerialSpec => PublicationIsFinal
<1>1. TypeInv /\ SerialInv /\ [SerialNext]_vars
      => [Published /\ item' # None /\ ~discarded'
            => Published' /\ item'.sha = item.sha]_vars
  BY PublicationStep
<1> QED BY <1>1, SerialInvariant, PTL DEF SerialSpec, PublicationIsFinal

-----------------------------------------------------------------------------
\* The file served is the one the row names, also while it is being deleted

\* A published row names the file that is stored, while that can be served.
NamesFile == Published => item.sha # None /\ (Servable => stored = item.sha)

\* What a handler at work contributes: the copy it admitted carries the checksum
\* of the published row, so a second upload is compared with the first; the part
\* it moves is the one it hashed, or is gone; the file it moved is the one it is
\* about to publish; and the copy it saves is that of the row.
Follows(q) ==
    /\ q.pc \in {"check", "write", "hash"} /\ Published => q.snap.sha = item.sha
    /\ q.pc = "move" => /\ q.sha # None /\ part \in {None, q.sha}
                        /\ Published => item.sha = q.sha
    /\ q.pc \in {"load", "save"} /\ q.sha # None =>
          /\ Servable => stored = q.sha
          /\ Published => item.sha = q.sha
    /\ q.pc = "save" /\ q.snap # None => item \in {None, q.snap}

SumInv == NamesFile /\ \A r \in Requests : Follows(req[r])

\* A step that leaves the stored file, and the row or removes it, still names it.
LEMMA NameStays ==
    ASSUME TypeInv, [Next]_vars, NamesFile, stored' = stored, item' \in {item, None}
    PROVE  NamesFile'
<1>1. Servable' => Servable
  BY ServableFalls
<1>2. Published' => Published /\ item' = item
  BY DEF Published
<1> QED BY <1>1, <1>2 DEF NamesFile

\* A step of the one handler keeps the invariant if it does for that handler.
LEMMA OneFollows ==
    ASSUME SerialInv, NEW r \in Requests,
           req[r].pc # "idle" \/ \A q \in Requests \ {r} : req[q].pc = "idle",
           \A q \in Requests \ {r} : req'[q] = req[q],
           NamesFile', Follows(req[r])'
    PROVE  SumInv'
<1>1. \A q \in Requests \ {r} : req'[q].pc = "idle"
  BY DEF SerialInv, AtMostOne
<1> QED BY <1>1 DEF SumInv, Follows

\* A handler that has no part in a publication, or none yet.
LEMMA NothingToFollow ==
    ASSUME TypeInv, SerialInv, SumInv, [Next]_vars, NEW r \in Requests,
           req[r].pc # "idle" \/ \A q \in Requests \ {r} : req[q].pc = "idle",
           \A q \in Requests \ {r} : req'[q] = req[q],
           req'[r].pc \in {"idle", "admit", "expire", "probe", "done"},
           stored' = stored, item' = item
    PROVE  SumInv'
<1>1. NamesFile'
  BY NameStays DEF SumInv
<1>2. Follows(req[r])'
  BY DEF Follows
<1> QED BY <1>1, <1>2, OneFollows

\* What the deletion, the cleanup and the clock do leaves it alone.
LEMMA RemovalFollows ==
    ASSUME SumInv, req' = req, part' \in {part, None}, item' \in {item, None},
           Servable' => Servable /\ stored' = stored
    PROVE  SumInv'
<1>1. Published' => Published /\ item' = item
  BY DEF Published
<1>2. NamesFile'
  BY <1>1 DEF SumInv, NamesFile
<1>3. ASSUME NEW r \in Requests PROVE Follows(req[r])'
  <2>1. Follows(req[r])
    BY DEF SumInv
  <2> QED BY <1>1, <2>1 DEF Follows
<1> QED BY <1>2, <1>3 DEF SumInv

\* The hash is compared with the copy, the copy with the row: an item that is
\* published is moved and saved again only as what it is.
LEMMA HashFollows ==
    ASSUME TypeInv, SerialInv, SumInv, [Next]_vars, NEW r \in Requests, Hash(r)
    PROVE  SumInv'
<1>1. /\ req[r].pc = "hash" /\ part # None
      /\ part' = part /\ stored' = stored /\ item' = item
      /\ IF HashMatches(req[r], part)
         THEN Conclude(r, "move", part) ELSE Answer(r, "bad")
  BY ONLY Hash(r) DEF Hash, At, disk, rows
<1>2. CASE HashMatches(req[r], part)
  <2>1. /\ req'[r].pc = "move" /\ req'[r].sha = part /\ req'[r].snap = None
        /\ \A q \in Requests \ {r} : req'[q] = req[q]
    <3>1. Conclude(r, "move", part)
      BY ONLY <1>1, <1>2
    <3> QED BY <3>1 DEF Conclude, NoRequest, TypeInv, TypeOK
  <2>2. Published => item.sha = part
    BY <1>1, <1>2 DEF HashMatches, SumInv, NamesFile, Follows
  <2>3. Follows(req[r])'
    BY <1>1, <2>1, <2>2 DEF Follows, Published
  <2>4. NamesFile'
    BY <1>1, NameStays DEF SumInv
  <2> QED BY <1>1, <2>1, <2>3, <2>4, OneFollows
<1>3. CASE ~HashMatches(req[r], part)
  <2>1. req'[r].pc = "done" /\ \A q \in Requests \ {r} : req'[q] = req[q]
    <3>1. Answer(r, "bad")
      BY ONLY <1>1, <1>3
    <3> QED BY <3>1 DEF Answer, NoRequest, TypeInv, TypeOK
  <2> QED BY <1>1, <2>1, NothingToFollow
<1> QED BY <1>2, <1>3

\* The move puts the hashed part where the row says it is.
LEMMA MoveFollows ==
    ASSUME TypeInv, SerialInv, SumInv, NEW r \in Requests, Move(r)
    PROVE  SumInv'
<1>1. /\ req[r].pc = "move" /\ part # None /\ stored' = part
      /\ UNCHANGED <<item, session>> /\ Conclude(r, "load", req[r].sha)
  BY ONLY Move(r) DEF Move, At, rows
<1>2. /\ req'[r].pc = "load" /\ req'[r].sha = req[r].sha /\ req'[r].snap = None
      /\ \A q \in Requests \ {r} : req'[q] = req[q]
  BY <1>1 DEF Conclude, NoRequest, TypeInv, TypeOK
<1>3. part = req[r].sha /\ (Published => item.sha = req[r].sha)
  BY <1>1 DEF SumInv, Follows
<1>4. NamesFile'
  BY <1>1, <1>3 DEF SumInv, NamesFile, Published
<1>5. Follows(req[r])'
  BY <1>1, <1>2, <1>3 DEF Follows, Published
<1> QED BY <1>1, <1>2, <1>4, <1>5, OneFollows

\* So do the other steps of a handler.
LEMMA HandlerFollows ==
    ASSUME TypeInv, SerialInv, SumInv, [Next]_vars, NEW r \in Requests,
           AdmitItem(r) \/ Check(r) \/ Write(r) \/ Load(r)
    PROVE  SumInv'
<1> USE DEF TypeInv, TypeOK
<1>1. /\ req[r].pc # "idle" /\ UNCHANGED <<stored, item, session>>
      /\ \/ req' = [req EXCEPT ![r].pc = "check", ![r].snap = item]
         \/ req[r].pc = "check" /\ \E pc \in {"write", "probe"} : Goto(r, pc)
         \/ req[r].pc = "write" /\ (Goto(r, "hash") \/ Conclude(r, "load", None))
         \/ /\ req[r].pc = "load"
            /\ req' = [req EXCEPT ![r].pc = "save", ![r].snap = item]
  BY ONLY AdmitItem(r) \/ Check(r) \/ Write(r) \/ Load(r)
     DEF AdmitItem, Check, Write, Load, At, disk, rows
<1>2. \A q \in Requests \ {r} : req'[q] = req[q]
  BY <1>1 DEF Goto, Conclude
<1>3. NamesFile'
  BY <1>1, NameStays DEF SumInv
<1>4. Follows(req[r]) /\ Published' = Published
  BY <1>1 DEF SumInv, Published
<1>5. Follows(req[r])'
  <2>1. CASE req' = [req EXCEPT ![r].pc = "check", ![r].snap = item]
    <3>1. req'[r].pc = "check" /\ req'[r].snap = item
      BY <2>1 DEF Handlers
    <3> QED BY <1>1, <3>1 DEF Follows
  <2>2. ASSUME NEW pc \in {"write", "probe", "hash"}, Goto(r, pc),
               req[r].pc \in {"check", "write"}
        PROVE  Follows(req[r])'
    <3>1. req'[r].pc = pc /\ req'[r].snap = req[r].snap
      BY <2>2 DEF Goto, Handlers
    <3> QED BY <1>1, <1>4, <2>2, <3>1 DEF Follows
  <2>3. CASE Conclude(r, "load", None)
    <3>1. req'[r].pc = "load" /\ req'[r].sha = None
      BY <2>3 DEF Conclude, NoRequest
    <3> QED BY <3>1 DEF Follows
  <2>4. CASE /\ req[r].pc = "load"
             /\ req' = [req EXCEPT ![r].pc = "save", ![r].snap = item]
    <3>1. req'[r].pc = "save" /\ req'[r].snap = item /\ req'[r].sha = req[r].sha
      BY <2>4 DEF Handlers
    <3>2. Servable' = Servable
      BY <1>1 DEF Servable
    <3> QED BY <1>1, <1>4, <2>4, <3>1, <3>2 DEF Follows
  <2> QED BY <1>1, <2>1, <2>2, <2>3, <2>4
<1> QED BY <1>1, <1>2, <1>3, <1>5, OneFollows

\* Saving writes the copy of the row back, or the checksum of what was moved.
LEMMA SaveFollows ==
    ASSUME TypeInv, SerialInv, SumInv, [Next]_vars, NEW r \in Requests,
           SaveProgress(r) \/ SaveCompleted(r)
    PROVE  SumInv'
<1>1. req[r].pc = "save" /\ Answer(r, "ok") /\ stored' = stored
  BY ONLY SaveProgress(r) \/ SaveCompleted(r) DEF SaveProgress, SaveCompleted, At, disk
<1>2. req'[r].pc = "done" /\ \A q \in Requests \ {r} : req'[q] = req[q]
  BY <1>1 DEF Answer, NoRequest, TypeInv, TypeOK
<1>3. Follows(req[r])'
  BY <1>2 DEF Follows
<1>4. Servable' => Servable
  BY ServableFalls
<1>5. Follows(req[r]) /\ NamesFile
  BY DEF SumInv
<1>6. NamesFile'
  <2>1. CASE SaveProgress(r)
    <3>1. /\ req[r].snap # None /\ item # None
          /\ item' = [req[r].snap EXCEPT !.status = "uploading"]
      BY <1>1, <2>1, MergesWhatIsThere DEF SaveProgress
    <3>2. req[r].snap = item /\ item \in Items
      BY <1>1, <1>5, <3>1 DEF Follows, TypeInv, TypeOK
    <3>3. item'.sha = item.sha /\ item'.path = item.path
      BY <3>1, <3>2 DEF Items
    <3> QED BY <1>1, <1>4, <1>5, <3>1, <3>3 DEF NamesFile, Published
  <2>2. CASE SaveCompleted(r)
    <3>1. req[r].sha # None /\ item'.sha = req[r].sha
      BY ONLY <2>2 DEF SaveCompleted
    <3> QED BY <1>1, <1>4, <1>5, <3>1 DEF NamesFile, Follows
  <2> QED BY <2>1, <2>2
<1> QED BY <1>1, <1>2, <1>3, <1>6, OneFollows

\* Every serial step keeps it.
LEMMA SumStep ==
    ASSUME TypeInv, SerialInv, SumInv, [SerialNext]_vars
    PROVE  SumInv'
<1>0. [Next]_vars
  BY SerialIsNext
<1>1. ASSUME NEW r \in Requests, NEW i, NEW j, AllIdle, Receive(r, i, j)
      PROVE  SumInv'
  <2>1. /\ req'[r].pc = "admit" /\ \A q \in Requests \ {r} : req'[q] = req[q]
        /\ \A q \in Requests : req[q].pc = "idle"
    BY <1>1 DEF Receive, NoRequest, AllIdle, At, TypeInv, TypeOK
  <2>2. stored' = stored /\ item' = item
    BY <1>1 DEF Receive, disk, rows
  <2> QED BY <1>0, <2>1, <2>2, NothingToFollow
<1>2. ASSUME NEW r \in Requests,
             \/ AdmitMissing(r) \/ AdmitExpired(r) \/ SaveExpired(r)
             \/ AnswerConflict(r) \/ PartVanished(r) \/ SaveMissing(r)
             \/ StepFails(r) \/ WriteFails(r) \/ Finish(r)
      PROVE  SumInv'
  <2>1. /\ stored' = stored /\ item' = item /\ req[r].pc # "idle"
        /\ \/ \E code : Answer(r, code)
           \/ Conclude(r, "expire", None)
           \/ req' = [req EXCEPT ![r] = NoRequest]
    BY ONLY <1>2 DEF AdmitMissing, AdmitExpired, SaveExpired, AnswerConflict,
       PartVanished, SaveMissing, StepFails, WriteFails, Finish, At, disk, rows
  <2>2. /\ \A q \in Requests \ {r} : req'[q] = req[q]
        /\ req'[r].pc \in {"idle", "expire", "done"}
    <3>1. CASE \E code : Answer(r, code)
      BY <3>1 DEF Answer, NoRequest, TypeInv, TypeOK
    <3>2. CASE Conclude(r, "expire", None)
      BY <3>2 DEF Conclude, NoRequest, TypeInv, TypeOK
    <3>3. CASE req' = [req EXCEPT ![r] = NoRequest]
      BY <3>3 DEF NoRequest, TypeInv, TypeOK
    <3> QED BY <2>1, <3>1, <3>2, <3>3
  <2> QED BY <1>0, <2>1, <2>2, NothingToFollow
<1>3. ASSUME NEW r \in Requests, AdmitItem(r) \/ Check(r) \/ Write(r) \/ Load(r)
      PROVE  SumInv'
  BY <1>0, <1>3, HandlerFollows
<1>4. ASSUME NEW r \in Requests, SaveProgress(r) \/ SaveCompleted(r) PROVE SumInv'
  BY <1>0, <1>4, SaveFollows
<1>5. ASSUME NEW r \in Requests, Hash(r) \/ Move(r) PROVE SumInv'
  BY <1>0, <1>5, HashFollows, MoveFollows
<1>6. CASE \/ DeleteStart \/ DeletePart \/ DeleteRow \/ CleanupList \/ CleanupFile
           \/ CleanupRow \/ TimePasses
  <2>1. req' = req /\ part' \in {part, None} /\ item' \in {item, None}
    BY ONLY <1>6 DEF DeleteStart, DeletePart, DeleteRow, CleanupList, CleanupFile,
       CleanupRow, TimePasses, RowsDeleted, disk, rows
  <2>2. Servable' => Servable
    BY <1>0, ServableFalls
  <2>3. CASE stored' = stored
    BY <2>1, <2>2, <2>3, RemovalFollows
  <2>4. CASE CleanupFile
    <3>1. ~Servable
      BY <2>4 DEF CleanupFile, SerialInv, CleanupIsDue, Servable
    <3> QED BY <2>1, <2>2, <3>1, RemovalFollows
  <2> QED BY <1>6, <2>3, <2>4 DEF DeleteStart, DeletePart, DeleteRow, CleanupList,
             CleanupRow, TimePasses, disk
<1>7. CASE Crash
  <2>1. \A r \in Requests : req'[r].pc = "idle"
    BY <1>7 DEF Crash, NoRequest
  <2>2. NamesFile'
    BY <1>0, <1>7, NameStays DEF SumInv, Crash, disk, rows
  <2> QED BY <2>1, <2>2 DEF SumInv, Follows
<1>8. CASE UNCHANGED vars
  BY <1>8, RemovalFollows DEF vars, Servable
<1>9. CASE HousekeepingFails
  <2>1. UNCHANGED <<part, stored, item, session, req, discarded>>
    BY <1>9, FailuresStop DEF disk, rows
  <2> QED BY <2>1, RemovalFollows DEF Servable
<1> QED
  BY <1>1, <1>2, <1>3, <1>4, <1>5, <1>6, <1>7, <1>8, <1>9
     DEF SerialNext, Handle, Fault, Housekeeping

\* With one request at a time the file served for a completed item is the one its
\* checksum names, also when the item is uploaded again and its parts are deleted
\* under the handler: the one file a second upload may put in its place is itself.
THEOREM SerialServedMatches == SerialSpec => []ServedMatchesChecksum
<1>1. Init => SumInv
  BY DEF Init, SumInv, NamesFile, Published, Follows, NoRequest
<1>2. TypeInv /\ SerialInv /\ SumInv /\ [SerialNext]_vars => SumInv'
  BY SumStep
<1>3. SumInv => ServedMatchesChecksum
  BY DEF SumInv, NamesFile, ServedMatchesChecksum
<1> QED BY <1>1, <1>2, <1>3, SerialInvariant, PTL DEF SerialSpec

-----------------------------------------------------------------------------
\* Refinement of UploadPromise

\* The two modules name the first bytes of the file alike.
LEMMA SameFirst ==
    ASSUME NEW n \in 0 .. Size
    PROVE  Slice(0, n) = Promise!First(n)
<1>1. n - 0 = n /\ \A k \in 1 .. n : 0 + k = k
  OBVIOUS
<1> QED BY <1>1 DEF Slice, Promise!First

\* Of nothing that is nothing.
LEMMA FirstOfNothing == Promise!First(0) = << >>
BY DEF Promise!First

\* Once withdrawn, always withdrawn.
LEMMA WithdrawnStays ==
    ASSUME TypeInv, [SerialNext]_vars, Withdrawn
    PROVE  Withdrawn'
<1>1. discarded => discarded'
  BY DEF SerialNext, Handle, Fault, Housekeeping, Receive, AdmitMissing, AdmitItem,
         AdmitExpired, SaveExpired, Check, AnswerConflict, Write, WriteFails, Hash, Move,
         PartVanished, Load, SaveMissing, SaveProgress, SaveCompleted, StepFails,
         Finish, DeleteStart, DeletePart, DeleteRow, CleanupList, CleanupFile,
         CleanupRow, HousekeepingFails, DeletePartFails, DeleteFails, CleanupFails,
         TimePasses, Crash, vars, rows
<1> QED BY <1>1, SerialIsNext, ServableFalls DEF Withdrawn

\* While the promise stands, its variables are the files and the publication.
LEMMA Standing ==
    ASSUME TypeInv, SerialInv, [SerialNext]_vars, ~Withdrawn, ~Withdrawn'
    PROVE  /\ Withdrawn = FALSE /\ Withdrawn' = FALSE
           /\ Published \in BOOLEAN /\ Published' \in BOOLEAN
           /\ Sound /\ ~discarded' /\ Servable /\ Servable'
<1>1. Published \in BOOLEAN
  BY SentinelAssumption DEF TypeInv, TypeOK, Items, Published
<1>2. Published' \in BOOLEAN
  BY SerialIsNext, TypeStep, SentinelAssumption DEF TypeInv, TypeOK, Items, Published
<1> QED BY <1>1, <1>2 DEF Withdrawn, SerialInv

\* A write is a reception.
LEMMA WriteIsAccept ==
    ASSUME TypeInv, SerialInv, [SerialNext]_vars, ~Withdrawn, ~Withdrawn',
           NEW r \in Requests, Write(r) \/ WriteFails(r)
    PROVE  Promise!Accept
<1>1. /\ Withdrawn = FALSE /\ Withdrawn' = FALSE /\ Sound
  BY Standing
<1>2. /\ Offset = req[r].from /\ req[r].from \in 0 .. Size
      /\ req[r].to \in req[r].from .. Size
  BY <1>1 DEF Write, WriteFails, At, Sound, HandlerSound, TypeInv, TypeOK, Ordered,
              Handlers
<1>3. \E m \in req[r].from .. req[r].to :
         part' = Existing \o Slice(req[r].from, m)
  <2>1. CASE Write(r)
    <3>1. req[r].to \in req[r].from .. req[r].to
      BY <1>2
    <3> QED BY <2>1, <3>1 DEF Write
  <2>2. CASE WriteFails(r)
    BY <2>2 DEF WriteFails
  <2> QED BY <2>1, <2>2
<1>4. PICK m \in req[r].from .. req[r].to :
         part' = Existing \o Slice(req[r].from, m)
  BY <1>3
<1>5. m \in 0 .. Size /\ req[r].from <= m
  BY <1>2, <1>4, SizeAssumption
<1>6. part' = Slice(0, m) /\ part' # None
  <2>1. part' = Slice(0, m)
    BY <1>1, <1>2, <1>4, AppendSound DEF Sound
  <2>2. Slice(0, m) \in Contents
    <3>1. 0 \in 0 .. Size /\ 0 <= m
      BY <1>5, SizeAssumption
    <3> QED BY <1>5, <3>1, SliceType
  <2> QED BY <2>1, <2>2, SentinelAssumption
<1>7. Existing = Promise!First(req[r].from)
  <2>1. CASE part = None
    BY <1>2, <2>1, FirstOfNothing DEF Offset, Existing
  <2>2. CASE part # None
    BY <1>1, <1>2, <2>2, SameFirst DEF Offset, Existing, Sound, PartSound
  <2> QED BY <2>1, <2>2
<1>8. Existing' = Promise!First(m)
  BY <1>5, <1>6, SameFirst DEF Existing
<1>9. stored' = stored /\ Published' = Published
  BY DEF Write, WriteFails, rows, Published
<1> QED BY <1>1, <1>2, <1>5, <1>7, <1>8, <1>9 DEF Promise!Accept

\* A move files the whole file.
LEMMA MoveIsFile ==
    ASSUME TypeInv, SerialInv, [SerialNext]_vars, ~Withdrawn, ~Withdrawn',
           NEW r \in Requests, Move(r)
    PROVE  Promise!File
<1>1. Withdrawn = FALSE /\ Withdrawn' = FALSE /\ Sound
  BY Standing
<1>2. part = Whole /\ Size > 0 /\ part # None
  BY <1>1 DEF Move, At, Sound, HandlerSound
<1>3. Whole = Promise!First(Size)
  <2>1. Size \in 0 .. Size
    BY SizeAssumption
  <2> QED BY <2>1, SameFirst DEF Whole
<1>4. stored' = Whole /\ Existing = Whole /\ Existing' = << >>
  BY <1>2 DEF Move, Existing
<1>5. Published' = Published
  BY DEF Move, rows, Published
<1> QED BY <1>1, <1>2, <1>3, <1>4, <1>5, FirstOfNothing DEF Promise!File

\* Saving the completed item publishes it.
LEMMA SaveIsPublish ==
    ASSUME TypeInv, SerialInv, [SerialNext]_vars, ~Withdrawn, ~Withdrawn',
           NEW r \in Requests, SaveCompleted(r)
    PROVE  Promise!Publish
<1>1. Withdrawn = FALSE /\ Withdrawn' = FALSE /\ Sound
  BY Standing
<1>2. stored # None
  <2>1. stored = Whole
    BY <1>1, Standing DEF SaveCompleted, At, Sound, HandlerSound, StoredSound
  <2>2. 0 \in 0 .. Size /\ Size \in 0 .. Size /\ 0 <= Size
    BY SizeAssumption
  <2>3. Whole \in Contents
    BY <2>2, SliceType DEF Whole
  <2> QED BY <2>1, <2>3, SentinelAssumption
<1>3. Published' = TRUE
  <2>1. item' \in Items \cup {None}
    BY SerialIsNext, TypeStep DEF TypeInv, TypeOK
  <2>2. item' # None
    <3>1. item'.path = TRUE /\ item' \in Items
      <4>1. req[r].sha \in Contents
        BY DEF SaveCompleted, TypeInv, TypeOK, Handlers
      <4>2. Len(req[r].sha) \in Nat
        BY <4>1, LenProperties DEF Contents
      <4> QED BY <4>1, <4>2 DEF SaveCompleted, Items, ItemStatus
    <3> QED BY <3>1, SentinelAssumption
  <2> QED BY <2>2 DEF SaveCompleted, Published
<1>4. Existing' = Existing /\ stored' = stored
  BY DEF SaveCompleted, disk, Existing
<1> QED BY <1>1, <1>2, <1>3, <1>4 DEF Promise!Publish

\* Saving progress leaves the promise alone.
LEMMA ProgressStutters ==
    ASSUME TypeInv, SerialInv, [SerialNext]_vars, ~Withdrawn, ~Withdrawn',
           NEW r \in Requests, SaveProgress(r)
    PROVE  UNCHANGED <<part, stored>> /\ Published' = Published
<1>1. Sound
  BY Standing
<1>2. req[r].snap = item /\ item \in Items /\ item # None
  BY <1>1, MergesWhatIsThere DEF SaveProgress, At, Sound, HandlerSound, TypeInv, TypeOK
<1>3. item' \in Items /\ item'.path = item.path
  BY <1>2 DEF SaveProgress, Items, ItemStatus
<1>4. item' # None
  BY <1>3, SentinelAssumption
<1> QED BY <1>2, <1>3, <1>4 DEF SaveProgress, disk, Published

\* A serial step is a step of the promise, or leaves it alone.
LEMMA PromiseStep ==
    ASSUME TypeInv, SerialInv, [SerialNext]_vars
    PROVE  [Promise!Next]_(Promise!promise)
<1>1. CASE Withdrawn
  <2>1. Withdrawn = TRUE /\ Withdrawn' = TRUE
    BY <1>1, WithdrawnStays DEF Withdrawn
  <2> QED BY <2>1 DEF Promise!promise
<1>2. CASE ~Withdrawn /\ Withdrawn'
  <2>1. Withdrawn = FALSE /\ Withdrawn' = TRUE
    BY <1>2 DEF Withdrawn
  <2>2. Promise!Withdraw
    BY <2>1, FirstOfNothing DEF Promise!Withdraw
  <2> QED BY <2>2 DEF Promise!Next
<1>3. CASE ~Withdrawn /\ ~Withdrawn'
  <2>1. /\ Sound /\ ~discarded' /\ Servable /\ Servable'
        /\ Withdrawn = FALSE /\ Withdrawn' = FALSE
    BY <1>3, Standing
  <2>2. ASSUME UNCHANGED <<part, stored>>, Published' = Published
        PROVE  UNCHANGED Promise!promise
    <3>1. Existing' = Existing /\ stored' = stored
      BY <2>2 DEF Existing
    <3> QED BY <2>1, <2>2, <3>1 DEF Promise!promise
  <2>3. CASE UNCHANGED <<part, stored, item>>
    <3>1. Published' = Published
      BY <2>3 DEF Published
    <3> QED BY <2>2, <2>3, <3>1
  <2>4. ASSUME NEW r \in Requests, \/ Write(r) \/ WriteFails(r) \/ Move(r)
                                   \/ SaveCompleted(r)
        PROVE  Promise!Next
    BY <1>3, <2>4, WriteIsAccept, MoveIsFile, SaveIsPublish DEF Promise!Next
  <2>5. ASSUME NEW r \in Requests, SaveProgress(r)
        PROVE  UNCHANGED Promise!promise
    BY <1>3, <2>2, <2>5, ProgressStutters
  <2>6. ~(DeleteRow \/ CleanupRow \/ DeletePart \/ CleanupFile)
    BY <2>1 DEF DeleteRow, CleanupRow, DeletePart, CleanupFile, RowsDeleted,
                Servable, SerialInv, CleanupIsDue, TypeInv, TypeOK, Sessions
  <2>7. \/ UNCHANGED <<part, stored, item>>
        \/ \E r \in Requests : \/ Write(r) \/ WriteFails(r) \/ Move(r)
                               \/ SaveProgress(r) \/ SaveCompleted(r)
        \/ DeleteRow \/ CleanupRow \/ DeletePart \/ CleanupFile
    BY DEF SerialNext, Handle, Fault, Housekeeping, Receive, AdmitMissing,
           AdmitItem, AdmitExpired, SaveExpired, Check, AnswerConflict, Hash, PartVanished,
           Load, SaveMissing, StepFails, Finish, DeleteStart, CleanupList,
           HousekeepingFails, DeletePartFails, DeleteFails, CleanupFails,
           TimePasses, Crash, vars, rows, disk
  <2> QED BY <2>3, <2>4, <2>5, <2>6, <2>7
<1> QED BY <1>1, <1>2, <1>3

\* With one request at a time the upload keeps its promise: a serial behaviour
\* of the handlers, faults and crashes included, is one of UploadPromise.
THEOREM SerialKeepsPromise == SerialSpec => KeepsPromise
<1>1. Init => Promise!Init
  BY FirstOfNothing DEF Init, Promise!Init, Withdrawn, Servable, Existing, Published
<1>2. TypeInv /\ SerialInv /\ [SerialNext]_vars => [Promise!Next]_(Promise!promise)
  BY PromiseStep
<1> QED BY <1>1, <1>2, SerialInvariant, PTL
        DEF SerialSpec, KeepsPromise, Promise!Spec

=============================================================================

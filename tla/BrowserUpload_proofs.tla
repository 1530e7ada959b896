------------------------- MODULE BrowserUpload_proofs -------------------------
(***************************************************************************)
(* Proofs about BrowserUpload: while no connection breaks under a handler, *)
(* the page is a client that waits for its answers, so that what is proved *)
(* of SerialSpec holds with it, and it calls a file ready only when it is  *)
(* published; for every Size, ChunkSize, MaxRetries and number of faults.  *)
(***************************************************************************)
EXTENDS BrowserUpload, ChunkUpload_proofs

\* No connection breaks while the handler is at work.
NeverCut == "connection" \notin LossKinds

-----------------------------------------------------------------------------
\* The engine and its request

ClientRecords ==
    [pc : {"start", "loop", "wait", "probe", "ready", "failed"},
     offset : 0 .. Size, attempt : 0 .. MaxRetries, cur : Requests \cup {None}]

ClientOK ==
    /\ client \in ClientRecords
    /\ client.pc # "failed" => client.attempt < MaxRetries
    /\ client.pc = "wait" => client.cur \in Requests /\ ~At(client.cur, "idle")

CountsOK == losses \in 0 .. MaxLosses /\ faults \in 0 .. MaxFaults

\* The one handler at work is that of the request the engine waits for.
Awaited == \A r \in Requests : ~At(r, "idle") => client.pc = "wait" /\ client.cur = r

\* The part is never longer than the file, also after it was discarded under a
\* handler about to append to it.
OffsetFits ==
    /\ Offset <= Size
    /\ \A r \in Requests : At(r, "write") => Offset <= req[r].from

PageInv == TypeInv /\ SerialInv /\ OffsetFits /\ ClientOK /\ Awaited /\ CountsOK

\* A piece the engine sends ends within the file.
LEMMA ChunkFits ==
    ASSUME ClientOK
    PROVE  ChunkEnd \in 0 .. Size /\ client.offset \in 0 .. Size
BY SizeAssumption, EngineAssumption DEF ClientOK, ClientRecords, ChunkEnd

\* What a step of a handler does to the handlers.
LEMMA HandlerStep ==
    ASSUME TypeInv, NEW r \in Requests, Handle(r) \/ Fault(r)
    PROVE  /\ ~At(r, "idle") /\ ~At(r, "idle")'
           /\ \A q \in Requests \ {r} : req'[q] = req[q]
<1> USE DEF TypeInv, TypeOK, At
<1>1. CASE AdmitItem(r) \/ Load(r) \/ Check(r)
  BY <1>1 DEF AdmitItem, Load, Check, Goto, Handlers
<1>2. ASSUME NEW code \in Codes, Answer(r, code), ~At(r, "idle")
      PROVE  ~At(r, "idle")' /\ \A q \in Requests \ {r} : req'[q] = req[q]
  BY <1>2 DEF Answer, NoRequest
<1>3. ASSUME NEW pc, NEW sha, Conclude(r, pc, sha), pc # "idle"
      PROVE  ~At(r, "idle")' /\ \A q \in Requests \ {r} : req'[q] = req[q]
  BY <1>3 DEF Conclude, NoRequest
<1>4. CASE Write(r)
  <2>1. ~At(r, "idle") /\ (Goto(r, "hash") \/ Conclude(r, "load", None))
    BY ONLY <1>4 DEF Write, At
  <2>2. CASE Goto(r, "hash")
    BY <2>1, <2>2 DEF Goto, Handlers
  <2> QED BY <1>3, <2>1, <2>2
<1>5. CASE Hash(r)
  <2>1. /\ ~At(r, "idle")
        /\ Conclude(r, "move", part) \/ Answer(r, "bad")
    BY ONLY <1>5 DEF Hash, At
  <2> QED BY <1>2, <1>3, <2>1 DEF Codes
<1>6. CASE Move(r)
  <2>1. ~At(r, "idle") /\ Conclude(r, "load", req[r].sha)
    BY ONLY <1>6 DEF Move, At
  <2> QED BY <1>3, <2>1
<1>7. CASE \/ AdmitMissing(r) \/ SaveExpired(r) \/ AnswerConflict(r) \/ PartVanished(r)
           \/ SaveMissing(r) \/ SaveProgress(r) \/ SaveCompleted(r) \/ Fault(r)
  <2>1. ~At(r, "idle")
    BY ONLY <1>7 DEF At, AdmitMissing, SaveExpired, AnswerConflict, PartVanished, SaveMissing,
                     SaveProgress, SaveCompleted, Fault, WriteFails, StepFails
  <2>2. \E code \in Codes : Answer(r, code)
    BY ONLY <1>7 DEF Codes, AdmitMissing, SaveExpired, AnswerConflict, PartVanished, SaveMissing,
                     SaveProgress, SaveCompleted, Fault, WriteFails, StepFails
  <2> QED BY <1>2, <2>1, <2>2
<1>8. CASE AdmitExpired(r)
  <2>1. ~At(r, "idle") /\ Conclude(r, "expire", None)
    BY ONLY <1>8 DEF AdmitExpired, At
  <2> QED BY <1>3, <2>1
<1> QED BY <1>1, <1>4, <1>5, <1>6, <1>7, <1>8 DEF Handle

\* The end of a handler.
LEMMA FinishStep ==
    ASSUME TypeInv, NEW r \in Requests, Finish(r)
    PROVE  /\ At(r, "done") /\ At(r, "idle")'
           /\ \A q \in Requests \ {r} : req'[q] = req[q]
BY DEF TypeInv, TypeOK, At, Finish, NoRequest

-----------------------------------------------------------------------------
\* The part fits

\* Appending a slice to the part adds its length.
LEMMA AppendedLength ==
    ASSUME TypeInv, NEW r \in Requests, NEW m \in req[r].from .. req[r].to
    PROVE  Len(Existing \o Slice(req[r].from, m)) = Offset + (m - req[r].from)
<1>1. /\ req[r].from \in 0 .. Size /\ req[r].to \in 0 .. Size
      /\ m \in req[r].from .. Size
  BY SizeAssumption DEF TypeInv, TypeOK, Ordered, Handlers
<1>2. /\ Slice(req[r].from, m) \in Contents
      /\ Len(Slice(req[r].from, m)) = m - req[r].from
  BY <1>1, SliceType
<1>3. Existing \in Contents /\ Len(Existing) = Offset
  BY EmptySeq DEF TypeInv, TypeOK, Existing, Contents, Offset
<1> QED BY <1>2, <1>3, ConcatProperties DEF Contents

\* A part that a handler appended to ends where its chunk does, at most.
LEMMA WriteFits ==
    ASSUME TypeInv, OffsetFits, NEW r \in Requests, At(r, "write"),
           NEW m \in req[r].from .. req[r].to,
           part' = Existing \o Slice(req[r].from, m)
    PROVE  Offset' <= Size
<1>1. part' # None
  BY AppendType, SentinelAssumption
<1>2. Offset' = Offset + (m - req[r].from)
  BY <1>1, AppendedLength DEF Offset
<1>3. /\ req[r].from \in Nat /\ req[r].to \in 0 .. Size /\ Offset \in Nat
      /\ Offset <= req[r].from
  BY SizeAssumption DEF TypeInv, TypeOK, Handlers, OffsetFits, Offset, Contents
<1> QED BY <1>2, <1>3, SizeAssumption

\* Every step of a serial client keeps the part within the file.
LEMMA OffsetStep ==
    ASSUME TypeInv, SerialInv, OffsetFits, [SerialNext]_vars
    PROVE  OffsetFits'
<1> USE DEF TypeInv, TypeOK, At
<1>1. ASSUME NEW r \in Requests, Write(r) \/ WriteFails(r) PROVE OffsetFits'
  <2>1. At(r, "write") /\ req'[r].pc # "write"
        /\ \A q \in Requests \ {r} : req'[q] = req[q]
    <3>1. /\ req[r].pc = "write"
          /\ \/ Goto(r, "hash") \/ Conclude(r, "load", None) \/ Answer(r, "error")
      BY ONLY <1>1 DEF Write, WriteFails, At
    <3>2. CASE Goto(r, "hash")
      BY <3>1, <3>2 DEF Goto, Handlers
    <3>3. CASE Conclude(r, "load", None)
      BY <3>1, <3>3 DEF Conclude, NoRequest
    <3>4. CASE Answer(r, "error")
      BY <3>1, <3>4 DEF Answer, NoRequest
    <3> QED BY <3>1, <3>2, <3>3, <3>4
  <2>2. Offset' <= Size
    <3>1. \E m \in req[r].from .. req[r].to : part' = Existing \o Slice(req[r].from, m)
      <4>1. req[r].to \in req[r].from .. req[r].to
        <5>1. req[r].from \in Nat /\ req[r].to \in Nat /\ req[r].from <= req[r].to
          BY SizeAssumption DEF Ordered, Handlers
        <5> QED BY <5>1
      <4> QED BY <1>1, <4>1 DEF Write, WriteFails
    <3> QED BY <2>1, <3>1, WriteFits
  <2>3. \A q \in Requests \ {r} : req[q].pc = "idle"
    BY <2>1 DEF SerialInv, AtMostOne
  <2> QED BY <2>1, <2>2, <2>3 DEF OffsetFits
<1>2. ASSUME NEW r \in Requests, Check(r) PROVE OffsetFits'
  <2>1. /\ part' = part /\ \A q \in Requests \ {r} : req'[q] = req[q]
        /\ req'[r].pc = "write" => Offset = req'[r].from
    BY <1>2 DEF Check, Goto, Handlers, disk
  <2>2. Offset' = Offset /\ Offset \in Nat
    BY <2>1, SizeAssumption DEF Offset, Contents
  <2> QED BY <2>1, <2>2 DEF OffsetFits
<1>3. ASSUME NEW r \in Requests, Move(r) PROVE OffsetFits'
  <2>1. part' = None /\ \A q \in Requests : req'[q].pc = "write" => req'[q] = req[q]
    BY <1>3 DEF Move, Conclude, NoRequest
  <2>2. Offset' = 0
    BY <2>1 DEF Offset
  <2>3. \A q \in Requests : req[q].from >= 0
    BY DEF Handlers
  <2> QED BY <2>1, <2>2, <2>3, SizeAssumption DEF OffsetFits
<1>4. CASE DeletePart
  <2>1. Offset' = 0 /\ req' = req
    BY <1>4 DEF DeletePart, Offset
  <2>2. \A q \in Requests : req[q].from >= 0
    BY DEF Handlers
  <2> QED BY <2>1, <2>2, SizeAssumption DEF OffsetFits
<1>5. ASSUME part' = part, \A q \in Requests : req'[q].pc = "write" => req'[q] = req[q]
      PROVE  OffsetFits'
  BY <1>5 DEF OffsetFits, Offset
<1>6. ASSUME NEW r \in Requests, NEW i, NEW j, Receive(r, i, j)
      PROVE  OffsetFits'
  BY <1>5, <1>6 DEF Receive, NoRequest, disk
<1>7. ASSUME NEW r \in Requests, Handle(r) \/ Fault(r) \/ Finish(r) PROVE OffsetFits'
  <2>1. CASE \/ AdmitMissing(r) \/ SaveExpired(r) \/ AnswerConflict(r) \/ PartVanished(r)
             \/ SaveMissing(r) \/ SaveProgress(r) \/ SaveCompleted(r) \/ StepFails(r)
    <3>1. part' = part
      BY ONLY <2>1 DEF AdmitMissing, SaveExpired, AnswerConflict, PartVanished, SaveMissing,
                       SaveProgress, SaveCompleted, StepFails, disk
    <3>2. PICK code : Answer(r, code)
      BY ONLY <2>1 DEF AdmitMissing, SaveExpired, AnswerConflict, PartVanished, SaveMissing,
                       SaveProgress, SaveCompleted, StepFails
    <3>3. \A q \in Requests : req'[q].pc = "write" => req'[q] = req[q]
      BY <3>2 DEF Answer, NoRequest
    <3> QED BY <1>5, <3>1, <3>3
  <2>2. CASE Hash(r)
    BY <2>2, <1>5 DEF Hash, Conclude, Answer, NoRequest, disk
  <2>5. CASE AdmitExpired(r)
    BY <2>5, <1>5 DEF AdmitExpired, Conclude, NoRequest, disk
  <2>4. CASE Finish(r)
    BY <2>4, <1>5 DEF Finish, NoRequest, disk
  <2>3. CASE AdmitItem(r) \/ Load(r)
    <3>1. part' = part /\ \A q \in Requests \ {r} : req'[q] = req[q]
      BY <2>3 DEF AdmitItem, Load, disk
    <3>2. req'[r].pc # "write"
      BY <2>3 DEF AdmitItem, Load, Handlers
    <3> QED BY <3>1, <3>2, <1>5
  <2> QED BY <1>7, <1>1, <1>2, <1>3, <2>1, <2>2, <2>3, <2>4, <2>5 DEF Handle, Fault
<1>8. CASE Housekeeping
  <2>1. CASE Crash
    BY <2>1, <1>5 DEF Crash, NoRequest, disk
  <2>2. CASE HousekeepingFails
    BY <2>2, <1>5, FailuresStop DEF disk
  <2>3. CASE ~DeletePart /\ ~Crash /\ ~HousekeepingFails
    BY <2>3, <1>8, <1>5 DEF Housekeeping, DeleteStart, DeleteRow, CleanupList, CleanupFile,
                            CleanupRow, TimePasses, disk
  <2> QED BY <2>1, <2>2, <2>3, <1>4
<1>9. CASE UNCHANGED vars
  BY <1>9, <1>5 DEF vars
<1> QED BY <1>6, <1>7, <1>8, <1>9 DEF SerialNext

-----------------------------------------------------------------------------
\* The page is a serial client

\* Another attempt, or the end.
LEMMA RetryKeeps ==
    ASSUME ClientOK, client.pc # "failed", Retry
    PROVE  /\ ClientOK' /\ client'.pc \in {"loop", "failed"}
           /\ client'.offset = client.offset
<1>1. client' = [client EXCEPT !.pc = IF client.attempt + 1 >= MaxRetries
                                      THEN "failed" ELSE "loop",
                               !.attempt = @ + 1, !.cur = None]
  BY DEF Retry
<1>2. client.attempt \in Nat /\ client.attempt < MaxRetries /\ MaxRetries \in Nat
  BY EngineAssumption DEF ClientOK, ClientRecords
<1>3. client.attempt + 1 \in 0 .. MaxRetries
  BY <1>2
<1>4. /\ client'.pc = IF client.attempt + 1 >= MaxRetries THEN "failed" ELSE "loop"
      /\ client'.offset = client.offset /\ client'.attempt = client.attempt + 1
  BY <1>1 DEF ClientOK, ClientRecords
<1>5. client' \in ClientRecords
  BY <1>1, <1>3 DEF ClientOK, ClientRecords
<1>6. client'.pc # "failed" => client'.attempt < MaxRetries
  BY <1>2, <1>4
<1> QED BY <1>4, <1>5, <1>6 DEF ClientOK

\* The next chunk.
LEMMA AdvanceKeeps ==
    ASSUME NEW offset \in 0 .. Size, Advance(offset)
    PROVE  ClientOK' /\ client'.pc = "loop" /\ client'.offset = offset
BY EngineAssumption DEF ClientOK, ClientRecords, Advance

\* The answer to a request, lost or not, leaves no handler at work.
LEMMA LastOneFinished ==
    ASSUME TypeInv, Awaited, NEW r \in Requests, Finish(r)
    PROVE  /\ client.pc = "wait" /\ client.cur = r
           /\ \A q \in Requests : At(q, "idle")'
BY FinishStep DEF Awaited, At

\* The steps of the engine and of the network, first those without a handler.
LEMMA QuietStep ==
    ASSUME PageInv, NeverCut,
           Begin \/ Probe \/ Ready \/ BeginLost \/ SendLost \/ ConnectionLost \/ ProbeLost
    PROVE  UNCHANGED vars /\ ClientOK' /\ Awaited' /\ CountsOK'
<1> USE DEF PageInv
<1>1. client.pc # "wait" /\ client.pc # "failed" /\ UNCHANGED vars
  BY DEF Begin, Probe, Ready, BeginLost, SendLost, ConnectionLost, ProbeLost, Lose, NeverCut
<1>2. CountsOK'
  BY EngineAssumption DEF CountsOK, Begin, Probe, Ready, BeginLost, SendLost, ConnectionLost,
                          ProbeLost, Lose
<1>3. Awaited'
  BY <1>1 DEF Awaited, At, vars
<1>4. ClientOK'
  <2>1. Offset \in 0 .. Size /\ 0 \in 0 .. Size
    BY SizeAssumption DEF OffsetFits, Offset, TypeInv, TypeOK, Contents
  <2>2. CASE Begin
    <3>1. CASE Size = 0
      BY <1>1, <2>2, <3>1 DEF Begin, ClientOK, ClientRecords
    <3>2. CASE Size # 0
      BY <2>1, <2>2, <3>2, AdvanceKeeps DEF Begin
    <3> QED BY <3>1, <3>2
  <2>3. CASE Probe
    BY <1>1, <2>1, <2>3, AdvanceKeeps, RetryKeeps DEF Probe
  <2>4. CASE Ready \/ BeginLost
    BY <1>1, <2>4 DEF Ready, BeginLost, ClientOK, ClientRecords
  <2>5. CASE SendLost \/ ProbeLost
    BY <1>1, <2>5, RetryKeeps DEF SendLost, ProbeLost
  <2>6. ~ConnectionLost
    BY DEF ConnectionLost, Lose, NeverCut
  <2> QED BY <2>2, <2>3, <2>4, <2>5, <2>6
<1> QED BY <1>1, <1>2, <1>3, <1>4

\* A request is sent when none is at work.
LEMMA SendStep ==
    ASSUME PageInv, NEW r \in Requests, Send(r)
    PROVE  SerialNext /\ ClientOK' /\ Awaited' /\ CountsOK'
<1> USE DEF PageInv
<1>1. client.pc = "loop" /\ Receive(r, client.offset, ChunkEnd)
  BY DEF Send
<1>2. AllIdle
  BY <1>1 DEF Awaited, AllIdle
<1>3. SerialNext
  BY <1>1, <1>2, ChunkFits DEF SerialNext
<1>4. /\ req'[r].pc = "admit" /\ \A q \in Requests \ {r} : req'[q].pc = "idle"
  BY <1>1, <1>2 DEF Receive, TypeInv, TypeOK, AllIdle, At, NoRequest
<1>5. client' = [client EXCEPT !.pc = "wait", !.cur = r] /\ UNCHANGED <<losses, faults>>
  BY DEF Send
<1>6. client'.pc = "wait" /\ client'.cur = r /\ client' \in ClientRecords
      /\ client'.attempt = client.attempt
  BY <1>5 DEF ClientOK, ClientRecords
<1>7. ClientOK'
  BY <1>1, <1>4, <1>6 DEF ClientOK, At
<1>8. Awaited'
  BY <1>4, <1>6 DEF Awaited, At
<1> QED BY <1>3, <1>5, <1>7, <1>8 DEF CountsOK

\* An answer arrives or is lost.
LEMMA AnswerStep ==
    ASSUME PageInv, NEW r \in Requests, Answered(r) \/ AnswerLost(r)
    PROVE  SerialNext /\ ClientOK' /\ Awaited' /\ CountsOK'
<1> USE DEF PageInv
<1>1. client.pc = "wait" /\ client.cur = r /\ Finish(r)
  BY DEF Answered, AnswerLost
<1>2. SerialNext /\ Awaited'
  BY <1>1, LastOneFinished DEF SerialNext, Awaited, At
<1>3. CountsOK'
  BY EngineAssumption DEF CountsOK, Answered, AnswerLost, Lose
<1>4. ClientOK'
  <2>1. CASE AnswerLost(r)
    BY <1>1, <2>1, RetryKeeps DEF AnswerLost
  <2>2. CASE Answered(r)
    <3>1. CASE req[r].code = "ok"
      BY <2>2, <3>1, ChunkFits, AdvanceKeeps DEF Answered
    <3>2. CASE req[r].code = "conflict"
      <4>1. client' = [client EXCEPT !.pc = "probe", !.cur = None]
        BY <2>2, <3>2 DEF Answered
      <4> QED BY <1>1, <4>1 DEF ClientOK, ClientRecords
    <3>3. CASE req[r].code \notin {"ok", "conflict"}
      BY <1>1, <2>2, <3>3, RetryKeeps DEF Answered
    <3> QED BY <3>1, <3>2, <3>3
  <2> QED BY <2>1, <2>2
<1> QED BY <1>2, <1>3, <1>4

\* The handler goes on, or fails.
LEMMA ServerStep ==
    ASSUME PageInv, NEW r \in Requests, Serve(r) \/ ServerFails(r)
    PROVE  SerialNext /\ ClientOK' /\ Awaited' /\ CountsOK' /\ client' = client
<1> USE DEF PageInv
<1>1. (Handle(r) \/ Fault(r)) /\ client' = client
  BY DEF Serve, ServerFails
<1>2. /\ ~At(r, "idle") /\ ~At(r, "idle")'
      /\ \A q \in Requests \ {r} : req'[q] = req[q]
  BY <1>1, HandlerStep
<1>3. SerialNext
  BY <1>1 DEF SerialNext
<1>4. client.pc = "wait" /\ client.cur = r
  BY <1>2 DEF Awaited
<1>5. ClientOK' /\ Awaited'
  BY <1>1, <1>2, <1>4 DEF ClientOK, Awaited, At
<1>6. CountsOK'
  BY EngineAssumption DEF Serve, ServerFails, CountsOK
<1> QED BY <1>1, <1>3, <1>5, <1>6

\* A crash ends the handler and breaks the connection to it.
LEMMA CrashStep ==
    ASSUME PageInv, ServerCrashes
    PROVE  SerialNext /\ ClientOK' /\ Awaited' /\ CountsOK'
<1> USE DEF PageInv
<1>1. Crash /\ \A r \in Requests : req'[r].pc = "idle"
  BY DEF ServerCrashes, Crash, NoRequest
<1>2. SerialNext
  BY <1>1 DEF SerialNext, Housekeeping
<1>3. Awaited'
  BY <1>1 DEF Awaited, At
<1>4. CountsOK'
  BY EngineAssumption DEF ServerCrashes, CountsOK
<1>5. ClientOK'
  <2>1. CASE client.pc = "wait"
    BY <2>1, RetryKeeps DEF ServerCrashes
  <2>2. CASE client.pc # "wait"
    BY <2>2 DEF ServerCrashes, ClientOK
  <2> QED BY <2>1, <2>2
<1> QED BY <1>2, <1>3, <1>4, <1>5

\* Deletion, cleanup and clock touch no handler.
LEMMA OthersStep ==
    ASSUME PageInv, Others
    PROVE  SerialNext /\ ClientOK' /\ Awaited' /\ CountsOK' /\ UNCHANGED <<client, req>>
<1> USE DEF PageInv
<1>1. UNCHANGED <<client, losses, faults, req>>
  BY FailuresStop
     DEF Others, DeleteStart, DeletePart, DeleteRow, CleanupList, CleanupFile, CleanupRow,
         TimePasses
<1>2. SerialNext
  BY DEF Others, SerialNext, Housekeeping
<1> QED BY <1>1, <1>2 DEF ClientOK, Awaited, CountsOK, At

\* Without cuts nobody is left who would answer no request.
LEMMA PageStep ==
    ASSUME NeverCut, PageInv, [BrowserNext]_bvars
    PROVE  [SerialNext]_vars /\ PageInv'
<1>1. [SerialNext]_vars /\ ClientOK' /\ Awaited' /\ CountsOK'
  <2>1. CASE Engine
    BY <2>1, QuietStep, SendStep, AnswerStep DEF Engine
  <2>2. CASE Network
    BY <2>2, QuietStep, AnswerStep DEF Network
  <2>3. ASSUME NEW r \in Requests, Serve(r) \/ ServerFails(r) \/ AnsweredNobody(r)
        PROVE  [SerialNext]_vars /\ ClientOK' /\ Awaited' /\ CountsOK'
    <3>1. ~AnsweredNobody(r)
      BY LastOneFinished DEF AnsweredNobody, PageInv
    <3> QED BY <2>3, <3>1, ServerStep
  <2>4. CASE ServerCrashes
    BY <2>4, CrashStep
  <2>5. CASE Others
    BY <2>5, OthersStep
  <2>6. CASE UNCHANGED bvars
    BY <2>6 DEF bvars, vars, PageInv, ClientOK, Awaited, CountsOK, At
  <2> QED BY <2>1, <2>2, <2>3, <2>4, <2>5, <2>6 DEF BrowserNext
<1>2. TypeInv' /\ SerialInv' /\ OffsetFits'
  BY <1>1, SerialIsNext, TypeStep, SerialStep, OffsetStep DEF PageInv
<1> QED BY <1>1, <1>2 DEF PageInv

\* So it is at the start ...
LEMMA PageInit == BrowserInit => PageInv
<1> SUFFICES ASSUME BrowserInit PROVE PageInv
  OBVIOUS
<1>1. TypeInv /\ SerialInv
  BY TypeInit, SerialInit DEF BrowserInit
<1>2. OffsetFits /\ Awaited
  BY SizeAssumption DEF BrowserInit, Init, OffsetFits, Offset, Awaited, At, NoRequest
<1>3. ClientOK /\ CountsOK
  BY SizeAssumption, EngineAssumption DEF BrowserInit, ClientOK, ClientRecords, CountsOK
<1> QED BY <1>1, <1>2, <1>3 DEF PageInv

\* ... and always, and the handlers see a serial client.
LEMMA PageInvariant == NeverCut => (BrowserSpec => []PageInv /\ [][SerialNext]_vars)
<1> SUFFICES ASSUME NeverCut PROVE BrowserSpec => []PageInv /\ [][SerialNext]_vars
  OBVIOUS
<1>1. PageInv /\ [BrowserNext]_bvars => PageInv' /\ [SerialNext]_vars
  BY PageStep
<1> QED BY <1>1, PageInit, PTL DEF BrowserSpec

\* Every variable keeps its kind: no answer, probe or retry takes the engine's
\* offset beyond the file or its attempts beyond their number.
THEOREM PageTypeCorrect == NeverCut => (BrowserSpec => []BrowserTypeOK)
<1> SUFFICES ASSUME NeverCut PROVE BrowserSpec => []BrowserTypeOK
  OBVIOUS
<1>1. PageInv => BrowserTypeOK
  BY DEF PageInv, BrowserTypeOK, TypeInv, ClientOK, ClientRecords, CountsOK
<1> QED BY <1>1, PageInvariant, PTL

\* The page waits for its answers: retries, probes, lost messages, failing
\* steps and crashes never give it two handlers at a time.
THEOREM PageIsSerial == NeverCut => (BrowserSpec => OneAtATime)
<1> SUFFICES ASSUME NeverCut PROVE BrowserSpec => OneAtATime
  OBVIOUS
<1>1. BrowserInit => Init
  BY DEF BrowserInit
<1> QED BY <1>1, PageInvariant, PTL DEF BrowserSpec, OneAtATime, SerialSpec

\* So page and server together keep the promise of an upload.
THEOREM PageKeepsPromise == NeverCut => (BrowserSpec => KeepsPromise)
<1> SUFFICES ASSUME NeverCut PROVE BrowserSpec => KeepsPromise
  OBVIOUS
<1> QED BY PageIsSerial, SerialKeepsPromise, PTL DEF OneAtATime

\* While no connection is cut under a working handler, what is served for a
\* completed item is the file its checksum names.
THEOREM PageServedMatches == NeverCut => (BrowserSpec => []ServedMatchesChecksum)
<1> SUFFICES ASSUME NeverCut PROVE BrowserSpec => []ServedMatchesChecksum
  OBVIOUS
<1> QED BY PageIsSerial, SerialServedMatches, PTL DEF OneAtATime

-----------------------------------------------------------------------------
\* What the page calls ready is published

\* Of the request the engine waits for, sent to end at e: it still carries that
\* piece, and one that ends the file comes back only with the publication.
Carries(q, e) ==
    /\ q.pc \in {"admit", "check", "write"} => q.to = e
    /\ e = Size => /\ q.pc \in {"load", "save"} => q.sha # None
                   /\ q.pc = "done" /\ q.code = "ok" => Published

ReadyInv ==
    /\ client.pc \in {"wait", "probe"} => client.offset < Size
    /\ ~Withdrawn =>
          /\ client.pc \in {"loop", "ready"} /\ client.offset >= Size => Published
          /\ client.pc = "wait" => Carries(req[client.cur], ChunkEnd)
          /\ client.pc = "ready" => client.offset >= Size

\* A row goes only when the session does.
LEMMA ItemStays ==
    ASSUME TypeInv, [SerialNext]_vars, item # None, ~Withdrawn'
    PROVE  item' # None
<1> USE SentinelAssumption DEF Withdrawn, Servable
<1>1. CASE DeleteRow \/ CleanupRow
  BY <1>1 DEF DeleteRow, CleanupRow, RowsDeleted, TypeInv, TypeOK, Sessions
<1>2. ASSUME NEW r \in Requests, SaveProgress(r) PROVE item' # None
  <2>1. req[r].snap \in Items /\ item' = [req[r].snap EXCEPT !.status = "uploading"]
    BY <1>2 DEF SaveProgress, Mergeable, TypeInv, TypeOK, Handlers
  <2>2. item' \in Items
    BY <2>1 DEF Items, ItemStatus
  <2> QED BY <2>2
<1>3. ASSUME NEW r \in Requests, SaveCompleted(r) PROVE item' # None
  <2>1. item' \in Items
    BY <1>3 DEF SaveCompleted, TypeInv, TypeOK, Handlers, Items, ItemStatus, Contents
  <2> QED BY <2>1
<1>4. CASE item' = item
  BY <1>4
<1>5. CASE HousekeepingFails
  BY <1>4, <1>5, FailuresStop DEF rows
<1> QED
  BY <1>1, <1>2, <1>3, <1>4, <1>5
     DEF SerialNext, Handle, Fault, Housekeeping, Receive, AdmitMissing, AdmitItem,
         AdmitExpired, SaveExpired, Check, AnswerConflict, Write, WriteFails, Hash, Move,
         PartVanished, Load, SaveMissing, StepFails, Finish, DeleteStart,
         DeletePart, CleanupList, CleanupFile, TimePasses, Crash, vars, rows

\* What is published stays so while the session stands.
LEMMA PublishedStays ==
    ASSUME TypeInv, SerialInv, [SerialNext]_vars, Published, ~Withdrawn'
    PROVE  Published'
BY ItemStays, PublicationStep DEF Published, Withdrawn

\* A handler keeps what it carries.
LEMMA HandlerCarries ==
    ASSUME TypeInv, TypeInv', SerialInv, Size # 0, ~Withdrawn, ~Withdrawn',
           NEW r \in Requests, NEW e, Carries(req[r], e), Handle(r) \/ Fault(r)
    PROVE  Carries(req[r], e)'
<1> USE DEF TypeInv, TypeOK, At
<1>0. HandlerSound(req[r]) /\ Size \in Nat
  BY SizeAssumption DEF SerialInv, Withdrawn, Sound
<1>1. CASE AdmitItem(r)
  <2>1. req'[r].pc = "check" /\ req'[r].to = req[r].to /\ req[r].pc = "admit"
    BY <1>1 DEF AdmitItem, Handlers
  <2> QED BY <2>1 DEF Carries
<1>2. CASE Check(r)
  <2>1. req'[r].pc \in {"write", "probe"} /\ req'[r].to = req[r].to /\ req[r].pc = "check"
    BY <1>2 DEF Check, Goto, Handlers
  <2> QED BY <2>1 DEF Carries
<1>3. CASE Write(r)
  <2>1. CASE LastChunk(req[r])
    <3>1. req'[r].pc = "hash"
      BY <1>3, <2>1 DEF Write, Goto, Handlers
    <3> QED BY <3>1 DEF Carries
  <2>2. CASE ~LastChunk(req[r])
    <3>1. req'[r].pc = "load"
      <4>1. Conclude(r, "load", None)
        BY <1>3, <2>2 DEF Write
      <4> QED BY <4>1 DEF Conclude, NoRequest
    <3>2. req[r].snap.size = Size /\ req[r].to = e
      BY <1>0, <1>3 DEF Write, HoldsItem, HandlerSound, Carries
    <3>3. e # Size
      BY <1>0, <2>2, <3>2 DEF LastChunk
    <3> QED BY <3>1, <3>3 DEF Carries
  <2> QED BY <2>1, <2>2
<1>4. CASE Hash(r)
  <2>1. req'[r].pc = "move" \/ (req'[r].pc = "done" /\ req'[r].code = "bad")
    <3>1. Conclude(r, "move", part) \/ Answer(r, "bad")
      BY <1>4 DEF Hash
    <3>2. CASE Conclude(r, "move", part)
      BY <3>2 DEF Conclude, NoRequest
    <3>3. CASE Answer(r, "bad")
      BY <3>3 DEF Answer, NoRequest
    <3> QED BY <3>1, <3>2, <3>3
  <2> QED BY <2>1 DEF Carries
<1>5. CASE Move(r)
  <2>1. req'[r].pc = "load" /\ req'[r].sha = req[r].sha /\ req[r].pc = "move"
    BY <1>5 DEF Move, Conclude, NoRequest
  <2>2. req[r].sha = Whole /\ Whole # None
    <3>1. 0 \in 0 .. Size /\ Size \in 0 .. Size
      BY <1>0
    <3>2. Whole \in Contents
      BY <3>1, SliceType DEF Whole
    <3> QED BY <1>0, <2>1, <3>2, SentinelAssumption DEF HandlerSound
  <2> QED BY <2>1, <2>2 DEF Carries
<1>6. CASE Load(r)
  <2>1. req'[r].pc = "save" /\ req'[r].sha = req[r].sha /\ req[r].pc = "load"
    BY <1>6 DEF Load, Handlers
  <2> QED BY <2>1 DEF Carries
<1>7. CASE SaveProgress(r)
  <2>1. e # Size /\ req'[r].pc = "done"
    BY <1>7 DEF SaveProgress, Carries, Answer, NoRequest
  <2> QED BY <2>1 DEF Carries
<1>8. CASE SaveCompleted(r)
  <2>1. req'[r].pc = "done" /\ item' \in Items /\ item'.path = TRUE
    BY <1>8 DEF SaveCompleted, Answer, NoRequest, Handlers, Items, ItemStatus, Contents
  <2>2. Published'
    BY <2>1, SentinelAssumption DEF Published
  <2> QED BY <2>1, <2>2 DEF Carries
<1>9. CASE \/ AdmitMissing(r) \/ SaveExpired(r) \/ AnswerConflict(r) \/ PartVanished(r)
           \/ SaveMissing(r) \/ Fault(r)
  <2>1. req'[r].pc = "done" /\ req'[r].code # "ok"
    <3>1. \E code \in Codes \ {"ok"} : Answer(r, code)
      BY <1>9 DEF AdmitMissing, SaveExpired, AnswerConflict, PartVanished, SaveMissing, Fault,
                  WriteFails, StepFails, Codes
    <3> QED BY <3>1 DEF Answer, NoRequest
  <2> QED BY <2>1 DEF Carries
<1>10. CASE AdmitExpired(r)
  <2>1. req'[r].pc = "expire"
    BY <1>10 DEF AdmitExpired, Conclude, NoRequest
  <2> QED BY <2>1 DEF Carries
<1> QED BY <1>1, <1>2, <1>3, <1>4, <1>5, <1>6, <1>7, <1>8, <1>9, <1>10 DEF Handle

\* With probes that go unanswered, every step keeps it.
LEMMA ReadyStep ==
    ASSUME NeverCut, ~ProbeAnswers, Size # 0, PageInv, ReadyInv, [BrowserNext]_bvars
    PROVE  ReadyInv'
<1> USE DEF PageInv
<1>1. [SerialNext]_vars /\ PageInv'
  BY PageStep
<1>2. ~Withdrawn' => ~Withdrawn /\ (Published => Published')
  BY <1>1, WithdrawnStays, PublishedStays
<1>3. /\ Size \in Nat /\ client.offset \in 0 .. Size /\ ChunkEnd \in 0 .. Size
  BY SizeAssumption, ChunkFits
<1>4. ASSUME client'.offset = client.offset, client.pc # "failed",
             client'.pc \in {"loop", "failed"}, client.pc = "loop" => client.offset < Size,
             client.pc \in {"wait", "probe", "loop"}
      PROVE  ReadyInv'
  BY <1>3, <1>4 DEF ReadyInv
<1>5. CASE Begin
  BY <1>3, <1>5, EngineAssumption DEF Begin, ProbeSucceeds, Advance, ReadyInv
<1>6. CASE Probe
  <2>1. client.pc = "probe" /\ Retry
    BY <1>6 DEF Probe, ProbeSucceeds
  <2> QED BY <1>4, <2>1, RetryKeeps
<1>7. CASE Ready
  <2>1. /\ client.pc = "loop" /\ client'.pc = "ready" /\ client'.offset = client.offset
        /\ client.offset >= Size
    BY <1>7 DEF Ready, ClientOK, ClientRecords
  <2> QED BY <1>2, <2>1 DEF ReadyInv
<1>8. ASSUME NEW r \in Requests, Send(r) PROVE ReadyInv'
  <2>1. /\ client' = [client EXCEPT !.pc = "wait", !.cur = r] /\ client.offset < Size
        /\ Receive(r, client.offset, ChunkEnd)
    BY <1>8 DEF Send
  <2>2. client'.pc = "wait" /\ client'.cur = r /\ client'.offset = client.offset
    BY <2>1 DEF ClientOK, ClientRecords
  <2>3. req'[r].pc = "admit" /\ req'[r].to = ChunkEnd
    BY <2>1 DEF Receive, NoRequest, TypeInv, TypeOK
  <2>4. ChunkEnd' = ChunkEnd
    BY <2>2 DEF ChunkEnd
  <2>5. Carries(req[client.cur], ChunkEnd)'
    BY <2>2, <2>3, <2>4 DEF Carries
  <2> QED BY <2>1, <2>2, <2>5 DEF ReadyInv
<1>9. ASSUME NEW r \in Requests, Answered(r) PROVE ReadyInv'
  <2>1. client.pc = "wait" /\ client.cur = r /\ req[r].pc = "done"
    BY <1>9 DEF Answered, Finish, At
  <2>2. CASE req[r].code = "ok"
    <3>1. client'.pc = "loop" /\ client'.offset = ChunkEnd
      BY <1>3, <1>9, <2>2, AdvanceKeeps DEF Answered
    <3>2. ~Withdrawn /\ ChunkEnd >= Size => Published
      BY <1>3, <2>1, <2>2 DEF ReadyInv, Carries
    <3> QED BY <1>2, <3>1, <3>2 DEF ReadyInv
  <2>3. CASE req[r].code = "conflict"
    <3>1. client'.pc = "probe" /\ client'.offset = client.offset
      BY <1>9, <2>3 DEF Answered, ClientOK, ClientRecords
    <3> QED BY <2>1, <3>1 DEF ReadyInv
  <2>4. CASE req[r].code \notin {"ok", "conflict"}
    BY <1>4, <1>9, <2>1, <2>4, RetryKeeps DEF Answered
  <2> QED BY <2>2, <2>3, <2>4
<1>10. ASSUME NEW r \in Requests, AnswerLost(r) PROVE ReadyInv'
  BY <1>4, <1>10, RetryKeeps DEF AnswerLost
<1>11. CASE BeginLost
  BY <1>11 DEF BeginLost, ClientOK, ClientRecords, ReadyInv
<1>12. CASE SendLost \/ ProbeLost
  BY <1>4, <1>12, RetryKeeps DEF SendLost, ProbeLost
<1>13. ASSUME NEW r \in Requests, Serve(r) \/ ServerFails(r) PROVE ReadyInv'
  <2>1. (Handle(r) \/ Fault(r)) /\ client' = client
    BY <1>13 DEF Serve, ServerFails
  <2>2. client.pc = "wait" /\ client.cur = r
    BY <2>1, HandlerStep DEF Awaited
  <2>3. ~Withdrawn' => Carries(req[r], ChunkEnd)'
    <3> SUFFICES ASSUME ~Withdrawn' PROVE Carries(req[r], ChunkEnd)'
      OBVIOUS
    <3>1. PICK e \in 0 .. Size : e = ChunkEnd /\ e = ChunkEnd'
      BY <1>3, <2>1 DEF ChunkEnd
    <3>2. Carries(req[r], e)
      BY <1>2, <2>2, <3>1 DEF ReadyInv
    <3>3. Carries(req[r], e)'
      BY <1>1, <1>2, <2>1, <3>2, HandlerCarries
    <3> QED BY <3>1, <3>3 DEF Carries
  <2> QED BY <2>1, <2>2, <2>3 DEF ReadyInv
<1>14. CASE ServerCrashes
  <2>1. CASE client.pc = "wait"
    BY <1>4, <1>14, <2>1, RetryKeeps DEF ServerCrashes
  <2>2. CASE client.pc # "wait"
    BY <1>2, <1>14, <2>2 DEF ServerCrashes, ReadyInv
  <2> QED BY <2>1, <2>2
<1>15. ASSUME UNCHANGED <<client, req>> PROVE ReadyInv'
  BY <1>2, <1>15 DEF ReadyInv, Carries, ChunkEnd
<1>16. CASE Others
  BY <1>15, <1>16, OthersStep
<1>17. CASE UNCHANGED bvars
  BY <1>15, <1>17 DEF bvars, vars
<1>18. ~ConnectionLost /\ \A r \in Requests : ~AnsweredNobody(r)
  BY LastOneFinished DEF ConnectionLost, Lose, NeverCut, AnsweredNobody
<1> QED
  BY <1>5, <1>6, <1>7, <1>8, <1>9, <1>10, <1>11, <1>12, <1>13, <1>14, <1>16, <1>17, <1>18
     DEF BrowserNext, Engine, Network

\* The page says that a file is transferred only when it is published, whole
\* and with its checksum: for any sizes of file and chunks, number of attempts,
\* losses of messages, failing steps and crashes.  Three things it takes: a file
\* that is not empty (an empty one has no last chunk), a connection that does not
\* break under its handler, and the probe unanswered, as the page sends it (one
\* answered after a failed finalization reports a part that is all there).
THEOREM ReadyIsPublished ==
    NeverCut /\ ~ProbeAnswers /\ Size # 0 => (BrowserSpec => []ReadyMeansStored)
<1> SUFFICES ASSUME NeverCut, ~ProbeAnswers, Size # 0
             PROVE  BrowserSpec => []ReadyMeansStored
  OBVIOUS
<1>1. BrowserInit => ReadyInv
  BY SizeAssumption DEF BrowserInit, ReadyInv
<1>2. PageInv /\ ReadyInv => ReadyMeansStored
  BY DEF PageInv, SerialInv, Sound, ItemSound, StoredSound, ReadyInv, ReadyMeansStored,
         Published, Withdrawn
<1>3. PageInv /\ ReadyInv /\ [BrowserNext]_bvars => ReadyInv'
  BY ReadyStep
<1> QED BY <1>1, <1>2, <1>3, PageInvariant, PTL DEF BrowserSpec

-----------------------------------------------------------------------------
\* An engine that gives up was given a reason

\* Of a handler of a session that stands: it has not found it expired, its copy
\* of the item holds no foreign checksum, and what it saves it has read.
Clean(q) ==
    /\ q.pc # "expire"
    /\ q.snap # None => q.snap.sha \in {None, Whole}
    /\ q.pc = "save" => q.snap # None

Unopposed ==
    /\ item # None /\ item.sha \in {None, Whole}
    /\ \A r \in Requests : Clean(req[r])

\* An answer the engine counts as an error.
Failing(q) == q.pc = "done" /\ q.code \notin {"ok", "conflict"}

\* Every attempt used up was met by a loss or a fault, the one that is failing
\* now included.
Charged ==
    /\ client.attempt <= losses + faults
    /\ client.pc = "wait" /\ Failing(req[client.cur])
          => client.attempt + 1 <= losses + faults

ReasonInv ==
    /\ client.pc = "start" => client.attempt = 0
    /\ client.pc = "failed" => client.attempt \in {0, MaxRetries}
    /\ ~Withdrawn => Unopposed /\ Charged

\* The whole file is a file.
LEMMA WholeIsThere == Whole # None
<1>1. 0 \in 0 .. Size /\ Size \in 0 .. Size
  BY SizeAssumption
<1> QED BY <1>1, SliceType, SentinelAssumption DEF Whole

\* While the session stands, a handler of a serial client answers with an error
\* only when one of its steps fails.
LEMMA HandlerUnopposed ==
    ASSUME TypeInv, SerialInv, Unopposed, ~Withdrawn,
           NEW r \in Requests, Handle(r)
    PROVE  /\ item'.sha \in {None, Whole}
           /\ Clean(req[r])'
           /\ ~Failing(req[r])'
<1> USE DEF TypeInv, TypeOK
<1>1. /\ HandlerSound(req[r]) /\ Clean(req[r])
      /\ session.row /\ ~session.due /\ item # None /\ item.sha \in {None, Whole}
  BY DEF SerialInv, Withdrawn, Servable, Sound, Unopposed
<1>2. ~(AdmitMissing(r) \/ AdmitExpired(r) \/ SaveExpired(r) \/ SaveMissing(r))
  BY ONLY <1>1 DEF AdmitMissing, AdmitExpired, SaveExpired, SaveMissing, Mergeable, At, Clean
<1>3. ~PartVanished(r)
  BY <1>1, WholeIsThere DEF PartVanished, At, HandlerSound
<1>4. ASSUME item' = item, req'[r].pc \notin {"expire", "save", "done"},
             req'[r].snap \in {None, item, req[r].snap}
      PROVE  /\ item'.sha \in {None, Whole}
             /\ Clean(req[r])'
             /\ ~Failing(req[r])'
  BY <1>1, <1>4 DEF Clean, Failing
<1>5. CASE AdmitItem(r)
  <2>1. item' = item /\ req'[r].pc = "check" /\ req'[r].snap = item
    BY <1>5 DEF AdmitItem, Handlers, rows
  <2> QED BY <1>4, <2>1
<1>6. CASE Check(r)
  <2>1. item' = item /\ req'[r].pc \in {"write", "probe"} /\ req'[r].snap = req[r].snap
    BY <1>6 DEF Check, Goto, Handlers, rows
  <2> QED BY <1>4, <2>1
<1>7. CASE Write(r)
  <2>1. item' = item /\ (Goto(r, "hash") \/ Conclude(r, "load", None))
    BY ONLY <1>7 DEF Write, rows
  <2>2. req'[r].pc \in {"hash", "load"} /\ req'[r].snap \in {None, req[r].snap}
    <3>1. CASE Goto(r, "hash")
      BY <3>1 DEF Goto, Handlers
    <3>2. CASE Conclude(r, "load", None)
      BY <3>2 DEF Conclude, NoRequest
    <3> QED BY <2>1, <3>1, <3>2
  <2> QED BY <1>4, <2>1, <2>2
<1>8. CASE Hash(r)
  <2>1. HashMatches(req[r], part)
    <3>1. req[r].pc = "hash" /\ req[r].snap # None
      BY <1>8 DEF Hash, At, HoldsItem
    <3> QED BY <1>1, <3>1 DEF Clean, HandlerSound, HashMatches
  <2>2. item' = item /\ Conclude(r, "move", part)
    BY ONLY <1>8, <2>1 DEF Hash, rows
  <2>3. req'[r].pc = "move" /\ req'[r].snap = None
    BY <2>2 DEF Conclude, NoRequest
  <2> QED BY <1>4, <2>2, <2>3
<1>9. CASE Move(r)
  <2>1. item' = item /\ Conclude(r, "load", req[r].sha)
    BY ONLY <1>9 DEF Move, rows
  <2>2. req'[r].pc = "load" /\ req'[r].snap = None
    BY <2>1 DEF Conclude, NoRequest
  <2> QED BY <1>4, <2>1, <2>2
<1>10. CASE Load(r)
  <2>1. item' = item /\ req'[r].pc = "save" /\ req'[r].snap = item
    BY <1>10 DEF Load, Handlers, rows
  <2> QED BY <1>1, <2>1 DEF Clean, Failing
<1>11. ASSUME NEW code \in {"ok", "conflict"}, Answer(r, code)
       PROVE  Clean(req[r])' /\ ~Failing(req[r])'
  <2>1. req'[r].pc = "done" /\ req'[r].snap = None /\ req'[r].code = code
    BY <1>11 DEF Answer, NoRequest
  <2> QED BY <1>11, <2>1 DEF Clean, Failing
<1>12. CASE AnswerConflict(r)
  <2>1. item' = item /\ Answer(r, "conflict")
    BY ONLY <1>1, <1>12 DEF AnswerConflict, rows
  <2> QED BY <1>1, <1>11, <2>1
<1>13. CASE SaveProgress(r)
  <2>1. /\ Answer(r, "ok") /\ req[r].snap # None
        /\ item' = [req[r].snap EXCEPT !.status = "uploading"]
    BY ONLY <1>13 DEF SaveProgress, Mergeable
  <2>2. item'.sha = req[r].snap.sha
    BY <2>1 DEF Handlers, Items
  <2> QED BY <1>1, <1>11, <2>1, <2>2 DEF Clean
<1>14. CASE SaveCompleted(r)
  <2>1. /\ Answer(r, "ok") /\ req[r].pc = "save" /\ req[r].sha # None
        /\ item'.sha = req[r].sha
    BY ONLY <1>14 DEF SaveCompleted, At
  <2> QED BY <1>1, <1>11, <2>1 DEF HandlerSound
<1> QED BY <1>2, <1>3, <1>5, <1>6, <1>7, <1>8, <1>9, <1>10, <1>12, <1>13, <1>14
        DEF Handle

\* No step of a serial client opposes it while the session stands.
LEMMA UnopposedStep ==
    ASSUME TypeInv, SerialInv, Unopposed, ~Withdrawn, ~Withdrawn', [SerialNext]_vars
    PROVE  Unopposed'
<1> USE DEF TypeInv, TypeOK
<1>1. item' # None
  BY ItemStays DEF Unopposed
<1>2. ASSUME NEW r \in Requests, \A q \in Requests \ {r} : req'[q] = req[q],
             Clean(req[r])', item'.sha \in {None, Whole}
      PROVE  Unopposed'
  BY <1>1, <1>2 DEF Unopposed, Clean
<1>3. ASSUME NEW r \in Requests, NEW i, NEW j, Receive(r, i, j) PROVE Unopposed'
  <2>1. /\ item' = item /\ req'[r].pc = "admit" /\ req'[r].snap = None
        /\ \A q \in Requests \ {r} : req'[q] = req[q]
    BY <1>3 DEF Receive, NoRequest, rows
  <2> QED BY <1>2, <2>1 DEF Unopposed, Clean
<1>4. ASSUME NEW r \in Requests, Handle(r) \/ Fault(r) PROVE Unopposed'
  <2>1. \A q \in Requests \ {r} : req'[q] = req[q]
    BY <1>4, HandlerStep
  <2>2. CASE Handle(r)
    BY <1>2, <2>1, <2>2, HandlerUnopposed
  <2>3. CASE Fault(r)
    <3>1. item' = item /\ Answer(r, "error")
      BY ONLY <2>3 DEF Fault, WriteFails, StepFails, rows
    <3>2. req'[r].pc = "done" /\ req'[r].snap = None
      BY <3>1 DEF Answer, NoRequest
    <3> QED BY <1>2, <2>1, <3>1, <3>2 DEF Unopposed, Clean
  <2> QED BY <1>4, <2>2, <2>3
<1>5. ASSUME NEW r \in Requests, Finish(r) PROVE Unopposed'
  <2>1. /\ item' = item /\ req'[r].pc = "idle" /\ req'[r].snap = None
        /\ \A q \in Requests \ {r} : req'[q] = req[q]
    BY <1>5 DEF Finish, NoRequest, rows
  <2> QED BY <1>2, <2>1 DEF Unopposed, Clean
<1>6. CASE Crash
  <2>1. item' = item /\ \A r \in Requests : req'[r] = NoRequest
    BY <1>6 DEF Crash, rows
  <2> QED BY <1>1, <2>1 DEF Unopposed, Clean, NoRequest
<1>7. CASE Housekeeping /\ ~Crash
  <2>1. item' \in {item, None} /\ req' = req
    BY ONLY <1>7, FailuresStop DEF Housekeeping, DeleteStart, DeletePart, DeleteRow, CleanupList,
       CleanupFile, CleanupRow, TimePasses, RowsDeleted, rows
  <2> QED BY <1>1, <2>1 DEF Unopposed, Clean
<1>8. CASE UNCHANGED vars
  BY <1>8 DEF vars, Unopposed, Clean
<1> QED BY <1>3, <1>4, <1>5, <1>6, <1>7, <1>8 DEF SerialNext

\* Another attempt is one more.
LEMMA RetryCounts ==
    ASSUME ClientOK, client.pc # "failed", Retry
    PROVE  /\ client'.pc \in {"loop", "failed"} /\ client'.attempt = client.attempt + 1
           /\ client'.pc = "failed" => client'.attempt = MaxRetries
<1>1. client.attempt \in Nat /\ client.attempt < MaxRetries /\ MaxRetries \in Nat
  BY EngineAssumption DEF ClientOK, ClientRecords
<1>2. /\ client'.pc = IF client.attempt + 1 >= MaxRetries THEN "failed" ELSE "loop"
      /\ client'.attempt = client.attempt + 1
  BY DEF Retry, ClientOK, ClientRecords
<1> QED BY <1>1, <1>2

\* With probes that are answered, every step keeps it.
LEMMA ReasonStep ==
    ASSUME NeverCut, ProbeAnswers, PageInv, ReasonInv, [BrowserNext]_bvars
    PROVE  ReasonInv'
<1> USE DEF PageInv
<1>1. [SerialNext]_vars /\ PageInv'
  BY PageStep
<1>2. ~Withdrawn' => ~Withdrawn /\ Unopposed /\ Unopposed' /\ Charged
  BY <1>1, WithdrawnStays, UnopposedStep DEF ReasonInv
<1>3. /\ client.attempt \in Nat /\ losses \in Nat /\ faults \in Nat
      /\ losses' \in Nat /\ faults' \in Nat
  BY <1>1, EngineAssumption DEF ClientOK, ClientRecords, CountsOK
<1>4. ASSUME Retry, client.pc # "failed",
             ~Withdrawn' => client.attempt + 1 <= losses' + faults'
      PROVE  ReasonInv'
  <2>1. /\ client'.pc \in {"loop", "failed"} /\ client'.attempt = client.attempt + 1
        /\ client'.pc = "failed" => client'.attempt = MaxRetries
    BY <1>4, RetryCounts
  <2> QED BY <1>2, <1>4, <2>1 DEF ReasonInv, Charged
<1>5. ASSUME client'.pc \notin {"start", "failed"}, client'.attempt \in {0, client.attempt},
             losses' + faults' >= losses + faults,
             ~Withdrawn' /\ client'.pc = "wait" => ~Failing(req[client.cur])'
      PROVE  ReasonInv'
  <2>1. ~Withdrawn' => client'.attempt <= losses' + faults'
    BY <1>2, <1>3, <1>5 DEF Charged
  <2> QED BY <1>2, <1>5, <2>1 DEF ReasonInv, Charged
<1>6. CASE Begin
  <2>1. client'.pc \in {"ready", "loop"} /\ client'.attempt \in {0, client.attempt}
    BY <1>6 DEF Begin, Advance, ClientOK, ClientRecords
  <2>2. losses' + faults' >= losses + faults
    BY <1>3, <1>6 DEF Begin
  <2> QED BY <1>5, <2>1, <2>2
<1>7. CASE Probe
  <2>1. client.pc = "probe" /\ UNCHANGED <<session, item, losses, faults>>
    BY <1>7 DEF Probe, vars, rows
  <2>2. CASE ProbeSucceeds
    <3>1. client'.pc = "loop" /\ client'.attempt = 0
      BY <1>7, <2>2 DEF Probe, Advance
    <3> QED BY <1>3, <1>5, <2>1, <3>1
  <2>3. CASE ~ProbeSucceeds
    <3>1. Withdrawn'
      BY <1>2, <2>1, <2>3 DEF ProbeSucceeds, Withdrawn, Servable, Unopposed
    <3>2. Retry
      BY <1>7, <2>3 DEF Probe
    <3> QED BY <1>4, <2>1, <3>1, <3>2
  <2> QED BY <2>2, <2>3
<1>8. CASE Ready
  <2>1. /\ client'.pc = "ready" /\ client'.attempt = client.attempt
        /\ UNCHANGED <<losses, faults>>
    BY <1>8 DEF Ready, ClientOK, ClientRecords
  <2> QED BY <1>3, <1>5, <2>1
<1>9. ASSUME NEW r \in Requests, Send(r) PROVE ReasonInv'
  <2>1. /\ client' = [client EXCEPT !.pc = "wait", !.cur = r]
        /\ Receive(r, client.offset, ChunkEnd) /\ UNCHANGED <<losses, faults>>
    BY <1>9 DEF Send
  <2>2. client'.pc = "wait" /\ client'.cur = r /\ client'.attempt = client.attempt
    BY <2>1 DEF ClientOK, ClientRecords
  <2>3. req'[r].pc = "admit"
    BY <2>1 DEF Receive, NoRequest, TypeInv, TypeOK
  <2>4. ~Failing(req[client.cur])'
    BY <2>2, <2>3 DEF Failing
  <2> QED BY <1>3, <1>5, <2>1, <2>2, <2>4
<1>10. ASSUME NEW r \in Requests, Answered(r) PROVE ReasonInv'
  <2>1. /\ client.pc = "wait" /\ client.cur = r /\ req[r].pc = "done"
        /\ UNCHANGED <<losses, faults>>
    BY <1>10 DEF Answered, Finish, At
  <2>2. CASE req[r].code = "ok"
    <3>1. client'.pc = "loop" /\ client'.attempt = 0
      BY <1>10, <2>2 DEF Answered, Advance
    <3> QED BY <1>3, <1>5, <2>1, <3>1
  <2>3. CASE req[r].code = "conflict"
    <3>1. client'.pc = "probe" /\ client'.attempt = client.attempt
      BY <1>10, <2>3 DEF Answered, ClientOK, ClientRecords
    <3> QED BY <1>3, <1>5, <2>1, <3>1
  <2>4. CASE req[r].code \notin {"ok", "conflict"}
    <3>1. Retry
      BY <1>10, <2>4 DEF Answered
    <3>2. ~Withdrawn' => client.attempt + 1 <= losses' + faults'
      BY <1>2, <2>1, <2>4 DEF Charged, Failing
    <3> QED BY <1>4, <2>1, <3>1, <3>2
  <2> QED BY <2>2, <2>3, <2>4
<1>11. CASE SendLost \/ ProbeLost \/ \E r \in Requests : AnswerLost(r)
  <2>1. Retry /\ client.pc # "failed" /\ losses' = losses + 1 /\ faults' = faults
    BY <1>11 DEF AnswerLost, SendLost, ProbeLost, Lose
  <2>2. ~Withdrawn' => client.attempt + 1 <= losses' + faults'
    BY <1>2, <1>3, <2>1 DEF Charged
  <2> QED BY <1>4, <2>1, <2>2
<1>12. CASE BeginLost
  <2>1. /\ client'.pc = "failed" /\ client'.attempt = 0
        /\ losses' = losses + 1 /\ faults' = faults
    BY <1>12 DEF BeginLost, Lose, ClientOK, ClientRecords, ReasonInv
  <2>2. client'.attempt <= losses' + faults'
    BY <1>3, <2>1
  <2> QED BY <1>2, <2>1, <2>2 DEF ReasonInv, Charged
<1>13. ASSUME NEW r \in Requests, Serve(r) \/ ServerFails(r) PROVE ReasonInv'
  <2>1. (Handle(r) \/ Fault(r)) /\ client' = client /\ losses' = losses
    BY <1>13 DEF Serve, ServerFails
  <2>2. client.pc = "wait" /\ client.cur = r
    BY <2>1, HandlerStep DEF Awaited
  <2>3. CASE Serve(r)
    <3>1. ~Withdrawn' => ~Failing(req[client.cur])'
      BY <1>2, <2>2, <2>3, HandlerUnopposed DEF Serve
    <3>2. faults' = faults
      BY <2>3 DEF Serve
    <3> QED BY <1>3, <1>5, <2>1, <2>2, <3>1, <3>2
  <2>4. CASE ServerFails(r)
    <3>1. faults' = faults + 1
      BY <2>4 DEF ServerFails
    <3>2. ~Withdrawn' => client.attempt + 1 <= losses' + faults'
      BY <1>2, <1>3, <2>1, <3>1 DEF Charged
    <3>3. ~Withdrawn' => client.attempt <= losses' + faults'
      BY <1>2, <1>3, <2>1, <3>1 DEF Charged
    <3> QED BY <1>2, <2>1, <2>2, <3>2, <3>3 DEF ReasonInv, Charged
  <2> QED BY <1>13, <2>3, <2>4
<1>14. CASE ServerCrashes
  <2>1. losses' = losses /\ faults' = faults + 1
    BY <1>14 DEF ServerCrashes
  <2>2. CASE client.pc = "wait"
    <3>1. ~Withdrawn' => client.attempt + 1 <= losses' + faults'
      BY <1>2, <1>3, <2>1 DEF Charged
    <3> QED BY <1>4, <1>14, <2>2, <3>1 DEF ServerCrashes
  <2>3. CASE client.pc # "wait"
    <3>1. client' = client
      BY <1>14, <2>3 DEF ServerCrashes
    <3>2. ~Withdrawn' => client.attempt <= losses' + faults'
      BY <1>2, <1>3, <2>1 DEF Charged
    <3> QED BY <1>2, <2>3, <3>1, <3>2 DEF ReasonInv, Charged
  <2> QED BY <2>2, <2>3
<1>15. ASSUME UNCHANGED <<client, req, losses, faults>> PROVE ReasonInv'
  BY <1>2, <1>15 DEF ReasonInv, Charged, Failing
<1>16. CASE Others
  <2>1. UNCHANGED <<client, req, losses, faults>>
    BY <1>16, OthersStep DEF Others
  <2> QED BY <1>15, <2>1
<1>17. CASE UNCHANGED bvars
  BY <1>15, <1>17 DEF bvars, vars
<1>18. ~ConnectionLost /\ \A r \in Requests : ~AnsweredNobody(r)
  BY LastOneFinished DEF ConnectionLost, Lose, NeverCut, AnsweredNobody
<1> QED
  BY <1>6, <1>7, <1>8, <1>9, <1>10, <1>11, <1>12, <1>13, <1>14, <1>16, <1>17, <1>18
     DEF BrowserNext, Engine, Network

\* The engine fails only for a reason once its probe is answered: unless the session
\* is withdrawn, as many messages were lost or steps failed as it has attempts.  A
\* conflict, an answer the engine never saw, a second upload of what is already
\* there cost it nothing.
THEOREM FailureHasAReason ==
    NeverCut /\ ProbeAnswers => (BrowserSpec => []FailsForAReason)
<1> SUFFICES ASSUME NeverCut, ProbeAnswers PROVE BrowserSpec => []FailsForAReason
  OBVIOUS
<1>1. BrowserInit => ReasonInv
  <2> SUFFICES ASSUME BrowserInit PROVE ReasonInv
    OBVIOUS
  <2>1. item # None /\ item.sha = None
    <3>1. item \in Items /\ item.sha = None
      BY SizeAssumption DEF BrowserInit, Init, Items, ItemStatus
    <3> QED BY <3>1, SentinelAssumption
  <2> QED BY <2>1 DEF BrowserInit, Init, ReasonInv, Unopposed, Clean, Charged, NoRequest
<1>2. PageInv /\ ReasonInv => FailsForAReason
  BY EngineAssumption
     DEF PageInv, ReasonInv, Charged, FailsForAReason, ClientOK, ClientRecords
<1>3. PageInv /\ ReasonInv /\ [BrowserNext]_bvars => ReasonInv'
  BY ReasonStep
<1> QED BY <1>1, <1>2, <1>3, PageInvariant, PTL DEF BrowserSpec

=============================================================================

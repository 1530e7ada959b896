---------------------------- MODULE BrowserUpload ----------------------------
(***************************************************************************)
(* The chunk upload engine of the web page (static/app.js,                 *)
(* uploadFileResumable, after the item has been initialised) driving the   *)
(* handlers of ChunkUpload over a network that loses requests and answers. *)
(*                                                                         *)
(* The page sends one PATCH at a time and repeats it up to MaxRetries      *)
(* times; the pause between two attempts takes no step here.  It declares  *)
(* no checksum.  A fetch has no timeout: it ends with an answer or when    *)
(* the connection breaks.                                                  *)
(***************************************************************************)
EXTENDS ChunkUpload

CONSTANTS
    ChunkSize,      \* CHUNK_SIZE, 4 MiB in the page
    MaxRetries,     \* MAX_RETRIES, 5 in the page
    ProbeAnswers,   \* is GET .../offset, which the page sends without its
                    \* token, answered?  FALSE: 401, as get_current_user has
                    \* it; TRUE: 200, as tests/api/test_resumable_api.py has it
    LossKinds,      \* what the network may lose: "request", "answer", or
                    \* "connection" (while the handler is still at work)
    MaxLosses,      \* bound on the losses
    MaxFaults       \* bound on the failing steps of the server's handlers and
                    \* its crashes; 0: nothing fails there

ASSUME EngineAssumption ==
    /\ ChunkSize \in Nat \ {0}
    /\ MaxRetries \in Nat \ {0}
    /\ ProbeAnswers \in BOOLEAN
    /\ LossKinds \subseteq {"request", "answer", "connection"}
    /\ MaxLosses \in Nat /\ MaxFaults \in Nat
    /\ None \notin Requests

VARIABLES
    client,     \* where the engine stands, its offset and attempt, and the
                \* handler of the request it waits for
    losses,     \* how many messages the network has lost
    faults      \* how many failing steps its handlers and how many crashes
                \* the server has had

bvars == <<vars, client, losses, faults>>

BrowserInit ==
    /\ Init
    /\ declared = None
    /\ client = [pc |-> "start", offset |-> 0, attempt |-> 0, cur |-> None]
    /\ losses = 0
    /\ faults = 0

-----------------------------------------------------------------------------
\* The engine

ChunkEnd ==
    IF client.offset + ChunkSize <= Size THEN client.offset + ChunkSize ELSE Size

\* success: the next chunk starts at the offset the server reported.
Advance(offset) ==
    client' = [pc |-> "loop", offset |-> offset, attempt |-> 0, cur |-> None]

\* Mutant: off by one in the number of attempts.
RetryOnceMore ==
    client' = [client EXCEPT
                 !.pc = IF client.attempt + 1 > MaxRetries
                        THEN "failed" ELSE "loop",
                 !.attempt = @ + 1,
                 !.cur = None]

\* catch (err): another attempt at the same chunk, or the end.
Retry ==
    client' = [client EXCEPT
                 !.pc = IF client.attempt + 1 >= MaxRetries
                        THEN "failed" ELSE "loop",
                 !.attempt = @ + 1,
                 !.cur = None]

Lose(kind) ==
    /\ kind \in LossKinds
    /\ losses < MaxLosses
    /\ losses' = losses + 1

\* What a probe of the offset finds, when it is answered.
ProbeSucceeds == ProbeAnswers /\ session.row /\ item # None

\* An empty file is declared ready at once; any other is probed first, and an
\* unanswered probe counts as offset 0.
Begin ==
    /\ client.pc = "start"
    /\ IF Size = 0
       THEN client' = [client EXCEPT !.pc = "ready"]
       ELSE Advance(IF ProbeSucceeds THEN Offset ELSE 0)
    /\ UNCHANGED <<vars, losses, faults>>

\* The first probe is outside the try block: without a network it throws.
BeginLost ==
    /\ client.pc = "start"
    /\ Size # 0
    /\ Lose("request")
    /\ client' = [client EXCEPT !.pc = "failed"]
    /\ UNCHANGED <<vars, faults>>

\* Mutant: the next chunk is sent without waiting for the answer.
SendEarly(r) ==
    /\ client.pc \in {"loop", "wait"}
    /\ client.offset < Size
    /\ Receive(r, client.offset, ChunkEnd)
    /\ client' = [client EXCEPT !.pc = "wait", !.cur = r]
    /\ UNCHANGED <<losses, faults>>

\* PATCH the current chunk.
Send(r) ==
    /\ client.pc = "loop"
    /\ client.offset < Size
    /\ Receive(r, client.offset, ChunkEnd)
    /\ client' = [client EXCEPT !.pc = "wait", !.cur = r]
    /\ UNCHANGED <<losses, faults>>

SendLost ==
    /\ client.pc = "loop"
    /\ client.offset < Size
    /\ Lose("request")
    /\ Retry
    /\ UNCHANGED <<vars, faults>>

\* Mutant: response.ok is not looked at.
AnsweredAnyhow(r) ==
    /\ client.pc = "wait" /\ client.cur = r
    /\ Finish(r)
    /\ IF req[r].code = "conflict"
       THEN client' = [client EXCEPT !.pc = "probe", !.cur = None]
       ELSE Advance(ChunkEnd)
    /\ UNCHANGED <<losses, faults>>

\* The answer arrives: go on, probe the offset, or try again.
Answered(r) ==
    /\ client.pc = "wait" /\ client.cur = r
    /\ Finish(r)
    /\ CASE req[r].code = "ok"       -> Advance(ChunkEnd)
         [] req[r].code = "conflict" -> client' = [client EXCEPT !.pc = "probe",
                                                                 !.cur = None]
         [] OTHER                    -> Retry
    /\ UNCHANGED <<losses, faults>>

AnswerLost(r) ==
    /\ client.pc = "wait" /\ client.cur = r
    /\ Finish(r)
    /\ Lose("answer")
    /\ Retry
    /\ UNCHANGED faults

\* The connection breaks; the handler runs on, for nobody.
ConnectionLost ==
    /\ client.pc = "wait"
    /\ ~At(client.cur, "done")
    /\ Lose("connection")
    /\ Retry
    /\ UNCHANGED <<vars, faults>>

AnsweredNobody(r) ==
    /\ client.cur # r
    /\ Finish(r)
    /\ UNCHANGED <<client, losses, faults>>

\* Mutant: after a conflict the chunk is sent again whatever the probe says.
ProbeIgnored ==
    /\ client.pc = "probe"
    /\ IF ProbeSucceeds THEN Advance(client.offset) ELSE Retry
    /\ UNCHANGED <<vars, losses, faults>>

\* After a 409 the engine probes the offset and leaves the retry loop with it.
Probe ==
    /\ client.pc = "probe"
    /\ IF ProbeSucceeds THEN Advance(Offset) ELSE Retry
    /\ UNCHANGED <<vars, losses, faults>>

ProbeLost ==
    /\ client.pc = "probe"
    /\ Lose("request")
    /\ Retry
    /\ UNCHANGED <<vars, faults>>

\* while (offset < file.size) ends.
Ready ==
    /\ client.pc = "loop"
    /\ client.offset >= Size
    /\ client' = [client EXCEPT !.pc = "ready"]
    /\ UNCHANGED <<vars, losses, faults>>

Engine == Begin \/ Probe \/ Ready \/ \E r \in Requests : Send(r) \/ Answered(r)

Network ==
    \/ BeginLost \/ SendLost \/ ConnectionLost \/ ProbeLost
    \/ \E r \in Requests : AnswerLost(r)

-----------------------------------------------------------------------------
\* The server

Serve(r) == Handle(r) /\ UNCHANGED <<client, losses, faults>>

ServerFails(r) ==
    /\ Fault(r)
    /\ faults < MaxFaults
    /\ faults' = faults + 1
    /\ UNCHANGED <<client, losses>>

\* A crash breaks the connection of the request in progress, if any.
ServerCrashes ==
    /\ faults < MaxFaults
    /\ Crash
    /\ faults' = faults + 1
    /\ IF client.pc = "wait" THEN Retry ELSE UNCHANGED client
    /\ UNCHANGED losses

\* The rest of ChunkUpload's Housekeeping.  What fails there is not counted,
\* since no request meets it.
Others ==
    /\ \/ DeleteStart \/ DeletePart \/ DeleteRow
       \/ CleanupList \/ CleanupFile \/ CleanupRow
       \/ MaxFaults > 0 /\ HousekeepingFails
       \/ TimePasses
    /\ UNCHANGED <<client, losses, faults>>

BrowserNext ==
    \/ Engine
    \/ Network
    \/ \E r \in Requests : Serve(r) \/ ServerFails(r) \/ AnsweredNobody(r)
    \/ ServerCrashes
    \/ Others

\* The page runs while it has something to do, and the event loop runs every
\* handler to its end, a deletion that has begun included.  Nothing is assumed
\* of losses, faults, the cleanup, the clock or the owner's wish to delete.
Deletion == (DeletePart \/ DeleteRow) /\ UNCHANGED <<client, losses, faults>>

Fairness ==
    /\ WF_bvars(Engine)
    /\ \A r \in Requests : WF_bvars(Serve(r)) /\ WF_bvars(AnsweredNobody(r))
    /\ WF_bvars(Deletion)

BrowserSpec == BrowserInit /\ [][BrowserNext]_bvars /\ Fairness

-----------------------------------------------------------------------------
\* Properties

\* The engine's record and the counters hold values of their kind.
BrowserTypeOK ==
    /\ TypeOK
    /\ client \in [pc : {"start", "loop", "wait", "probe", "ready", "failed"},
                   offset : 0 .. Size, attempt : 0 .. MaxRetries,
                   cur : Requests \cup {None}]
    /\ losses \in 0 .. MaxLosses
    /\ faults \in 0 .. MaxFaults

\* The page says "All files transferred and verified!" (app.js) only of a file
\* that can be downloaded whole, as long as the session can be used at all.
ReadyMeansStored ==
    client.pc = "ready" /\ ~Withdrawn => Published /\ stored = Whole

\* Unless connections break under a working handler, the page never has two
\* handlers at work: it is a client SerialSpec describes, whatever else fails.
OneAtATime == SerialSpec

\* The engine always ends, with the file ready or failed: a conflict answered
\* by a probe cannot send it round for ever.
EngineEnds == <>(client.pc \in {"ready", "failed"})

\* README: the upload "recovers seamlessly from network drops", and the engine
\* has its attempts.  It fails only for a reason: the session is withdrawn, or every
\* attempt at a chunk met a loss or a fault (a lost first probe has no retry).
FailsForAReason ==
    client.pc = "failed" /\ client.attempt > 0 /\ ~Withdrawn
        => losses + faults >= MaxRetries

=============================================================================

---------------------------- MODULE UploadPromise ----------------------------
(***************************************************************************)
(* What the resumable upload of one item promises its owner, without       *)
(* requests, retries, faults or rows: bytes are received in order and kept *)
(* until the whole file has been received; only then is there a file, and  *)
(* only a file can be published.  Until the offer is withdrawn (expiry or  *)
(* deletion of the session) nothing received, filed or published is lost.  *)
(***************************************************************************)
EXTENDS Naturals

CONSTANTS Size, None

\* The first n bytes of the file; a byte is its position.
First(n) == [k \in 1 .. n |-> k]

VARIABLES received, file, published, withdrawn

promise == <<received, file, published, withdrawn>>

Init ==
    /\ received = First(0)
    /\ file = None
    /\ published = FALSE
    /\ withdrawn = FALSE

Accept ==
    /\ ~withdrawn
    /\ \E m, n \in 0 .. Size :
          m <= n /\ received = First(m) /\ received' = First(n)
    /\ UNCHANGED <<file, published, withdrawn>>

\* The file may be received and filed again: it is the same file.
File ==
    /\ ~withdrawn
    /\ Size > 0
    /\ received = First(Size)
    /\ received' = First(0)
    /\ file' = First(Size)
    /\ UNCHANGED <<published, withdrawn>>

Publish ==
    /\ ~withdrawn
    /\ file # None
    /\ published' = TRUE
    /\ UNCHANGED <<received, file, withdrawn>>

Withdraw ==
    /\ received' = First(0)
    /\ file' = None
    /\ published' = FALSE
    /\ withdrawn' = TRUE

Next == Accept \/ File \/ Publish \/ Withdraw

Spec == Init /\ [][Next]_promise

=============================================================================

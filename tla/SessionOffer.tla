------------------------------ MODULE SessionOffer ------------------------------
(***************************************************************************)
(* What a transfer session promises to those who have its code.            *)
(*                                                                         *)
(* While it is open, the items offered can be downloaded and only become   *)
(* more.  A single-use session closes after a download; it is over when it *)
(* expires or is removed, and then nothing is offered again.  A session is *)
(* stale when its status may be saved from an old copy: it may reopen.     *)
(***************************************************************************)
CONSTANTS
    All     \* the items

VARIABLES
    phase,      \* "open", "closed" by a download, or "over"
    offered,    \* the items that are there to be downloaded
    single,     \* closed by its first download
    stale       \* old copies of the session may be saved

vars == <<phase, offered, single, stale>>

Init ==
    /\ phase = "open"
    /\ offered = {}
    /\ single \in BOOLEAN /\ stale \in BOOLEAN

\* An upload is completed; one that ends late may still do so when closed.
Publish(i) ==
    /\ phase # "over"
    /\ offered' = offered \cup {i}
    /\ UNCHANGED <<phase, single, stale>>

Burn ==
    /\ single /\ phase = "open"
    /\ phase' = "closed"
    /\ UNCHANGED <<offered, single, stale>>

Reopen ==
    /\ stale /\ phase = "closed"
    /\ phase' = "open"
    /\ UNCHANGED <<offered, single, stale>>

\* Expiry or removal.
Finish ==
    /\ phase # "over"
    /\ phase' = "over" /\ offered' = {}
    /\ UNCHANGED <<single, stale>>

Next == (\E i \in All : Publish(i)) \/ Burn \/ Reopen \/ Finish

Spec == Init /\ [][Next]_vars

=============================================================================

------------------------------ MODULE RateLimiter ------------------------------
(***************************************************************************)
(* The sliding window of RateLimiterMiddleware: per client and route, the  *)
(* times of the requests let through, from which those that are as old as  *)
(* the window are dropped when the next request comes.                     *)
(*                                                                         *)
(* dispatch has no await between reading and writing _history, so that a   *)
(* request is one step.  It measures with time.time(), the wall clock,     *)
(* which the host may set back; the window is about elapsed time.  Both    *)
(* clocks count ticks, Second to a second: the times are floats.           *)
(*                                                                         *)
(* A list of _history is the set of the positions, in the order of         *)
(* admission, of the requests it still holds.                              *)
(*                                                                         *)
(* Left out: requests to other routes (they are passed on), several        *)
(* processes and restarts (each process counts for itself, from nothing),  *)
(* and a clock set forward, which shortens the window.                     *)
(***************************************************************************)
EXTENDS Integers, Sequences, FiniteSets

CONSTANTS
    Clients,      \* the addresses requests come from
    Routes,       \* the limited route prefixes
    MaxRequests,  \* per route, the requests let through in a window
    WindowSeconds,\* per route, the window
    Second,       \* ticks in a second
    Horizon,      \* bound on the elapsed time
    MaxSetBacks,  \* bound on the times the clock is set back
    None

ASSUME RateLimiterAssumption ==
    /\ MaxRequests \in [Routes -> Nat \ {0}]
    /\ WindowSeconds \in [Routes -> Nat \ {0}]
    /\ Second \in Nat \ {0}
    /\ Horizon \in Nat
    /\ MaxSetBacks \in Nat
    /\ None \notin Int

VARIABLES
    elapsed,  \* the time that has really passed
    wall,     \* what time.time() says
    setBacks, \* how often the clock was set back
    admitted, \* per key, all requests let through: both clocks, in order
    kept,     \* per key, _history: which of them the list still holds
    told      \* per key, when the last refusal said to come back, or None

vars == <<elapsed, wall, setBacks, admitted, kept, told>>

-----------------------------------------------------------------------------
Keys == Clients \X Routes

Max(k) == MaxRequests[k[2]]

Window(k) == WindowSeconds[k[2]] * Second

Init ==
    /\ elapsed = 0
    /\ wall = 0
    /\ setBacks = 0
    /\ admitted = [k \in Keys |-> <<>>]
    /\ kept = [k \in Keys |-> {}]
    /\ told = [k \in Keys |-> None]

\* Mutant: the window is a tick shorter.
FreshShort(k) == {i \in kept[k] : wall - admitted[k][i].wall < Window(k) - 1}

\* The entries of the list that are younger than the window.
Fresh(k) == {i \in kept[k] : wall - admitted[k][i].wall < Window(k)}

\* Mutant: one more than the limit.
FullLate(k) == Cardinality(Fresh(k)) > Max(k)

Full(k) == Cardinality(Fresh(k)) >= Max(k)

\* timestamps[0], the fresh request admitted first.
First(k) == CHOOSE i \in Fresh(k) : \A j \in Fresh(k) : i <= j

\* Mutant: what is left of the window is taken from the latest request.
RetryAfterLast(k) ==
    LET last == CHOOSE i \in Fresh(k) : \A j \in Fresh(k) : i >= j
        left == (Window(k) - (wall - admitted[k][last].wall)) \div Second
    IN  IF left < 1 THEN 1 ELSE left

\* The Retry-After header, in whole seconds, cut, at least one.
RetryAfter(k) ==
    LET left == (Window(k) - (wall - admitted[k][First(k)].wall)) \div Second
    IN  IF left < 1 THEN 1 ELSE left

\* When a client that is refused now is told to come back.
ComeBack(k) == wall + RetryAfter(k) * Second

\* The request is noted in the shortened list and passed on.
Admit(k) ==
    /\ ~Full(k)
    /\ admitted' = [admitted EXCEPT
                       ![k] = Append(@, [elapsed |-> elapsed, wall |-> wall])]
    /\ kept' = [kept EXCEPT ![k] = Fresh(k) \cup {Len(admitted[k]) + 1}]
    /\ told' = [told EXCEPT ![k] = None]
    /\ UNCHANGED <<elapsed, wall, setBacks>>

\* A 429.  The list is left as it was, old entries included.
Refuse(k) ==
    /\ Full(k)
    /\ told' = [told EXCEPT ![k] = ComeBack(k)]
    /\ UNCHANGED <<elapsed, wall, setBacks, admitted, kept>>

Tick ==
    /\ elapsed < Horizon
    /\ elapsed' = elapsed + 1
    /\ wall' = wall + 1
    /\ UNCHANGED <<setBacks, admitted, kept, told>>

SetBack ==
    /\ setBacks < MaxSetBacks
    /\ setBacks' = setBacks + 1
    /\ wall' = wall - 1
    /\ UNCHANGED <<elapsed, admitted, kept, told>>

Next ==
    \/ \E k \in Keys : Admit(k) \/ Refuse(k)
    \/ Tick \/ SetBack

Spec == Init /\ [][Next]_vars

-----------------------------------------------------------------------------
\* The values of the clocks and of the lists: a list holds requests that were
\* let through, and never more of them than the limit, so that its memory is
\* bounded (rate_limiter.py:34-45).
TypeOK ==
    /\ elapsed \in Nat /\ wall \in Int /\ setBacks \in Nat
    /\ admitted \in [Keys -> Seq([elapsed : Nat, wall : Int])]
    /\ told \in [Keys -> Int \cup {None}]
    /\ \A k \in Keys : /\ kept[k] \subseteq DOMAIN admitted[k]
                       /\ Cardinality(kept[k]) <= Max(k)

\* The limit is kept in elapsed time, wherever the window is laid and whatever
\* was set back meanwhile: of the requests of a client to a route, one and the
\* Max-th after it are a window apart, although refused requests leave the
\* list as it was and a clock set back makes entries young again
\* (rate_limiter.py:35-44).
WithinLimit ==
    \A k \in Keys : \A i, j \in DOMAIN admitted[k] :
        j = i + Max(k) => admitted[k][j].elapsed - admitted[k][i].elapsed >= Window(k)

\* What a 429 tells the client is right to a second (rate_limiter.py:37): who
\* comes back a second after the time told is let through; and who comes back
\* more than a second before it is refused again, if the clock was not set
\* back in the meantime.
RetryAfterIsRight ==
    \A k \in Keys : told[k] # None =>
        /\ wall >= told[k] + Second => ~Full(k)
        /\ setBacks = 0 /\ wall < told[k] - Second => Full(k)

=============================================================================

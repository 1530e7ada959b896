----------------------------- MODULE MCShareCodes -----------------------------
(* TLC instance of ShareCodes. *)
EXTENDS ShareCodes, TLC

CONSTANTS d1, d2, d3

\* Two of the databases are found under one URL, one after the other.
MCUrlOf == [d \in {d1, d2, d3} |-> IF d = d3 THEN "elsewhere" ELSE "here"]

\* No definition tells the members of these sets apart.
Symmetry ==
    Permutations(Emails) \cup Permutations(Passwords) \cup Permutations({d1, d2})
    \cup Permutations(Registrations) \cup Permutations(Codes)
    \cup Permutations(Makers) \cup Permutations(Readers)

=============================================================================

---------------------------- MODULE SessionDomain ----------------------------
(***************************************************************************)
(* The values of app/domain/sessions.py: the states of a transfer session  *)
(* and of its items, and how the state of a session follows from the       *)
(* states of its items.                                                    *)
(***************************************************************************)

ItemStatus == {"queued", "uploading", "completed", "failed", "cancelled"}

SessionStatus == {"pending", "in_progress", "ready", "expired", "cancelled"}

\* The two stored states that no state of the items overrides.
Terminal == {"expired", "cancelled"}

\* Mutant: the session takes the state of its items as it is.
DerivedStatusRaw(stored, statuses) ==
    IF stored \notin Terminal /\ statuses = {"completed"} THEN "completed" ELSE stored

\* Mutant: an expired or cancelled session follows its items too.
DerivedStatusFresh(stored, statuses) ==
    IF statuses = {} THEN stored
    ELSE IF statuses = {"completed"} THEN "ready" ELSE "in_progress"

\* TransferSession.status: `stored` is the column _status, `statuses` the set
\* of the states of the session's items.
DerivedStatus(stored, statuses) ==
    CASE stored \in Terminal \/ statuses = {}              -> stored
      [] stored \notin Terminal /\ statuses = {"completed"} -> "ready"
      [] OTHER -> IF statuses \cap {"uploading", "completed"} # {}
                  THEN "in_progress"
                  ELSE "pending"

=============================================================================

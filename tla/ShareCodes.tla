------------------------------- MODULE ShareCodes -------------------------------
(***************************************************************************)
(* Share codes: how sessions and transfers are inserted under a random     *)
(* code, found by it, removed and saved again, by requests that carry the  *)
(* tokens of Accounts.  A share's life between these (items, files,        *)
(* expiry, burn) is in SessionLifecycle and Transfers.                     *)
(*                                                                         *)
(* Each table has a unique column for its codes.  A creation draws codes   *)
(* and looks each up, with other requests in between; a code is free again *)
(* once its share has been removed.  Saving a copy is a merge: it inserts  *)
(* the row again when it has been removed since the copy was read.         *)
(***************************************************************************)
EXTENDS Accounts

CONSTANTS
    Codes,          \* the codes of either table
    Makers,         \* the requests that create a share; each is its id
    Readers,        \* the requests with a code
    SessionLooks,   \* looks of create_session for a free code, 5 in the code
    TransferLooks   \* looks for a transfer's code, 20 in the code

ASSUME CodesAssumption ==
    /\ SessionLooks \in Nat \ {0}
    /\ TransferLooks \in Nat \ {0}
    /\ None \notin Codes \cup Makers \cup Registrations

VARIABLES
    shares,     \* per maker, its row, or None
    mk,         \* the creations: step, the row to be, the looks so far
    rd,         \* the reads: step, the share found, and the copy to be saved
    removed     \* history: the shares that have been removed at least once

cvars == <<shares, mk, rd, removed>>
vars == <<avars, cvars>>

-----------------------------------------------------------------------------
Tables == {"session", "transfer"}

\* TransferModel and TransferSessionModel: what a row keeps of its share.
ShareRows == [db : Databases, table : Tables, code : Codes, owner : Registrations]

ASSUME NoneIsNoRow == None \notin ShareRows

NoMaker == [pc |-> "idle", row |-> None, looks |-> 0]
NoReader == [pc |-> "idle", found |-> None, id |-> None, copy |-> None]

\* Mutant: the column is not unique, a code taken is taken for free.
TakenNever(row) == {}

\* The rows that keep another one from being inserted under its code.
Taken(row) ==
    {s \in Makers : /\ shares[s] # None
                    /\ shares[s].db = row.db /\ shares[s].table = row.table
                    /\ shares[s].code = row.code}

\* get_by_code in the running process's database
ByCode(table, code) ==
    {s \in Makers : /\ shares[s] # None
                    /\ shares[s].db = db /\ shares[s].table = table
                    /\ shares[s].code = code}

Fail(m) == mk' = [mk EXCEPT ![m] = [NoMaker EXCEPT !.pc = "failed"]]

End(r, pc) == rd' = [rd EXCEPT ![r] = [NoReader EXCEPT !.pc = pc]]

Init ==
    /\ AccountsInit
    /\ shares = [s \in Makers |-> None]
    /\ mk = [m \in Makers |-> NoMaker]
    /\ rd = [r \in Readers |-> NoReader]
    /\ removed = {}

-----------------------------------------------------------------------------
\* POST /sessions and POST /transfers

\* Mutant: the owner is taken from a token that is not checked.
BeginUnchecked(m) ==
    /\ mk[m].pc = "idle"
    /\ \E t \in tokens, table \in Tables, c \in Codes :
          mk' = [mk EXCEPT ![m] =
                   [pc |-> "look", looks |-> 0,
                    row |-> [db |-> db, table |-> table, code |-> c,
                             owner |-> t.claims.user_id]]]
    /\ UNCHANGED <<avars, shares, rd, removed>>

\* get_current_user lets the request in; the first code is drawn.
Begin(m) ==
    /\ mk[m].pc = "idle"
    /\ \E user \in CurrentUsers, table \in Tables, c \in Codes :
          mk' = [mk EXCEPT ![m] =
                   [pc |-> "look", looks |-> 0,
                    row |-> [db |-> db, table |-> table, code |-> c,
                             owner |-> user.user_id]]]
    /\ UNCHANGED <<avars, shares, rd, removed>>

\* Mutant: a look more.
DrawOnceMore(m, most) ==
    \E c \in Codes :
        mk' = [mk EXCEPT ![m] = [pc |-> IF @.looks + 1 > most THEN "insert" ELSE "look",
                                 row |-> [@.row EXCEPT !.code = c],
                                 looks |-> @.looks + 1]]

\* Another code, after a look that found one taken, to be looked up or, when it
\* was the last look, to be used as it is.
Draw(m, most) ==
    \E c \in Codes :
        mk' = [mk EXCEPT ![m] = [pc |-> IF @.looks + 1 = most THEN "insert" ELSE "look",
                                 row |-> [@.row EXCEPT !.code = c],
                                 looks |-> @.looks + 1]]

\* create_session: the code drawn after the last look is not looked up.
LookSession(m) ==
    /\ mk[m].pc = "look" /\ mk[m].row.table = "session"
    /\ IF ByCode("session", mk[m].row.code) = {}
       THEN mk' = [mk EXCEPT ![m].pc = "insert"]
       ELSE Draw(m, SessionLooks)
    /\ UNCHANGED <<avars, shares, rd, removed>>

\* _create_unique_transfer_code: the owner's own code passes for free; after
\* the last look the creation fails.
LookTransfer(m) ==
    /\ mk[m].pc = "look" /\ mk[m].row.table = "transfer"
    /\ IF \A s \in ByCode("transfer", mk[m].row.code) : shares[s].owner = mk[m].row.owner
       THEN mk' = [mk EXCEPT ![m].pc = "insert"]
       ELSE IF mk[m].looks + 1 = TransferLooks THEN Fail(m) ELSE Draw(m, TransferLooks)
    /\ UNCHANGED <<avars, shares, rd, removed>>

\* add and commit: the unique column refuses a code taken, PostgreSQL's foreign
\* key an owner without a row, and the database may fail, a 500 each time.
\* SQLite, whose foreign keys are off, takes any owner.
Insert(m) ==
    /\ mk[m].pc = "insert"
    /\ \/ /\ Taken(mk[m].row) = {}
          /\ shares' = [shares EXCEPT ![m] = mk[m].row]
          /\ mk' = [mk EXCEPT ![m].pc = "made"]
       \/ UNCHANGED shares /\ Fail(m)
    /\ UNCHANGED <<avars, rd, removed>>

Make(m) == LookSession(m) \/ LookTransfer(m) \/ Insert(m)

\* delete_session, or the cleanup of sessions and transfers, has committed.
Remove(s) ==
    /\ shares[s] # None /\ shares[s].db = db
    /\ shares' = [shares EXCEPT ![s] = None]
    /\ removed' = removed \cup {s}
    /\ UNCHANGED <<avars, mk, rd>>

-----------------------------------------------------------------------------
\* GET /sessions/{code} and GET /transfers/{code}/download

\* An expired session is saved as such, from the copy just read.
LookUpSession(r, c) ==
    /\ rd[r].pc = "idle"
    /\ \E s \in ByCode("session", c) :
          rd' = [rd EXCEPT ![r] = [pc |-> "save", found |-> s, id |-> s, copy |-> shares[s]]]
    /\ UNCHANGED <<avars, shares, mk, removed>>

\* resolve_transfer: the file of this transfer will be served ...
ResolveTransfer(r, c) ==
    /\ rd[r].pc = "idle"
    /\ \E s \in ByCode("transfer", c) :
          rd' = [rd EXCEPT ![r] = [pc |-> "load", found |-> s, id |-> None, copy |-> shares[s]]]
    /\ UNCHANGED <<avars, shares, mk, removed>>

\* ... mark_downloaded reads a transfer by the code again ...
LoadMarked(r) ==
    /\ rd[r].pc = "load"
    /\ LET ids == ByCode("transfer", rd[r].copy.code) IN
          IF ids = {} THEN End(r, "missing")
          ELSE \E s \in ids :
                  rd' = [rd EXCEPT ![r] = [@ EXCEPT !.pc = "save", !.id = s, !.copy = shares[s]]]
    /\ UNCHANGED <<avars, shares, mk, removed>>

\* ... and saves it.  A merge INSERTs a row that has gone, unless its code has
\* been given to another share since; the database may fail.
SaveCopy(r) ==
    /\ rd[r].pc = "save"
    /\ \/ /\ shares[rd[r].id] # None \/ Taken(rd[r].copy) = {}
          /\ shares' = [shares EXCEPT ![rd[r].id] = rd[r].copy]
          /\ End(r, "answered")
       \/ UNCHANGED shares /\ End(r, "error")
    /\ UNCHANGED <<avars, mk, removed>>

Read(r) ==
    \/ \E c \in Codes : LookUpSession(r, c) \/ ResolveTransfer(r, c)
    \/ LoadMarked(r) \/ SaveCopy(r)

-----------------------------------------------------------------------------
\* Requests in progress are lost with the process.
Restart ==
    /\ RestartAccounts
    /\ mk' = [m \in Makers |->
                IF mk[m].pc \in {"look", "insert"} THEN [NoMaker EXCEPT !.pc = "failed"] ELSE mk[m]]
    /\ rd' = [r \in Readers |->
                IF rd[r].pc \in {"load", "save"} THEN [NoReader EXCEPT !.pc = "error"] ELSE rd[r]]
    /\ UNCHANGED <<shares, removed>>

Next ==
    \/ AccountsStep /\ UNCHANGED cvars
    \/ \E m \in Makers : Begin(m) \/ Make(m) \/ Remove(m)
    \/ \E r \in Readers : Read(r)
    \/ Restart

Spec == Init /\ [][Next]_vars

-----------------------------------------------------------------------------
MakerSteps == {"idle", "look", "insert", "made", "failed"}
ReaderSteps == {"idle", "load", "save", "missing", "error", "answered"}

TypeOK ==
    /\ AccountsTypeOK
    /\ shares \in [Makers -> ShareRows \cup {None}]
    /\ mk \in [Makers -> [pc : MakerSteps, row : ShareRows \cup {None}, looks : Nat]]
    /\ \A m \in Makers : mk[m].row # None =>
          mk[m].looks <= IF mk[m].row.table = "session" THEN SessionLooks ELSE TransferLooks
    /\ rd \in [Readers -> [pc : ReaderSteps, found : Makers \cup {None},
                           id : Makers \cup {None}, copy : ShareRows \cup {None}]]
    /\ removed \subseteq Makers

\* Every share created with a token the service answered belongs to an account
\* of a database under its own URL, where SQLite checks no foreign key and a
\* creation takes its owner from the token (dependencies.py:74): not to one that
\* lost a race for its e-mail, nor to one known only under another URL.  Where
\* one database only is ever found under the URL, the owner's row is in it.
OwnersAreAccounts ==
    \A s \in Makers : shares[s] # None =>
        \E row \in UnderUrlOf(shares[s].db) : row.id = shares[s].owner

\* A code that was answered leads to its share, and to no other, until that
\* share is removed: whatever codes are drawn at the same time or passed
\* unchecked (sessions_service.py:60, transfers_service.py:175), and whatever
\* copies of shares removed earlier under the code are saved again.
AnsweredCodeIsItsShare ==
    \A m \in Makers : mk[m].pc = "made" /\ m \notin removed =>
        /\ shares[m] = mk[m].row
        /\ Taken(shares[m]) = {m}

\* A download marks the transfer whose file it serves, although it looks the
\* code up twice (routes/transfers.py:136 and 143), as long as that transfer
\* has not been removed; and it serves what bore the code it was asked for.
MarksWhatItServes ==
    \A r \in Readers : rd[r].pc = "save" =>
        \/ rd[r].id = rd[r].found
        \/ rd[r].found \in removed

=============================================================================

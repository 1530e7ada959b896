-------------------------------- MODULE Accounts --------------------------------
(***************************************************************************)
(* Accounts and access tokens: AuthService with its repository, the        *)
(* password hasher and the token service.                                  *)
(*                                                                         *)
(* Registration looks for the e-mail, hashes the password and inserts a    *)
(* row, with other requests in between; only the unique column decides a   *)
(* race.  INSERT and COMMIT are one step: another INSERT of the e-mail     *)
(* waits for the first, or fails after it.  Nothing changes or deletes an  *)
(* account, and get_current_user does not look at the table.               *)
(*                                                                         *)
(* The process may be started again on another database: another URL is    *)
(* set, or the same URL leads elsewhere, as the default one, a relative    *)
(* path, does from another directory or to a file made anew.  The key that *)
(* signs tokens follows from the URL and from settings that are fixed here.*)
(*                                                                         *)
(* Assumed: a token is one the service answered.  Whoever knows the        *)
(* settings can sign others, as the tests do (tests/conftest.py:42-50),    *)
(* and the defaults are public; of who is let in so, nothing is said here. *)
(*                                                                         *)
(* Left out: the format of hashes and tokens, display names, and is_active *)
(* and is_admin, which no code sets or, for accounts, reads.               *)
(***************************************************************************)
EXTENDS Naturals, FiniteSets

CONSTANTS
    Emails, Passwords, Databases,
    UrlOf,          \* the database_url that leads to a database
    Registrations,  \* the requests to register; each is the id of its account
    MaxRestarts,    \* bound on the restarts of the process
    None

ASSUME AccountsAssumption ==
    /\ MaxRestarts \in Nat
    /\ DOMAIN UrlOf = Databases
    /\ None \notin Emails \cup Passwords

VARIABLES
    db,         \* the database of the running process
    users,      \* per database, the rows of users
    reg,        \* the registrations: step and payload
    tokens,     \* the tokens handed out and not yet past their exp
    restarts

avars == <<db, users, reg, tokens, restarts>>

-----------------------------------------------------------------------------
\* PBKDF2PasswordHasher: a hash tells only whether a password is the one it is of.
HashPassword(password) == [hashOf |-> password]

VerifyPassword(password, hash) == hash = HashPassword(password)

\* UserModel, and the row made of a new account.
UserRows == [id : Registrations, email : Emails, password_hash : [hashOf : Passwords]]

UserRow(g) ==
    [id |-> g, email |-> reg[g].email, password_hash |-> HashPassword(reg[g].password)]

\* get_by_email
ByEmail(email) == {row \in users[db] : row.email = email}

\* Mutant: the key is the same under every URL.
SecretOfName(d) == "Jumbox"

\* get_token_service: the signing key follows from the settings, of which the
\* URL varies; databases under one URL share their key.
Secret(d) == UrlOf[d]

AuthUsers == [user_id : Registrations, email : Emails]

Tokens == [claims : AuthUsers, key : {Secret(d) : d \in Databases}]

\* _to_auth_user and create_access_token
TokenFor(row) ==
    [claims |-> [user_id |-> row.id, email |-> row.email], key |-> Secret(db)]

\* parse_access_token: the signature; a token past its exp is not in tokens.
Accepted(token) == token \in tokens /\ token.key = Secret(db)

\* get_current_user: a token's claims are all there is to a request's identity.
CurrentUsers == {t.claims : t \in {s \in tokens : Accepted(s)}}

NoRegistration == [pc |-> "idle", email |-> None, password |-> None]

AccountsInit ==
    /\ db \in Databases
    /\ users = [d \in Databases |-> {}]
    /\ reg = [g \in Registrations |-> NoRegistration]
    /\ tokens = {}
    /\ restarts = 0

-----------------------------------------------------------------------------
\* POST /auth/register

RegisterTo(g, pc) == reg' = [reg EXCEPT ![g].pc = pc]

Refuse(g, pc) == reg' = [reg EXCEPT ![g] = [NoRegistration EXCEPT !.pc = pc]]

\* get_by_email: a known e-mail is a 409.
RegisterLook(g) ==
    /\ reg[g].pc = "idle"
    /\ \E e \in Emails, p \in Passwords :
          IF ByEmail(e) = {}
          THEN reg' = [reg EXCEPT ![g] = [pc |-> "insert", email |-> e, password |-> p]]
          ELSE Refuse(g, "conflict")
    /\ UNCHANGED <<db, users, tokens, restarts>>

\* Mutant: the row is merged: it takes the place of one with its e-mail.
RegisterInsertMerged(g) ==
    /\ reg[g].pc = "insert"
    /\ users' = [users EXCEPT ![db] = (@ \ ByEmail(reg[g].email)) \cup {UserRow(g)}]
    /\ RegisterTo(g, "token")
    /\ UNCHANGED <<db, tokens, restarts>>

\* users.add and commit: the unique column refuses a second row, and the
\* database may fail, a 500 either way.
RegisterInsert(g) ==
    /\ reg[g].pc = "insert"
    /\ \/ /\ ByEmail(reg[g].email) = {}
          /\ users' = [users EXCEPT ![db] = @ \cup {UserRow(g)}]
          /\ RegisterTo(g, "token")
       \/ UNCHANGED users /\ Refuse(g, "error")
    /\ UNCHANGED <<db, tokens, restarts>>

\* The unit of work is closed and the account's token answered.
RegisterAnswer(g) ==
    /\ reg[g].pc = "token"
    /\ tokens' = tokens \cup {TokenFor(UserRow(g))}
    /\ RegisterTo(g, "created")
    /\ UNCHANGED <<db, users, restarts>>

-----------------------------------------------------------------------------
\* POST /auth/login
Login(email, password) ==
    /\ \E row \in ByEmail(email) :
          /\ VerifyPassword(password, row.password_hash)
          /\ tokens' = tokens \cup {TokenFor(row)}
    /\ UNCHANGED <<db, users, reg, restarts>>

\* A token's exp passes, in one process as in the next.
Lapse(token) ==
    /\ tokens' = tokens \ {token}
    /\ UNCHANGED <<db, users, reg, restarts>>

\* The process stops, and is started again, perhaps on another database; the
\* clients of requests in progress get no answer.
RestartAccounts ==
    /\ restarts < MaxRestarts
    /\ restarts' = restarts + 1
    /\ db' \in Databases
    /\ reg' = [g \in Registrations |->
                 IF reg[g].pc \in {"insert", "token"}
                 THEN [NoRegistration EXCEPT !.pc = "error"] ELSE reg[g]]
    /\ UNCHANGED <<users, tokens>>

Register(g) == RegisterLook(g) \/ RegisterInsert(g) \/ RegisterAnswer(g)

AccountsStep ==
    \/ \E g \in Registrations : Register(g)
    \/ \E e \in Emails, p \in Passwords : Login(e, p)
    \/ \E t \in tokens : Lapse(t)

AccountsNext == AccountsStep \/ RestartAccounts

AccountsSpec == AccountsInit /\ [][AccountsNext]_avars

-----------------------------------------------------------------------------
RegisterSteps == {"idle", "insert", "token", "created", "conflict", "error"}

AccountsTypeOK ==
    /\ db \in Databases
    /\ users \in [Databases -> SUBSET UserRows]
    /\ reg \in [Registrations -> [pc : RegisterSteps, email : Emails \cup {None},
                                  password : Passwords \cup {None}]]
    /\ tokens \subseteq Tokens
    /\ restarts \in 0 .. MaxRestarts

\* A row of users in some database under the URL that leads to d.
UnderUrlOf(d) == UNION {users[e] : e \in {f \in Databases : UrlOf[f] = UrlOf[d]}}

\* Who is let in by a token the service answered is an account, under its own
\* e-mail, of a database under the URL the process works with, although
\* get_current_user (auth_service.py:56) asks no database: not the loser of a
\* race for an e-mail, nor the holder of a token from before a restart under
\* another URL (dependencies.py:39).  Where one database only is ever found
\* under the URL, it is that database's account.
LetInIsAccount ==
    \A u \in CurrentUsers :
        \E row \in UnderUrlOf(db) : row.id = u.user_id /\ row.email = u.email

\* Whoever was answered 201 (routes/auth.py:33) keeps the account: it holds
\* the password given then, and no registration that raced for the e-mail, or
\* came later, has changed or doubled it (auth_service.py:33-43).
RegisteredKeepsAccount ==
    \A g \in Registrations : reg[g].pc = "created" =>
        \E d \in Databases : \E row \in users[d] :
            /\ row.id = g
            /\ VerifyPassword(reg[g].password, row.password_hash)
            /\ \A other \in users[d] : other.email = row.email => other = row

=============================================================================

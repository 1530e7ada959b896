---------------------------- MODULE Accounts_proofs ----------------------------
(* Theorems about Accounts: for any e-mails, databases and registrations.   *)
EXTENDS Accounts, TLAPS

-----------------------------------------------------------------------------
\* One row per e-mail and database.
EmailsAreUnique ==
    \A d \in Databases : \A r, s \in users[d] : r.email = s.email => r = s

\* A registration that has inserted its row is followed by it.
RowsAreThere ==
    \A g \in Registrations :
        /\ reg[g].pc \in {"insert", "token", "created"} =>
              reg[g].email \in Emails /\ reg[g].password \in Passwords
        /\ reg[g].pc = "token" => UserRow(g) \in users[db]
        /\ reg[g].pc = "created" => \E d \in Databases : UserRow(g) \in users[d]

\* A token was signed for an account of a database its key is of.
TokensAreSigned ==
    \A t \in tokens : \E d \in Databases :
        /\ t.key = Secret(d)
        /\ \E row \in users[d] : row.id = t.claims.user_id /\ row.email = t.claims.email

AccountsInv == AccountsTypeOK /\ EmailsAreUnique /\ RowsAreThere /\ TokensAreSigned

\* The invariant holds when nobody has registered.
LEMMA AccountsInitHolds == AccountsInit => AccountsInv
  BY AccountsAssumption
     DEF AccountsInit, AccountsInv, AccountsTypeOK, EmailsAreUnique, RowsAreThere,
         TokensAreSigned, NoRegistration, RegisterSteps

\* The row of a registration about to insert it.
LEMMA UserRowIsARow ==
    ASSUME AccountsInv, NEW g \in Registrations, reg[g].pc \in {"insert", "token"}
    PROVE  UserRow(g) \in UserRows /\ UserRow(g).email = reg[g].email /\ UserRow(g).id = g
  BY DEF AccountsInv, RowsAreThere, UserRow, UserRows, HashPassword

\* An answer with a token for a row of the running process's database.
LEMMA TokenIsSigned ==
    ASSUME AccountsInv, NEW row \in users[db], tokens' = tokens \cup {TokenFor(row)},
           UNCHANGED <<db, users>>
    PROVE  tokens' \subseteq Tokens /\ TokensAreSigned'
<1>1. row \in UserRows /\ db \in Databases
  BY DEF AccountsInv, AccountsTypeOK
<1>2. TokenFor(row) \in Tokens
  BY <1>1 DEF TokenFor, Tokens, AuthUsers, UserRows
<1>3. TokenFor(row).key = Secret(db) /\ TokenFor(row).claims.user_id = row.id
      /\ TokenFor(row).claims.email = row.email
  BY DEF TokenFor
<1> QED BY <1>1, <1>2, <1>3 DEF AccountsInv, AccountsTypeOK, TokensAreSigned

\* A step of a registration keeps it, another registration being anywhere.
LEMMA RegistrationKeepsAccounts ==
    ASSUME AccountsInv, NEW g \in Registrations, Register(g)
    PROVE  AccountsInv'
<1> USE AccountsAssumption DEF AccountsInv, AccountsTypeOK
<1>1. CASE RegisterLook(g)
  <2>1. PICK e \in Emails, p \in Passwords :
           \/ reg' = [reg EXCEPT ![g] = [pc |-> "insert", email |-> e, password |-> p]]
           \/ reg' = [reg EXCEPT ![g] = [NoRegistration EXCEPT !.pc = "conflict"]]
    BY <1>1 DEF RegisterLook, Refuse
  <2>2. AccountsTypeOK'
    BY <1>1, <2>1 DEF RegisterLook, NoRegistration, RegisterSteps
  <2>3. RowsAreThere'
    BY <1>1, <2>1 DEF RegisterLook, NoRegistration, RowsAreThere, UserRow
  <2> QED BY <1>1, <2>2, <2>3 DEF RegisterLook, EmailsAreUnique, TokensAreSigned
<1>2. ASSUME reg[g].pc = "insert", ByEmail(reg[g].email) = {},
             users' = [users EXCEPT ![db] = @ \cup {UserRow(g)}], RegisterTo(g, "token"),
             UNCHANGED <<db, tokens, restarts>>
      PROVE  AccountsInv'
  <2>1. /\ users' = [users EXCEPT ![db] = @ \cup {UserRow(g)}]
        /\ reg' = [reg EXCEPT ![g].pc = "token"] /\ reg[g].pc = "insert"
        /\ UNCHANGED <<db, tokens, restarts>>
    BY <1>2 DEF RegisterTo
  <2>2. UserRow(g) \in UserRows /\ UserRow(g).email = reg[g].email
    BY <2>1, UserRowIsARow
  <2>3. AccountsTypeOK'
    BY <2>1, <2>2 DEF RegisterSteps
  <2>4. \A d \in Databases : users[d] \subseteq users'[d]
    BY <2>1
  <2>5. EmailsAreUnique'
    BY <1>2, <2>1, <2>2 DEF EmailsAreUnique, ByEmail
  <2>6. TokensAreSigned'
    BY <2>1, <2>4 DEF TokensAreSigned
  <2>7. RowsAreThere'
    <3>1. \A h \in Registrations : UserRow(h)' = UserRow(h)
      BY <2>1 DEF UserRow
    <3>2. UserRow(g) \in users'[db']
      BY <2>1
    <3> QED BY <2>1, <2>4, <3>1, <3>2 DEF RowsAreThere
  <2> QED BY <2>3, <2>5, <2>6, <2>7
<1>3. ASSUME Refuse(g, "error"), UNCHANGED <<db, users, tokens, restarts>>
      PROVE  AccountsInv'
  <2>1. reg' = [reg EXCEPT ![g] = [NoRegistration EXCEPT !.pc = "error"]]
    BY <1>3 DEF Refuse
  <2>2. AccountsTypeOK'
    BY <1>3, <2>1 DEF NoRegistration, RegisterSteps
  <2>3. RowsAreThere'
    BY <1>3, <2>1 DEF NoRegistration, RowsAreThere, UserRow
  <2> QED BY <1>3, <2>2, <2>3 DEF EmailsAreUnique, TokensAreSigned
<1>4. CASE RegisterAnswer(g)
  <2>1. /\ reg' = [reg EXCEPT ![g].pc = "created"] /\ reg[g].pc = "token"
        /\ tokens' = tokens \cup {TokenFor(UserRow(g))} /\ UNCHANGED <<db, users, restarts>>
    BY <1>4 DEF RegisterAnswer, RegisterTo
  <2>2. UserRow(g) \in users[db]
    BY <2>1 DEF RowsAreThere
  <2>3. tokens' \subseteq Tokens /\ TokensAreSigned'
    BY <2>1, <2>2, TokenIsSigned
  <2>4. AccountsTypeOK'
    BY <2>1, <2>3 DEF RegisterSteps
  <2>5. RowsAreThere'
    BY <2>1, <2>2 DEF RowsAreThere, UserRow
  <2> QED BY <2>1, <2>3, <2>4, <2>5 DEF EmailsAreUnique
<1> QED BY <1>1, <1>2, <1>3, <1>4 DEF Register, RegisterInsert

\* Every step keeps it, and no step removes an account.
LEMMA StepKeepsAccounts ==
    ASSUME AccountsInv, [AccountsNext]_avars
    PROVE  AccountsInv' /\ \A d \in Databases : users[d] \subseteq users'[d]
<1>1. ASSUME NEW g \in Registrations, Register(g)
      PROVE  AccountsInv' /\ \A d \in Databases : users[d] \subseteq users'[d]
  <2>1. \A d \in Databases : users[d] \subseteq users'[d]
    BY <1>1 DEF Register, RegisterLook, RegisterInsert, RegisterAnswer, AccountsInv, AccountsTypeOK
  <2> QED BY <1>1, <2>1, RegistrationKeepsAccounts
<1>2. ASSUME NEW e \in Emails, NEW p \in Passwords, Login(e, p) PROVE AccountsInv' /\ users' = users
  <2>1. PICK row \in users[db] : tokens' = tokens \cup {TokenFor(row)}
    BY <1>2 DEF Login, ByEmail
  <2>2. UNCHANGED <<db, users, reg, restarts>>
    BY <1>2 DEF Login
  <2>3. tokens' \subseteq Tokens /\ TokensAreSigned'
    BY <2>1, <2>2, TokenIsSigned
  <2> QED BY <2>2, <2>3
          DEF AccountsInv, AccountsTypeOK, EmailsAreUnique, RowsAreThere, UserRow
<1>3. ASSUME NEW t \in tokens, Lapse(t) PROVE AccountsInv' /\ users' = users
  BY <1>3 DEF Lapse, AccountsInv, AccountsTypeOK, EmailsAreUnique, RowsAreThere, UserRow,
              TokensAreSigned
<1>4. CASE RestartAccounts
  <2>1. AccountsTypeOK'
    BY <1>4, AccountsAssumption
       DEF RestartAccounts, AccountsInv, AccountsTypeOK, NoRegistration, RegisterSteps
  <2>2. RowsAreThere'
    <3>1. \A g \in Registrations : reg'[g].pc \in {"insert", "token", "created"} =>
             reg[g].pc = "created" /\ reg'[g] = reg[g] /\ UserRow(g)' = UserRow(g)
      BY <1>4 DEF RestartAccounts, AccountsInv, AccountsTypeOK, NoRegistration, UserRow
    <3> QED BY <1>4, <3>1 DEF RestartAccounts, AccountsInv, RowsAreThere
  <2> QED BY <1>4, <2>1, <2>2 DEF RestartAccounts, AccountsInv, EmailsAreUnique, TokensAreSigned
<1>5. CASE UNCHANGED avars
  BY <1>5 DEF avars, AccountsInv, AccountsTypeOK, EmailsAreUnique, RowsAreThere, UserRow,
              TokensAreSigned
<1> QED BY <1>1, <1>2, <1>3, <1>4, <1>5 DEF AccountsNext, AccountsStep, RestartAccounts

\* Only an account of a database under the URL the process works with is let in.
LEMMA AccountsLetIn == AccountsInv => LetInIsAccount
<1> SUFFICES ASSUME AccountsInv, NEW t \in tokens, Accepted(t)
             PROVE  \E row \in UnderUrlOf(db) :
                       row.id = t.claims.user_id /\ row.email = t.claims.email
  BY DEF LetInIsAccount, CurrentUsers
<1>1. PICK d \in Databases :
         /\ t.key = Secret(d)
         /\ \E row \in users[d] : row.id = t.claims.user_id /\ row.email = t.claims.email
  BY DEF AccountsInv, TokensAreSigned
<1>2. UrlOf[d] = UrlOf[db]
  BY <1>1 DEF Accepted, Secret
<1> QED BY <1>1, <1>2 DEF UnderUrlOf

\* An account answered for holds its password and is alone with its e-mail.
LEMMA AccountsKept == AccountsInv => RegisteredKeepsAccount
<1> SUFFICES ASSUME AccountsInv, NEW g \in Registrations, reg[g].pc = "created"
             PROVE  \E d \in Databases : \E row \in users[d] :
                       /\ row.id = g
                       /\ VerifyPassword(reg[g].password, row.password_hash)
                       /\ \A other \in users[d] : other.email = row.email => other = row
  BY DEF RegisteredKeepsAccount
<1>1. PICK d \in Databases : UserRow(g) \in users[d]
  BY DEF AccountsInv, RowsAreThere
<1>2. UserRow(g).id = g /\ VerifyPassword(reg[g].password, UserRow(g).password_hash)
  BY DEF UserRow, VerifyPassword
<1>3. \A other \in users[d] : other.email = UserRow(g).email => other = UserRow(g)
  BY <1>1 DEF AccountsInv, EmailsAreUnique
<1> QED BY <1>1, <1>2, <1>3

=============================================================================

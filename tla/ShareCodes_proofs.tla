--------------------------- MODULE ShareCodes_proofs ---------------------------
(* Theorems about ShareCodes: for any codes, shares, readers and looks.      *)
EXTENDS ShareCodes, Accounts_proofs

-----------------------------------------------------------------------------
Bound(row) == IF row.table = "session" THEN SessionLooks ELSE TransferLooks

\* The owner of a row is an account of a database under the URL of the row's.
Owned(row) == \E u \in UnderUrlOf(row.db) : u.id = row.owner

MakerRecords == [pc : MakerSteps, row : ShareRows \cup {None}, looks : Nat]

ReaderRecords == [pc : ReaderSteps, found : Makers \cup {None},
                  id : Makers \cup {None}, copy : ShareRows \cup {None}]

CodesTypeOK ==
    /\ shares \in [Makers -> ShareRows \cup {None}]
    /\ mk \in [Makers -> MakerRecords]
    /\ rd \in [Readers -> ReaderRecords]
    /\ removed \subseteq Makers

\* A creation in progress or done has the row of an account, and has looked no
\* more often than it may.
MakerOK(x) ==
    /\ x.pc \in {"look", "insert", "made"} => x.row \in ShareRows /\ Owned(x.row)
    /\ x.row # None => x.looks <= Bound(x.row)
    /\ x.pc = "look" => x.looks < Bound(x.row)

MakersOK == \A m \in Makers : MakerOK(mk[m])

\* The row of a share is the one its creation inserted, and is there until the
\* share is removed.
SharesAreMade ==
    \A s \in Makers :
        /\ shares[s] # None => mk[s].pc = "made" /\ shares[s] = mk[s].row
        /\ mk[s].pc = "made" /\ s \notin removed => shares[s] = mk[s].row

CodesAreUnique ==
    \A s, t \in Makers :
        /\ shares[s] # None /\ shares[t] # None
        /\ shares[s].db = shares[t].db /\ shares[s].table = shares[t].table
        /\ shares[s].code = shares[t].code
        => s = t

\* A copy in a reader's hands is of the row its share was created with.
ReaderOK(x) ==
    /\ x.pc = "load" =>
          /\ x.found \in Makers /\ mk[x.found].pc = "made"
          /\ x.copy = mk[x.found].row /\ x.copy.table = "transfer" /\ x.copy.db = db
    /\ x.pc = "save" =>
          /\ x.id \in Makers /\ mk[x.id].pc = "made" /\ x.copy = mk[x.id].row
          /\ x.id = x.found \/ x.found \in removed

ReadersOK == \A r \in Readers : ReaderOK(rd[r])

CodesInv == CodesTypeOK /\ MakersOK /\ SharesAreMade /\ CodesAreUnique /\ ReadersOK

UsersGrow == \A d \in Databases : users[d] \subseteq users'[d]

\* The conjuncts of CodesInv hold of the initial state.
LEMMA CodesInitHolds == Init => AccountsInv /\ CodesInv
<1> SUFFICES ASSUME Init PROVE AccountsInv /\ CodesInv
  OBVIOUS
<1>1. AccountsInv
  BY AccountsInitHolds DEF Init
<1>2. CodesTypeOK
  BY DEF Init, CodesTypeOK, MakerRecords, ReaderRecords, NoMaker, NoReader, MakerSteps, ReaderSteps
<1>3. MakersOK /\ SharesAreMade /\ CodesAreUnique /\ ReadersOK
  BY DEF Init, NoMaker, NoReader, MakersOK, MakerOK, SharesAreMade, CodesAreUnique,
         ReadersOK, ReaderOK
<1> QED BY <1>1, <1>2, <1>3 DEF CodesInv

\* An account once there stays, and with it what it owns.
LEMMA OwnedStays ==
    ASSUME UsersGrow, NEW row, Owned(row)
    PROVE  Owned(row)'
  BY DEF UsersGrow, Owned, UnderUrlOf

\* The creations are as good as before when only accounts have come.
LEMMA MakersStayOK ==
    ASSUME CodesInv, UsersGrow, mk' = mk
    PROVE  MakersOK'
<1> SUFFICES ASSUME NEW m \in Makers PROVE MakerOK(mk[m])'
  BY DEF MakersOK
<1>1. MakerOK(mk[m])
  BY DEF CodesInv, MakersOK
<1> DEFINE row == mk[m].row
<1>2. row' = row /\ (Owned(row) => Owned(row)')
  BY OwnedStays DEF Owned, UnderUrlOf
<1> QED BY <1>1, <1>2 DEF MakerOK, Bound

\* A step of the accounts in the same process.
LEMMA AccountsStepKeepsCodes ==
    ASSUME CodesInv, UsersGrow, db' = db, UNCHANGED cvars
    PROVE  CodesInv'
<1>1. MakersOK'
  BY MakersStayOK DEF cvars
<1>2. CodesTypeOK' /\ SharesAreMade' /\ CodesAreUnique'
  BY DEF CodesInv, cvars, CodesTypeOK, SharesAreMade, CodesAreUnique
<1>3. ReadersOK'
  BY DEF CodesInv, cvars, ReadersOK, ReaderOK
<1> QED BY <1>1, <1>2, <1>3 DEF CodesInv

\* A step of a creation before its row is inserted.
LEMMA MakerMoves ==
    ASSUME CodesInv, NEW m \in Makers, NEW x \in MakerRecords,
           mk' = [mk EXCEPT ![m] = x], mk[m].pc # "made", x.pc # "made", MakerOK(x),
           UNCHANGED <<avars, shares, rd, removed>>
    PROVE  CodesInv'
<1>1. CodesTypeOK'
  BY DEF CodesInv, CodesTypeOK
<1>2. MakersOK'
  BY DEF CodesInv, CodesTypeOK, MakersOK, MakerOK, Owned, UnderUrlOf, Bound, avars
<1>3. \A s \in Makers : mk[s].pc = "made" => mk'[s] = mk[s]
  BY DEF CodesInv, CodesTypeOK
<1>4. \A s \in Makers : mk'[s].pc = "made" => mk'[s] = mk[s]
  BY DEF CodesInv, CodesTypeOK
<1>5. SharesAreMade'
  BY <1>3, <1>4 DEF CodesInv, SharesAreMade
<1>6. CodesAreUnique'
  BY DEF CodesInv, CodesAreUnique
<1>7. ReadersOK'
  <2> SUFFICES ASSUME NEW r \in Readers PROVE ReaderOK(rd[r])'
    BY DEF ReadersOK
  <2>1. ReaderOK(rd[r]) /\ rd'[r] = rd[r] /\ db' = db /\ removed' = removed
    BY DEF CodesInv, ReadersOK, avars
  <2> QED BY <1>3, <2>1 DEF ReaderOK
<1> QED BY <1>1, <1>2, <1>5, <1>6, <1>7 DEF CodesInv

\* A step of a reader that saves nothing.
LEMMA ReaderMoves ==
    ASSUME CodesInv, NEW r \in Readers, NEW x \in ReaderRecords,
           rd' = [rd EXCEPT ![r] = x], ReaderOK(x), UNCHANGED <<avars, shares, mk, removed>>
    PROVE  CodesInv'
<1>1. CodesTypeOK'
  BY DEF CodesInv, CodesTypeOK
<1>2. MakersOK'
  BY DEF CodesInv, MakersOK, MakerOK, Owned, UnderUrlOf, avars
<1>3. SharesAreMade' /\ CodesAreUnique'
  BY DEF CodesInv, SharesAreMade, CodesAreUnique
<1>4. ReadersOK'
  BY DEF CodesInv, CodesTypeOK, ReadersOK, ReaderOK, avars
<1> QED BY <1>1, <1>2, <1>3, <1>4 DEF CodesInv

\* A creation ends in an error.
LEMMA FailKeepsCodes ==
    ASSUME CodesInv, NEW m \in Makers, mk[m].pc # "made", Fail(m),
           UNCHANGED <<avars, shares, rd, removed>>
    PROVE  CodesInv'
<1> DEFINE x == [NoMaker EXCEPT !.pc = "failed"]
<1>1. x \in MakerRecords /\ x.pc = "failed" /\ x.row = None
  BY DEF NoMaker, MakerRecords, MakerSteps
<1>2. MakerOK(x)
  BY <1>1 DEF MakerOK
<1>3. mk' = [mk EXCEPT ![m] = x]
  BY DEF Fail
<1> HIDE DEF x
<1> QED BY <1>1, <1>2, <1>3, MakerMoves

\* A creation draws and looks.
LEMMA LooksKeepCodes ==
    ASSUME CodesInv, AccountsInv, NEW m \in Makers,
           Begin(m) \/ LookSession(m) \/ LookTransfer(m)
    PROVE  CodesInv'
<1> USE CodesAssumption, NoneIsNoRow DEF CodesInv, CodesTypeOK, MakerRecords, MakerSteps
<1>1. CASE Begin(m)
  <2>1. PICK user \in CurrentUsers, table \in Tables, c \in Codes :
           mk' = [mk EXCEPT ![m] =
                    [pc |-> "look", looks |-> 0,
                     row |-> [db |-> db, table |-> table, code |-> c,
                              owner |-> user.user_id]]]
    BY <1>1 DEF Begin
  <2> DEFINE row == [db |-> db, table |-> table, code |-> c, owner |-> user.user_id]
             x == [pc |-> "look", looks |-> 0, row |-> row]
  <2>2. \E u \in UnderUrlOf(db) : u.id = user.user_id
    BY AccountsLetIn DEF LetInIsAccount
  <2>3. row \in ShareRows
    BY DEF ShareRows, AccountsInv, AccountsTypeOK, CurrentUsers, Tokens, AuthUsers
  <2>4. Owned(row)
    BY <2>2 DEF Owned
  <2>5. x \in MakerRecords /\ x.pc = "look" /\ x.row = row /\ x.looks = 0
    BY <2>3
  <2>6. Bound(row) \in Nat \ {0}
    BY DEF Bound
  <2>7. MakerOK(x)
    BY <2>3, <2>4, <2>5, <2>6 DEF MakerOK
  <2>8. mk' = [mk EXCEPT ![m] = x] /\ mk[m].pc = "idle"
        /\ UNCHANGED <<avars, shares, rd, removed>>
    BY <1>1, <2>1 DEF Begin
  <2> HIDE DEF x
  <2> QED BY <2>5, <2>7, <2>8, MakerMoves
<1>2. ASSUME NEW most \in Nat, mk[m].pc = "look", most = Bound(mk[m].row), Draw(m, most),
             UNCHANGED <<avars, shares, rd, removed>>
      PROVE  CodesInv'
  <2>1. PICK c \in Codes :
           mk' = [mk EXCEPT ![m] = [pc |-> IF @.looks + 1 = most THEN "insert" ELSE "look",
                                    row |-> [@.row EXCEPT !.code = c],
                                    looks |-> @.looks + 1]]
    BY <1>2 DEF Draw
  <2> DEFINE row == [mk[m].row EXCEPT !.code = c]
             x == [pc |-> IF mk[m].looks + 1 = most THEN "insert" ELSE "look",
                   row |-> row, looks |-> mk[m].looks + 1]
  <2>2. /\ mk[m].row \in ShareRows /\ Owned(mk[m].row) /\ mk[m].looks \in Nat
        /\ mk[m].looks < Bound(mk[m].row)
    BY <1>2 DEF MakersOK, MakerOK
  <2>3. row \in ShareRows /\ row.db = mk[m].row.db /\ row.owner = mk[m].row.owner
        /\ row.table = mk[m].row.table
    BY <2>2 DEF ShareRows
  <2>4. Owned(row) /\ Bound(row) = most
    BY <1>2, <2>2, <2>3 DEF Owned, Bound
  <2>5. x \in MakerRecords /\ x.pc # "made" /\ x.row = row /\ x.looks = mk[m].looks + 1
        /\ (x.pc = "look" => x.looks # most)
    BY <2>2, <2>3
  <2>6. MakerOK(x)
    <3>1. mk[m].looks + 1 <= most
      BY <1>2, <2>2
    <3>2. /\ x.pc # "made" /\ x.row \in ShareRows /\ Owned(x.row) /\ Bound(x.row) = most
          /\ x.looks <= most /\ (x.pc = "look" => x.looks # most)
      BY ONLY <2>3, <2>4, <2>5, <3>1
    <3>3. x.looks \in Nat
      BY ONLY <2>2, <2>5
    <3> HIDE DEF x, row
    <3> QED BY ONLY <1>2, <3>2, <3>3 DEF MakerOK
  <2>7. mk' = [mk EXCEPT ![m] = x]
    BY <2>1
  <2> HIDE DEF x
  <2> QED BY <1>2, <2>5, <2>6, <2>7, MakerMoves
<1>3. ASSUME mk[m].pc = "look", mk' = [mk EXCEPT ![m].pc = "insert"],
             UNCHANGED <<avars, shares, rd, removed>>
      PROVE  CodesInv'
  <2> DEFINE x == [mk[m] EXCEPT !.pc = "insert"]
  <2>1. x \in MakerRecords /\ x.pc = "insert" /\ x.row = mk[m].row /\ x.looks = mk[m].looks
    OBVIOUS
  <2>2. MakerOK(x)
    BY <1>3, <2>1 DEF MakersOK, MakerOK
  <2>3. mk' = [mk EXCEPT ![m] = x]
    BY <1>3
  <2> HIDE DEF x
  <2> QED BY <1>3, <2>1, <2>2, <2>3, MakerMoves
<1>4. ASSUME mk[m].pc = "look", Fail(m), UNCHANGED <<avars, shares, rd, removed>>
      PROVE  CodesInv'
  BY <1>4, FailKeepsCodes
<1>5. CASE LookSession(m)
  BY <1>2, <1>3, <1>5 DEF LookSession, Bound
<1>6. CASE LookTransfer(m)
  BY <1>2, <1>3, <1>4, <1>6 DEF LookTransfer, Bound
<1> QED BY <1>1, <1>5, <1>6

\* A row is inserted under a code that is free, or the creation fails.
LEMMA InsertKeepsCodes ==
    ASSUME CodesInv, NEW m \in Makers, Insert(m)
    PROVE  CodesInv'
<1>1. CASE shares' = shares /\ Fail(m)
  BY <1>1, FailKeepsCodes DEF Insert
<1>2. ASSUME Taken(mk[m].row) = {}, shares' = [shares EXCEPT ![m] = mk[m].row],
             mk' = [mk EXCEPT ![m].pc = "made"]
      PROVE  CodesInv'
  <2>1. /\ shares' = [shares EXCEPT ![m] = mk[m].row] /\ mk' = [mk EXCEPT ![m].pc = "made"]
        /\ mk[m].pc = "insert" /\ UNCHANGED <<avars, rd, removed>>
    BY <1>2 DEF Insert
  <2>2. mk[m].row \in ShareRows /\ Owned(mk[m].row)
    BY <2>1 DEF CodesInv, MakersOK, MakerOK
  <2>3. /\ \A s \in Makers : mk'[s].row = mk[s].row /\ mk'[s].looks = mk[s].looks
        /\ \A s \in Makers \ {m} : mk'[s] = mk[s] /\ shares'[s] = shares[s]
        /\ mk'[m].pc = "made" /\ shares'[m] = mk[m].row
    BY <2>1 DEF CodesInv, CodesTypeOK, MakerRecords
  <2>4. CodesTypeOK'
    BY <2>1, <2>2 DEF CodesInv, CodesTypeOK, MakerRecords, MakerSteps
  <2>5. MakersOK'
    BY <2>1, <2>2, <2>3 DEF CodesInv, MakersOK, MakerOK, Owned, UnderUrlOf, Bound, avars
  <2>6. SharesAreMade'
    BY <2>1, <2>3 DEF CodesInv, SharesAreMade
  <2>7. CodesAreUnique'
    <3>1. \A t \in Makers \ {m} : shares[t] # None =>
             ~(/\ shares[t].db = mk[m].row.db /\ shares[t].table = mk[m].row.table
               /\ shares[t].code = mk[m].row.code)
      BY <1>2 DEF Taken
    <3> QED BY <2>3, <3>1 DEF CodesInv, CodesAreUnique
  <2>8. ReadersOK'
    <3> SUFFICES ASSUME NEW r \in Readers PROVE ReaderOK(rd[r])'
      BY DEF ReadersOK
    <3>1. ReaderOK(rd[r]) /\ rd'[r] = rd[r] /\ db' = db /\ removed' = removed
      BY <2>1 DEF CodesInv, ReadersOK, avars
    <3>2. \A s \in Makers : mk[s].pc = "made" => mk'[s].pc = "made" /\ mk'[s].row = mk[s].row
      BY <2>3
    <3> QED BY <3>1, <3>2 DEF ReaderOK
  <2> QED BY <2>4, <2>5, <2>6, <2>7, <2>8 DEF CodesInv
<1> QED BY <1>1, <1>2 DEF Insert

\* A share is removed.
LEMMA RemoveKeepsCodes ==
    ASSUME CodesInv, NEW s \in Makers, Remove(s)
    PROVE  CodesInv'
<1>1. /\ shares' = [shares EXCEPT ![s] = None] /\ removed' = removed \cup {s}
      /\ UNCHANGED <<avars, mk, rd>>
  BY DEF Remove
<1>2. CodesTypeOK'
  BY <1>1 DEF CodesInv, CodesTypeOK
<1>3. MakersOK'
  BY <1>1 DEF CodesInv, MakersOK, MakerOK, Owned, UnderUrlOf, avars
<1>4. \A t \in Makers : shares'[t] = IF t = s THEN None ELSE shares[t]
  BY <1>1 DEF CodesInv, CodesTypeOK
<1>5. SharesAreMade' /\ CodesAreUnique'
  BY <1>1, <1>4 DEF CodesInv, SharesAreMade, CodesAreUnique
<1>6. ReadersOK'
  BY <1>1 DEF CodesInv, ReadersOK, ReaderOK, avars
<1> QED BY <1>2, <1>3, <1>5, <1>6 DEF CodesInv

\* A reader finds a share, or finds it again.
LEMMA ReadsKeepCodes ==
    ASSUME CodesInv, NEW r \in Readers, NEW c \in Codes,
           LookUpSession(r, c) \/ ResolveTransfer(r, c) \/ LoadMarked(r)
    PROVE  CodesInv'
<1> USE NoneIsNoRow DEF CodesInv, CodesTypeOK
<1>1. \A s \in Makers : shares[s] # None =>
         mk[s].pc = "made" /\ shares[s] = mk[s].row /\ shares[s] \in ShareRows
  BY DEF SharesAreMade
<1>2. CASE LookUpSession(r, c)
  <2>1. PICK s \in ByCode("session", c) :
           rd' = [rd EXCEPT ![r] = [pc |-> "save", found |-> s, id |-> s, copy |-> shares[s]]]
    BY <1>2 DEF LookUpSession
  <2> DEFINE x == [pc |-> "save", found |-> s, id |-> s, copy |-> shares[s]]
  <2>2. s \in Makers /\ shares[s] # None
    BY DEF ByCode
  <2>3. x \in ReaderRecords /\ ReaderOK(x)
    BY <1>1, <2>2 DEF ReaderRecords, ReaderSteps, ReaderOK
  <2> HIDE DEF x
  <2>4. rd' = [rd EXCEPT ![r] = x] /\ UNCHANGED <<avars, shares, mk, removed>>
    BY <1>2, <2>1 DEF LookUpSession, x
  <2> QED BY <2>3, <2>4, ReaderMoves
<1>3. CASE ResolveTransfer(r, c)
  <2>1. PICK s \in ByCode("transfer", c) :
           rd' = [rd EXCEPT ![r] = [pc |-> "load", found |-> s, id |-> None, copy |-> shares[s]]]
    BY <1>3 DEF ResolveTransfer
  <2> DEFINE x == [pc |-> "load", found |-> s, id |-> None, copy |-> shares[s]]
  <2>2. s \in Makers /\ shares[s] # None /\ shares[s].table = "transfer" /\ shares[s].db = db
    BY DEF ByCode
  <2>3. x \in ReaderRecords /\ ReaderOK(x)
    BY <1>1, <2>2 DEF ReaderRecords, ReaderSteps, ReaderOK
  <2> HIDE DEF x
  <2>4. rd' = [rd EXCEPT ![r] = x] /\ UNCHANGED <<avars, shares, mk, removed>>
    BY <1>3, <2>1 DEF ResolveTransfer, x
  <2> QED BY <2>3, <2>4, ReaderMoves
<1>4. CASE LoadMarked(r) /\ ByCode("transfer", rd[r].copy.code) = {}
  <2> DEFINE x == [NoReader EXCEPT !.pc = "missing"]
  <2>1. x \in ReaderRecords /\ ReaderOK(x)
    <3>1. x \in ReaderRecords /\ x.pc = "missing"
      BY ONLY DEF NoReader, ReaderRecords, ReaderSteps
    <3> QED BY ONLY <3>1 DEF ReaderOK
  <2> HIDE DEF x
  <2>2. rd' = [rd EXCEPT ![r] = x] /\ UNCHANGED <<avars, shares, mk, removed>>
    BY <1>4 DEF LoadMarked, End, x
  <2> QED BY <2>1, <2>2, ReaderMoves
<1>5. CASE LoadMarked(r) /\ ByCode("transfer", rd[r].copy.code) # {}
  <2>1. PICK s \in ByCode("transfer", rd[r].copy.code) :
           rd' = [rd EXCEPT ![r] = [@ EXCEPT !.pc = "save", !.id = s, !.copy = shares[s]]]
    BY <1>5 DEF LoadMarked
  <2> DEFINE x == [rd[r] EXCEPT !.pc = "save", !.id = s, !.copy = shares[s]]
             f == rd[r].found
  <2>2. /\ s \in Makers /\ shares[s] # None
        /\ shares[s].db = db /\ shares[s].table = "transfer" /\ shares[s].code = rd[r].copy.code
    BY DEF ByCode
  <2>3. /\ f \in Makers /\ mk[f].pc = "made" /\ rd[r].copy = mk[f].row
        /\ rd[r].copy.table = "transfer" /\ rd[r].copy.db = db
    BY <1>5 DEF LoadMarked, ReadersOK, ReaderOK
  <2>4. f \notin removed => shares[f] = rd[r].copy /\ shares[f] # None
    BY <2>3 DEF SharesAreMade, MakersOK, MakerOK
  <2>5. s = f \/ f \in removed
    BY <2>2, <2>3, <2>4 DEF CodesAreUnique
  <2>6. x.pc = "save" /\ x.id = s /\ x.copy = shares[s] /\ x.found = f /\ x \in ReaderRecords
    <3>1. rd[r] \in ReaderRecords /\ shares[s] \in ShareRows \cup {None} /\ s \in Makers
      BY <1>1, <2>2
    <3> QED BY ONLY <3>1 DEF ReaderRecords, ReaderSteps
  <2>7. ReaderOK(x)
    BY <1>1, <2>2, <2>5, <2>6 DEF ReaderOK
  <2> HIDE DEF x
  <2>8. rd' = [rd EXCEPT ![r] = x] /\ UNCHANGED <<avars, shares, mk, removed>>
    BY <1>5, <2>1 DEF LoadMarked, x
  <2> QED BY <2>6, <2>7, <2>8, ReaderMoves
<1> QED BY <1>2, <1>3, <1>4, <1>5

\* A copy is saved: the row is there, or comes back under a code that is free.
LEMMA SaveKeepsCodes ==
    ASSUME CodesInv, NEW r \in Readers, SaveCopy(r)
    PROVE  CodesInv'
<1> DEFINE s == rd[r].id
<1>1. /\ s \in Makers /\ mk[s].pc = "made" /\ rd[r].copy = mk[s].row
      /\ mk[s].row \in ShareRows
  BY DEF SaveCopy, CodesInv, ReadersOK, ReaderOK, MakersOK, MakerOK
<1>2. \A p \in {"error", "answered"} :
         [NoReader EXCEPT !.pc = p] \in ReaderRecords /\ ReaderOK([NoReader EXCEPT !.pc = p])
  BY DEF NoReader, ReaderRecords, ReaderSteps, ReaderOK
<1>3. CASE shares' = shares /\ End(r, "error")
  <2>1. rd' = [rd EXCEPT ![r] = [NoReader EXCEPT !.pc = "error"]]
        /\ UNCHANGED <<avars, shares, mk, removed>>
    BY <1>3 DEF SaveCopy, End
  <2> QED BY <1>2, <2>1, ReaderMoves
<1>4. ASSUME shares[s] # None \/ Taken(rd[r].copy) = {},
             shares' = [shares EXCEPT ![s] = rd[r].copy], End(r, "answered")
      PROVE  CodesInv'
  <2>1. /\ shares' = [shares EXCEPT ![s] = mk[s].row]
        /\ rd' = [rd EXCEPT ![r] = [NoReader EXCEPT !.pc = "answered"]]
        /\ UNCHANGED <<avars, mk, removed>>
    BY <1>1, <1>4 DEF SaveCopy, End
  <2>2. \A t \in Makers : shares'[t] = IF t = s THEN mk[s].row ELSE shares[t]
    BY <1>1, <2>1 DEF CodesInv, CodesTypeOK
  <2>3. CodesTypeOK'
    BY <1>1, <1>2, <2>1 DEF CodesInv, CodesTypeOK
  <2>4. MakersOK'
    BY <2>1 DEF CodesInv, MakersOK, MakerOK, Owned, UnderUrlOf, avars
  <2>5. SharesAreMade'
    BY <1>1, <2>1, <2>2 DEF CodesInv, SharesAreMade
  <2>6. CodesAreUnique'
    <3>1. CASE shares[s] # None
      BY <2>2, <3>1 DEF CodesInv, SharesAreMade, CodesAreUnique
    <3>2. CASE shares[s] = None
      <4>1. \A t \in Makers : shares[t] # None =>
               ~(/\ shares[t].db = mk[s].row.db /\ shares[t].table = mk[s].row.table
                 /\ shares[t].code = mk[s].row.code)
        BY <1>1, <1>4, <3>2 DEF Taken
      <4> QED BY <2>2, <4>1 DEF CodesInv, CodesAreUnique
    <3> QED BY <3>1, <3>2
  <2>7. ReadersOK'
    BY <1>2, <2>1 DEF CodesInv, CodesTypeOK, ReadersOK, ReaderOK, avars
  <2> QED BY <2>3, <2>4, <2>5, <2>6, <2>7 DEF CodesInv
<1> QED BY <1>3, <1>4 DEF SaveCopy

\* The process is started again: what is stored stays, requests are lost.
LEMMA RestartKeepsCodes ==
    ASSUME CodesInv, UsersGrow, Restart
    PROVE  CodesInv'
<1>1. /\ mk' = [m \in Makers |->
                  IF mk[m].pc \in {"look", "insert"} THEN [NoMaker EXCEPT !.pc = "failed"] ELSE mk[m]]
      /\ rd' = [r \in Readers |->
                  IF rd[r].pc \in {"load", "save"} THEN [NoReader EXCEPT !.pc = "error"] ELSE rd[r]]
      /\ UNCHANGED <<shares, removed>>
  BY DEF Restart
<1>2. CodesTypeOK'
  BY <1>1 DEF CodesInv, CodesTypeOK, MakerRecords, ReaderRecords, NoMaker, NoReader,
              MakerSteps, ReaderSteps
<1>3. \A m \in Makers : mk[m].pc = "made" \/ mk'[m].pc = "made" => mk'[m] = mk[m]
  BY <1>1 DEF NoMaker
<1>4. MakersOK'
  <2> SUFFICES ASSUME NEW m \in Makers PROVE MakerOK(mk[m])'
    BY DEF MakersOK
  <2>1. CASE mk[m].pc \in {"look", "insert"}
    BY <1>1, <2>1 DEF NoMaker, MakerOK
  <2>2. CASE mk[m].pc \notin {"look", "insert"}
    <3>1. mk'[m] = mk[m] /\ MakerOK(mk[m])
      BY <1>1, <2>2 DEF CodesInv, MakersOK
    <3> DEFINE row == mk[m].row
    <3>2. row' = row /\ (Owned(row) => Owned(row)')
      BY <3>1, OwnedStays DEF Owned, UnderUrlOf
    <3> QED BY <2>2, <3>1, <3>2 DEF MakerOK, Bound
  <2> QED BY <2>1, <2>2
<1>5. SharesAreMade' /\ CodesAreUnique'
  BY <1>1, <1>3 DEF CodesInv, SharesAreMade, CodesAreUnique
<1>6. ReadersOK'
  BY <1>1 DEF NoReader, ReadersOK, ReaderOK
<1> QED BY <1>2, <1>4, <1>5, <1>6 DEF CodesInv

-----------------------------------------------------------------------------
\* No step on shares changes an account but as Accounts allows.
LEMMA StepIsOfAccounts == [Next]_vars => [AccountsNext]_avars
  BY DEF Next, vars, AccountsNext, Restart, Begin, Make, LookSession, LookTransfer, Insert,
         Remove, Read, LookUpSession, ResolveTransfer, LoadMarked, SaveCopy

\* Every step keeps both invariants.
LEMMA StepKeepsCodes ==
    ASSUME AccountsInv, CodesInv, [Next]_vars
    PROVE  AccountsInv' /\ CodesInv'
<1>1. [AccountsNext]_avars
  BY StepIsOfAccounts
<1>2. AccountsInv' /\ UsersGrow
  BY <1>1, StepKeepsAccounts DEF UsersGrow
<1>3. CASE AccountsStep /\ UNCHANGED cvars
  <2>1. db' = db
    BY <1>3 DEF AccountsStep, Register, RegisterLook, RegisterInsert, RegisterAnswer, Login, Lapse
  <2> QED BY <1>2, <1>3, <2>1, AccountsStepKeepsCodes
<1>4. ASSUME NEW m \in Makers, Begin(m) \/ Make(m) \/ Remove(m) PROVE CodesInv'
  BY <1>4, LooksKeepCodes, InsertKeepsCodes, RemoveKeepsCodes DEF Make
<1>5. ASSUME NEW r \in Readers, Read(r) PROVE CodesInv'
  <2>1. CASE SaveCopy(r)
    BY <2>1, SaveKeepsCodes
  <2>2. CASE LoadMarked(r)
    <3>1. rd[r].copy \in ShareRows
      BY <2>2, NoneIsNoRow
         DEF LoadMarked, CodesInv, ReadersOK, ReaderOK, MakersOK, MakerOK
    <3>2. rd[r].copy.code \in Codes
      BY <3>1 DEF ShareRows
    <3> QED BY <2>2, <3>2, ReadsKeepCodes
  <2>3. ASSUME NEW c \in Codes, LookUpSession(r, c) \/ ResolveTransfer(r, c) PROVE CodesInv'
    BY <2>3, ReadsKeepCodes
  <2> QED BY <1>5, <2>1, <2>2, <2>3 DEF Read
<1>6. CASE Restart
  BY <1>2, <1>6, RestartKeepsCodes
<1>7. CASE UNCHANGED vars
  BY <1>2, <1>7, AccountsStepKeepsCodes DEF vars, avars
<1> QED BY <1>2, <1>3, <1>4, <1>5, <1>6, <1>7 DEF Next

\* The invariants of accounts and of codes, together.
LEMMA CodesInvariant == Spec => [](AccountsInv /\ CodesInv)
  BY CodesInitHolds, StepKeepsCodes, PTL DEF Spec

\* Sessions and transfers, their creation and removal, restarts included, leave
\* accounts and tokens to what Accounts lets happen to them.
THEOREM SharesKeepToAccounts == Spec => AccountsSpec
<1>1. Init => AccountsInit
  BY DEF Init
<1> QED BY <1>1, StepIsOfAccounts, PTL DEF Spec, AccountsSpec

\* Every variable keeps its type, and no creation looks for a code more often
\* than create_session and _create_unique_transfer_code do.
THEOREM TypeCorrect == Spec => []TypeOK
<1>1. AccountsInv /\ CodesInv => TypeOK
  BY DEF AccountsInv, CodesInv, CodesTypeOK, MakerRecords, ReaderRecords, MakersOK, MakerOK,
         Bound, TypeOK
<1> QED BY <1>1, CodesInvariant, PTL

\* Whatever registrations race and however often the process is started again,
\* whom a token the service answered lets in is an account of a database under
\* the URL it works with (auth_service.py:56, dependencies.py:39).
THEOREM OnlyAccountsAreLetIn == Spec => []LetInIsAccount
  BY CodesInvariant, AccountsLetIn, PTL

\* An account whose creation was answered is never changed or doubled
\* (auth_service.py:33).
THEOREM AnsweredAccountsAreKept == Spec => []RegisteredKeepsAccount
  BY CodesInvariant, AccountsKept, PTL

\* Every share created with a token the service answered belongs to an account of
\* a database under its own URL (dependencies.py:74).
THEOREM EveryShareHasItsOwner == Spec => []OwnersAreAccounts
<1>1. CodesInv => OwnersAreAccounts
  BY DEF CodesInv, SharesAreMade, MakersOK, MakerOK, Owned, OwnersAreAccounts
<1> QED BY <1>1, CodesInvariant, PTL

\* However many codes are drawn twice, passed unchecked or saved again, a code
\* that was answered leads to its share alone until that is removed.
THEOREM CodesLeadToTheirShares == Spec => []AnsweredCodeIsItsShare
<1>1. CodesInv => AnsweredCodeIsItsShare
  <2> SUFFICES ASSUME CodesInv, NEW m \in Makers, mk[m].pc = "made", m \notin removed
               PROVE  shares[m] = mk[m].row /\ Taken(shares[m]) = {m}
    BY DEF AnsweredCodeIsItsShare
  <2>1. shares[m] = mk[m].row /\ shares[m] # None
    BY NoneIsNoRow DEF CodesInv, SharesAreMade, MakersOK, MakerOK
  <2>2. \A s \in Taken(shares[m]) : s = m
    BY <2>1 DEF Taken, CodesInv, CodesAreUnique
  <2>3. m \in Taken(shares[m])
    BY <2>1 DEF Taken
  <2> QED BY <2>1, <2>2, <2>3
<1> QED BY <1>1, CodesInvariant, PTL

\* A download marks the transfer whose file it serves, or one that was removed
\* while it was on its way (routes/transfers.py:136 and 143).
THEOREM DownloadsMarkWhatTheyServe == Spec => []MarksWhatItServes
<1>1. CodesInv => MarksWhatItServes
  BY DEF CodesInv, ReadersOK, ReaderOK, MarksWhatItServes
<1> QED BY <1>1, CodesInvariant, PTL

=============================================================================

SPECIFICATION Spec
CONSTANTS
    Emails = {ann, bob}
    Passwords = {p1, p2}
    d1 = d1
    d2 = d2
    d3 = d3
    Databases = {d1, d2, d3}
    UrlOf <- MCUrlOf
    Registrations = {g1, g2}
    MaxRestarts = 1
    None = None
    Codes = {c1, c2}
    Makers = {m1, m2}
    Readers = {r1}
    SessionLooks = 2
    TransferLooks = 2
INVARIANTS
    TypeOK
    LetInIsAccount
    RegisteredKeepsAccount
    OwnersAreAccounts
    AnsweredCodeIsItsShare
    MarksWhatItServes
SYMMETRY Symmetry
\* Every request may be over and every token lapsed.
CHECK_DEADLOCK FALSE

CONSTANTS
    a1 = a1
    c1 = c1
    c2 = c2
    Accounts = {a1}
    Chars = {c1, c2}
    Owner <- OneOwner
    LingerTicks = 1
    MaxSessions = 3
    MaxLogins = 2
    MaxWork = 2
    NoChar = NoChar
    NoSession = NoSession
    Out = Out
SPECIFICATION Spec
INVARIANTS
    ShutdownSavesAll

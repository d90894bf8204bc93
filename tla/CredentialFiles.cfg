SPECIFICATION Spec
CONSTANTS
    a1 = a1
    a2 = a2
    r1 = r1
    r2 = r2
    NoAccount = NoAccount
    Accounts = {a1}
    Requests = {r1, r2}
    Keys = {"suspended", "weight"}
    Values = {0, 1}
    MaxPairs = 3
INVARIANTS
    TypeOK
    AnswersHold
    NeverLockedOut
PROPERTIES
    RuntimeFollowsFile

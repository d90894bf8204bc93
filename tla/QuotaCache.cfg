SPECIFICATION Spec
CONSTANTS
    a1 = a1
    p1 = p1
    p2 = p2
    p3 = p3
    NoAccount = NoAccount
    Accounts = {a1}
    Probers = {p1, p2, p3}
    MinInterval = 3
INVARIANTS
    TypeOK
    ReloadsAreRationed
PROPERTIES
    OpenConsoleCostsNothing

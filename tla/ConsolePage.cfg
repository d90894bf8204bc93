SPECIFICATION Spec
CONSTANTS
    a1 = a1
    a2 = a2
    c1 = c1
    c2 = c2
    NoToken = NoToken
    NoCall = NoCall
    Accounts = {a1}
    Tokens = {"good"}
    Buttons = {"suspend_all", "resume_all", "set_weight_all"}
    Values = {0}
    Calls = {c1, c2}
SYMMETRY MCSymmetry
INVARIANTS
    TableFollowsActions
    OneSweepAtATime
    NothingStaysDisabled

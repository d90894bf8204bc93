SPECIFICATION FairSpec
CONSTANTS
    s1 = s1
    s2 = s2
    e1 = e1
    e2 = e2
    h1 = h1
    h2 = h2
    p1 = p1
    p2 = p2
    NoState = NoState
    NoEmail = NoEmail
    States = {s1}
    Emails = {e1, e2}
    Handlers = {h1, h2}
    Pollers = {p1}
    SessionTTL = 2
    MaxVerifyAttempts = 2
INVARIANTS
    GuessesWithinBudget
    HandedBackMeansGone
PROPERTIES
    ForgottenForGood
    VerifiedIsHandedBack

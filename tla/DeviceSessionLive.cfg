SPECIFICATION LiveSpec
CONSTANTS
    s1 = s1
    t1 = t1
    k1 = k1
    k2 = k2
    k3 = k3
    r1 = r1
    r2 = r2
    m1 = m1
    m2 = m2
    NoToken = NoToken
    NoTicket = NoTicket
    NoSubject = NoSubject
    Subjects = {s1}
    Subject <- MCOneToken
    Tokens = {t1}
    TicketIds = {k1, k2}
    Requests = {r1, r2}
    Mints = {m1, m2}
    FirstTicketWait = 1
    MintCooldown = 2
    RefusedFloor = 2
    RenewLead = 1
    UnsupportedBackoff = 3
    Lifetimes = {3}
    RefusalsBeforeStandDown = 2
PROPERTIES
    SignReturns
    MintingEnds
    SessionRecovers

SPECIFICATION CountedSpec
CONSTANTS
    s1 = s1
    t1 = t1
    t2 = t2
    k1 = k1
    k2 = k2
    k3 = k3
    r1 = r1
    r2 = r2
    m1 = m1
    m2 = m2
    m3 = m3
    NoToken = NoToken
    NoTicket = NoTicket
    NoSubject = NoSubject
    Subjects = {s1}
    Subject <- MCRotation
    Tokens = {t1, t2}
    TicketIds = {k1, k2, k3}
    Requests = {r1, r2}
    Mints = {m1, m2}
    FirstTicketWait = 1
    MintCooldown = 2
    RefusedFloor = 2
    RenewLead = 3
    UnsupportedBackoff = 5
    Lifetimes = {0, 1, 4}
    RefusalsBeforeStandDown = 3
SYMMETRY MCSymmetry
INVARIANTS
    ThreeRefusalsStandDown

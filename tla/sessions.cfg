SPECIFICATION Spec
CONSTANTS
    Users = {visitor}
    DemoUser = visitor
    Roles = {admin, guest}
    PlainRoles = {guest}
    admin = admin
    guest = guest
    Requests = {r1, r2}
    Tokens = {t1}
    visitor = visitor
    r1 = r1
    r2 = r2
    t1 = t1
    t2 = t2
    TTL = 3
    MaxTime = 3
    MaxPassword = 1
    NoSession = NoSession
SYMMETRY Alike
INVARIANTS TypeOK RightsAreCurrent ChangesEndSessions
PROPERTIES EndedStaysEnded PruneMatchesRead

SPECIFICATION Spec
CONSTANTS
    Users = {op}
    DemoUser = visitor
    Roles = {admin, guest}
    PlainRoles = {guest}
    admin = admin
    guest = guest
    Requests = {r1}
    Tokens = {t1}
    op = op
    visitor = visitor
    r1 = r1
    t1 = t1
    TTL = 3
    MaxTime = 1
    MaxPassword = 1
    NoSession = NoSession
SYMMETRY Alike
INVARIANT PasswordEndsSessions

SPECIFICATION Spec
CONSTANTS
    demo = demo
    alice = alice
    x = x
    y = y
    z = z
    DemoUser = demo
    Accounts = {demo}
    LoginFrom = {x}
    CommandFrom = {x, y, z}
    LoginLimit = 1
    ClientLimit = 0
    DemoLimit = 1
    Factor = 1
    Span = 1
    SweepAt = 2
    MaxCount = 2
    MaxResets = 1
    MaxTime = 2
INVARIANTS
    LimitPerWindow
    RefusedOverOwnBudget
    MapIsSwept
SYMMETRY Alike
CHECK_DEADLOCK FALSE

SPECIFICATION Spec
CONSTANTS
    t1 = t1
    t2 = t2
    t3 = t3
    alice = alice
    bob = bob
    Tasks <- ThreeTasks
    Users <- TwoUsers
    NoUser = NoUser
SYMMETRY Symmetry
INVARIANTS TypeOK LogoutClears LoginBinds

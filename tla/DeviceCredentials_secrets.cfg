SPECIFICATION Spec
CONSTANTS
    t1 = t1
    t2 = t2
    t3 = t3
    other = other
    Tasks <- TwoTasks
    Devices <- TwoDevices
    Here = here
    Targets <- TwoDevices
    NoCred = NoCred
    MaxGen = 4
SYMMETRY Symmetry
INVARIANTS StoredIsCurrent SignsCurrent

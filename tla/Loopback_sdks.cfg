SPECIFICATION Spec
CONSTANTS
    l1 = l1
    l2 = l2
    l3 = l3
    Logins <- ThreeLogins
    Sdks <- AllSdks
    None = None
SYMMETRY Symmetry
INVARIANTS OwnCode AuthorizedSucceeds NoServerLeft

SPECIFICATION Spec
CONSTANTS
    t1 = t1
    t2 = t2
    short = short
    long = long
    stamp1 = stamp1
    stamp2 = stamp2
    Tasks <- TwoTasks
    Sdks <- AllSdks
    Objects <- ShortAndLong
    Size <- Sizes
    Fixed = tmp
    Stamps <- TwoNames
    Path = path
    Nothing = Nothing
    CanCrash = TRUE
SYMMETRY Symmetry
VIEW View
CONSTRAINT OneMishap
INVARIANTS PathIsWhole NoLitter
PROPERTIES DeliversOwn PathStays

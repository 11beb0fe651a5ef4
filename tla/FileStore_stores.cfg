SPECIFICATION AnySpec
CONSTANTS
    t1 = t1
    t2 = t2
    t3 = t3
    short = short
    long1 = long1
    long2 = long2
    m1 = m1
    m2 = m2
    m3 = m3
    Tasks <- ThreeTasks
    Mutexes <- ThreeMutexes
    Values <- ThreeValues
    Size <- Sizes
    NoValue = NoValue
    Error = Error
SYMMETRY Symmetry
INVARIANTS TypeOK FileIsLast OneId
PROPERTY ImplementsRegister

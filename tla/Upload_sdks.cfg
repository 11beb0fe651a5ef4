SPECIFICATION Spec
CONSTANTS
    t1 = t1
    t2 = t2
    text1 = text1
    text2 = text2
    long = long
    Tasks <- TwoTasks
    Sdks <- AllSdks
    Contents <- ThreeContents
    Length <- LengthOf
    NoContent = NoContent
    MaxBackups = 2
SYMMETRY Symmetry
INVARIANTS ConfirmedIsStored HashIsOfObject OncePerHash

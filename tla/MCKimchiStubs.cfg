SPECIFICATION Spec
CONSTANTS
    Nothing = Nothing
    t1 = t1
    t2 = t2
    s1 = s1
    v1 = v1
    i1 = i1
    k1 = k1
    Threads <- MCThreads
    Srs <- MCSrs
    Vectors <- MCVectors
    Indexes <- MCIndexes
    Keys <- MCKeys
    Elems = {0, 1}
    MaxLen = 1
    MaxRows = 2
    WrapRows = {1}
    Publics = {1}
    MaxFile = 1
    MaxProofs = 1
SYMMETRY Symmetry
INVARIANTS
    TypeOK
    SrsOutlivesHolders
    BasisIsThere
    HonestProofsVerify
    ProofsAnswerTheirCall
CHECK_DEADLOCK FALSE

SPECIFICATION Spec
CONSTANTS
    a = a
    b = b
    c = c
    k1 = k1
    k2 = k2
    Parties = {a, b}
    Keys = {k1, k2}
    AlgorithmOf <- Algorithms
    Fields <- AllFields
    SignedFields <- FourFields
    MaxSignings = 2
    MaxEdits = 1
    NoDocument = NoDocument
SYMMETRY Symmetry
INVARIANTS
    TypeOK
    OnlyKnownLosses
    SignatureOutlivesHops
    VouchedIsSigned

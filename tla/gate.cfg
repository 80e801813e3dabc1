SPECIFICATION Spec
CONSTANTS
    s1 = s1
    s2 = s2
    Schemes <- TwoSchemes
    Calls <- AllCalls
INVARIANTS
    TypeOK
    ServedMeansAllowed
    BindingsAgree
    ClientLearnsError

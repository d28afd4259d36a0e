\* Two session keys and two session ids that change hands between three
\* operations; the system may stop when all three are done.
SPECIFICATION Spec
CONSTANTS
    k1 = k1
    k2 = k2
    s1 = s1
    s2 = s2
    o1 = o1
    o2 = o2
    o3 = o3
    w1 = w1
    None = None
    Keys <- TwoKeys
    SessionIds <- TwoSessionIds
    Ops <- ThreeOps
    Waiters <- OneWaiter
SYMMETRY Symmetric
CHECK_DEADLOCK FALSE
INVARIANTS
    TypeOK
    IndexesAgree
    NoForgottenWaiter
    
    
PROPERTIES
    SuccessorIsSafe

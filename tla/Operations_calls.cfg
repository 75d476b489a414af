SPECIFICATION Spec
CONSTANTS
    s1 = s1
    k1 = k1
    k2 = k2
    p1 = p1
    c1 = c1
    Sessions <- MCOneSession
    Keys <- MCKeys
    NoKey = NoKey
    Private <- MCPrivateKey
    Digestible <- MCPublicKey
    Parts <- MCOnePart
    Callers <- MCCallers
    MaxAccumulated = 2
    MaxSaved = 1
    MaxGiven = 3
INVARIANTS
    InputExact
    PrivateNeedsLogin
    AccumulationBounded
PROPERTY DestroyedKeyUnusable

SPECIFICATION Spec
CONSTANTS
    a = a
    b = b
    s1 = s1
    s2 = s2
    Files = {1, 2}
    Texts <- MCTexts
    SymbolsOf <- MCSymbolsOf
    DepsOf <- MCDepsOf
    Initial <- MCInitial
    Workers = {w1, w2}
    MaxTime <- MCMaxTime
    None = None
INVARIANTS
    IndexIsComplete
    FreshIsCurrent
    VerifiedIsServed
PROPERTIES
    RequestReturns

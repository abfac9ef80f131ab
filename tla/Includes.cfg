SPECIFICATION Spec
CONSTANTS
    f = f
    g = g
    h = h
    NotFound = NotFound
    Unreadable = Unreadable
    NoOrigin = NoOrigin
    Spellings <- MCSpellings
    Resolve <- MCResolve
    Texts <- MCTexts
    Sources <- MCSources
    Scopes <- MCScopes
INVARIANTS
    AgreesWithReading
PROPERTIES
    Ends
CHECK_DEADLOCK FALSE

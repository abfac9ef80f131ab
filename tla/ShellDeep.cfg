SPECIFICATION Spec
CONSTANTS
    base = base
    lib = lib
    app = app
    clash = clash
    deep = deep
    self = self
    NotFound = NotFound
    Unreadable = Unreadable
    NoOrigin = NoOrigin
    NoContext = NoContext
    NoSession = NoSession
    Reserved <- MCReserved
    Bindings <- MCBindings
    Text <- MCText
    Spellings <- MCSpellings
    Resolve <- MCResolve
    Users <- NestingUsers
PROPERTIES
    FailedIncludeAppliesNothing

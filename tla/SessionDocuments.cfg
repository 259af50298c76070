CONSTANTS
    a = a
    b = b
    c = c
    lib = lib
    ws = ws
    t1 = t1
    t2 = t2
    bad = bad
    Empty = Empty
    NoDocument = NoDocument
    NoBody = NoBody
    NoUri = NoUri
    Closed = Closed
    Uris = {a, b, c}
    Roots = {lib, ws}
    WorkspaceRoots = {ws}
    FilesOf <- MCFilesOf
    Texts = {t1, t2, bad, Empty}
    Broken = {bad}
    EditorTexts = {t1, bad, Empty}
    MaxRevision = 4
    MaxEpoch = 3
SPECIFICATION Spec
INVARIANTS
    TypeOK
    IndexConsistent
    DetachedExact
    ClosedFileIsLoaded
PROPERTIES
    StampNamesContent
    ImplementsStore
CHECK_DEADLOCK FALSE

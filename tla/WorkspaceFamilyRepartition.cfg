CONSTANTS
    libPackage = libPackage
    subPackage = subPackage
    x = x
    input = input
    lib = lib
    sub = sub
    libRoot = libRoot
    subRoot = subRoot
    looseRoot = looseRoot
    t1 = t1
    t2 = t2
    Empty = Empty
    NoDocument = NoDocument
    NoBody = NoBody
    NoUri = NoUri
    Closed = Closed
    Uris = {libPackage, subPackage, x, input}
    Roots = {libRoot, subRoot, looseRoot}
    WorkspaceRoots = {libRoot, subRoot, looseRoot}
    FilesOf <- MCFilesOf
    Texts = {t1, t2, Empty}
    Broken = {}
    EditorTexts = {t1}
    MaxRevision = 8
    MaxEpoch = 8
    Dirs = {lib, sub}
    Ancestors <- MCAncestors
    PackageFile <- MCPackageFile
    RootOf <- MCRootOf
    LooseRoot = looseRoot
    Scratch = input
    AlwaysPresent = {}
SPECIFICATION FamilySpec
INVARIANTS
    ClosedFileIsLoaded
CHECK_DEADLOCK FALSE

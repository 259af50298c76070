\* Two handlers at a time, two documents, every kind of message, reloads.
SPECIFICATION Spec
CONSTANTS
    Docs = {a, b}
    MaxMessages = 3
    Handlers = {h1, h2}
    MaxLoads = 1
    Kinds = {"open", "change", "close", "save", "config", "request"}
    ResetAllowed = TRUE
SYMMETRY Symmetry
INVARIANTS TypeOK QuiescentTextIsEditors QuiescentDiagnosticsAreEditors
PROPERTY AnswerIsCurrent
CHECK_DEADLOCK FALSE

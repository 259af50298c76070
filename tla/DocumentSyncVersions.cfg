\* Two overlapping edits of one document.
SPECIFICATION Spec
CONSTANTS
    Docs = {a}
    MaxMessages = 3
    Handlers = {h1, h2}
    MaxLoads = 0
    Kinds = {"open", "change"}
    ResetAllowed = FALSE
PROPERTY OlderVersionNeverOverwrites
CHECK_DEADLOCK FALSE

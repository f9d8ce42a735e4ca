\* ifupdown-ng.conf: comments, joined lines and all newlines, in a short buffer.
SPECIFICATION Spec
CONSTANTS
    Char <- SomeChars
    Leftover <- SomeLeftover
    Size = 12
    Documents <- SomeDocuments
    Settings <- SomeSettings
INVARIANTS
    TypeOK
    LinesAsWritten
    SettingsAsWritten

SPECIFICATION Fair
CONSTANTS
    Lines <- MCLines
    MaxLines <- MCMaxLines
    StartCount <- MCStartCount
INVARIANTS
    TypeOK
    OwnMarks
    InStep
    NeverStarved
PROPERTIES
    ServerByTheRules
    AllEnd
\* games end and programs are killed
CHECK_DEADLOCK FALSE

SPECIFICATION Fair
CONSTANTS
    Lines <- MCLines
    MaxLines <- MCMaxLines
    StartCount <- MCStartCount
INVARIANTS
    TurnReaches
\* games end and programs are killed
CHECK_DEADLOCK FALSE

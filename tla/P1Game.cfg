SPECIFICATION Fair
CONSTANTS
    Words <- MCWords
    Moves <- MCMoves
INVARIANTS
    BoardsAgree
    NoMutualWait
PROPERTIES
    PlaysByTheRules
    EndsTogether
    AlarmedLoses
\* games end and programs are killed
CHECK_DEADLOCK FALSE

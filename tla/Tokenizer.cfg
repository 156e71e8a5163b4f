SPECIFICATION Spec
CONSTANTS
    Texts <- MCTexts
    Types = {"IDENTIFIER", "CLOSE"}
    MAX_TOKENS = 6
    NoToken = NoToken
INVARIANTS ReadsBack
PROPERTIES ImplementsCursor
CHECK_DEADLOCK FALSE

SPECIFICATION Spec
CONSTANTS
    Streams <- ThreeMessages
    Messages <- Three
    Methods <- ServerMethods
    Needs <- NeedsOf
    MaxMessage = 12
INVARIANTS TypeOK AnswersMatch ServedInStep
CHECK_DEADLOCK FALSE

SPECIFICATION Spec
CONSTANTS
    Labels <- MCLabels
    RuleInputs <- MCRuleInputs
    MaxInputs = 2
    MaxLines = 4
    MaxArguments = 2
    BufferSize = 7
    MaxTokens = 2
    MaxLength = 6
INVARIANTS TypeOK InputsAsWritten ValuesAsGiven NothingLeft WordsAsTyped
CHECK_DEADLOCK FALSE

SPECIFICATION Spec
CONSTANTS
    Buffer = 4
    MaxWait = 2
    MaxTokens = 9
PROPERTY NothingDelays

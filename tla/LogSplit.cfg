SPECIFICATION Spec
CONSTANTS
    Buffer = 3
    MaxWait = 2
    MaxTokens = 9
INVARIANT NothingLost

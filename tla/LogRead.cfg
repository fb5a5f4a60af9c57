SPECIFICATION Spec
CONSTANTS
    Buffer = 4
    MaxWait = 2
    MaxTokens = 13
INVARIANT TypeOK
INVARIANT InOrder
INVARIANT LostOnlyByCut
PROPERTY StreamSafety
PROPERTY EntriesArrive

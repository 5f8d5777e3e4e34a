CONSTANTS
    maxMessages = 2
    maxMessageBytes = 4
    MessageSizes <- MCMessageSizes
    MaxEntries = 3
SPECIFICATION Spec
INVARIANT TooLongReturnsUnsent
CHECK_DEADLOCK FALSE

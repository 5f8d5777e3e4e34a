CONSTANTS
    maxItems = 2
    MaxTotal = 4
    maxMessages = 2
    maxMessageBytes = 4
    MessageSizes <- MCMessageSizes
    MaxEntries = 4
SPECIFICATION AddResourcesSpec
INVARIANTS
    PagesAreExact
    NoDuplicateSend
    RequestWithinLimits
    CreatedMeansQueued
PROPERTIES
    KeepsPromise
    KeepsSendPromise
    HandlerReturns
CHECK_DEADLOCK FALSE

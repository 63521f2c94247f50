SPECIFICATION Spec
CONSTANTS
    Chunks <- TwoChunks
    Puts <- TwoBodies
    Appends <- OneChunk
    MaxBody = 2
    Scopes <- StoreScopes
INVARIANTS CommittedVerifies ChainTellsHistory PruneEstimateExact AddressesAreStable ResolversAgree

SPECIFICATION Spec
CONSTANTS
    Durable <- TwoWorlds
    Memory <- OneMemory
    Ledger <- DeleteLedger
    Subs <- StreamSubs
    SdkSubs <- StreamSdk
    Patterns <- StreamPatterns
    MaxListen = 1
    RingMax = 2
    Scopes <- StreamScopes
CHECK_DEADLOCK FALSE
INVARIANTS  ReplayTellsTheSame
 

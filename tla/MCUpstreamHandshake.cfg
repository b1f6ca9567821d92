SPECIFICATION FairSpec
CONSTANTS
    MaxTokens = 10
    MaxLegs = 12
INVARIANTS NoRetryAfterAnswer NothingSentAfterRefusal OneHandshakePerSocket NeverExhausted
PROPERTY ConnectEnds
CHECK_DEADLOCK FALSE

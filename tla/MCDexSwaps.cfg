CONSTANTS
    One = 64
    PriceAtBit <- MCPriceAtBit
    MaxTick = 2
    MaxSafeInteger = 15
    TickBase <- MCTickBase
    TierByte = 32
    TokenByte = 9
    LiquidityLimit = 512
    Accounts = {a, k}
    Senders = {k}
    Tokens = {0, 9, 18}
    TokenLSK = 0
    ValidatorIncentives = validators
    TickSpacing <- MCTickSpacing
    GenesisAssets <- MCGenesisAssets
    Balance = 30
    Pairs <- MCPairs
    UserTicks <- MCUserTicks
    Amounts = {9}
    SwapAmounts = {4}
    MaxCreated = 3
    FeeTierPartition = 4
    ValidatorsPart = 1
    MaxNumberCrossedTicks = 2
    MinSqrtRatio = 50
    MaxSqrtRatio = 81
    RoutesIn <- MCRoutesIn
    RoutesOut <- MCRoutesOut
    Limits <- MCLimits
    MaxHops = 3
    MaxSwaps = 1
    MaxUnderWay = 4
    ExactUpTo = 2
SPECIFICATION SwapsSpec
CHECK_DEADLOCK FALSE
INVARIANTS
    SwapsTypeOK
    NothingForFree
    RoutesAreWalks
    SettledAsSwapped
    RefusedCallsLeaveNothing

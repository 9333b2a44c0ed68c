CONSTANTS
    One = 64
    PriceAtBit <- MCPriceAtBit
    MaxTick = 3
    MaxSafeInteger = 15
    TickBase <- MCTickBase
    TierByte = 32
    TokenByte = 9
    LiquidityLimit = 128
    Accounts = {a, b}
    Tokens = {0, 1, 9}
    TokenLSK = 1
    ValidatorIncentives = validators
    TickSpacing <- MCTickSpacing
    GenesisAssets <- MCGenesisAssets
    Balance = 12
    Pairs <- MCPairs
    UserTicks <- MCUserTicks
    Amounts = {0, 8}
    MaxCreated = 2
SPECIFICATION Spec
SYMMETRY MCSymmetry
CHECK_DEADLOCK FALSE
INVARIANTS
    TypeOK
    DepositsCoverGrants
    PoolLiquidityInRange
    FreshPositionEarnsNothing

CONSTANTS
    One = 64
    PriceAtBit <- MCPriceAtBit
    MaxTick = 7
    MaxSafeInteger = 15
    TickBase <- MCTickBase
    MaxLiquidity = 9
    SwapLiquidities <- MCSwapLiquidities
    MaxAmount = 7
    MaxSquare = 400
    Tokens = {0, 1, 2, 3}
    TokenLSK = 0
    TierByte = 32
    TokenByte = 9
    LiquidityLimit = 128
    MaxTurns = 40
SPECIFICATION Spec
INVARIANTS
    PricesIncrease
    TickWithinOne
    RoundTripBelowOne
    SqrtIsFloor
    DepositFitsAmounts
    DepositsCoverWithdrawal
    StepWithinBounds
    NoProfitFromRoundTrip
    SearchFindsRoute

CONSTANTS
    ann = ann
    ben = ben
    cat = cat
    Validators = {ann, ben, cat}
    BftWeight <- MCBftWeight
    Fees = {5}
    Scale = 16
    BootstrapOffset = 1
    EpochLength = 2
    GenesisHeight = 0
    GenesisLocked = {7, 22}
    ExactUpTo = 4
    MaxHeight = 10
    MaxSwaps = 1
SPECIFICATION FairSpec
INVARIANTS
    TypeOK
    RangeIsMinted
    SharesCovered
    OwedIsPaid
PROPERTIES
    LockedIsPaidOut

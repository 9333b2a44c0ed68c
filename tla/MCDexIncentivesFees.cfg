CONSTANTS
    ann = ann
    ben = ben
    cat = cat
    Validators = {ann, ben, cat}
    BftWeight <- MCBftWeight
    Fees = {5}
    Scale = 16
    BootstrapOffset = 2
    EpochLength = 2
    GenesisHeight = 0
    GenesisLocked = {0}
    ExactUpTo = 4
    MaxHeight = 7
    MaxSwaps = 1
SPECIFICATION FairSpec
PROPERTIES
    FeesArePaidOut

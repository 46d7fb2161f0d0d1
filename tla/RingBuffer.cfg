SPECIFICATION FairSpec
CONSTANTS
    MaxEntries = 3
    MaxBytes = 4
    Costs = {1, 2, 5}
    PopSizes = {2}
    MaxPushes = 5
INVARIANTS
    TypeOK
    Conservation
    HoldsNewest
    ByteCap
    InOrderDelivery
PROPERTIES
    ImplementsQueue

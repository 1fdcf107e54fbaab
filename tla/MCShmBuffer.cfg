SPECIFICATION FairSpec
CONSTANTS
    N_SLOTS = 2
    TIMES = 3
    ProducerLimits <- MCLimits
    ConsumerLimits <- MCLimits
INVARIANTS
    SlotExclusive
    SlotsAccounted
PROPERTIES
    ImplementsBoundedFifo
    StrandedAfterProducer
    NormalRunCleansUp
CHECK_DEADLOCK FALSE

SPECIFICATION RingSpec
CONSTANTS
    Capacity = 11
    Messages <- MCMessages
    Overlap = TRUE
    MaxSends = 3
INVARIANTS FifoDelivery
CHECK_DEADLOCK FALSE

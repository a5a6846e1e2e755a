CONSTANTS
    m1 = m1
    m2 = m2
    m3 = m3
    Messages <- MCMessages
    BadMessages <- MCBadMessages
    MaxBatch <- MCMaxBatch
SPECIFICATION Spec
PROPERTY StopReceivingStops
CHECK_DEADLOCK FALSE

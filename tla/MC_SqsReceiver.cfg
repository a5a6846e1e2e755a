CONSTANTS
    m1 = m1
    m2 = m2
    m3 = m3
    Messages <- MCMessages
    BadMessages <- MCBadMessages
    MaxBatch <- MCMaxBatch
SPECIFICATION Spec
INVARIANT TypeOK
INVARIANT DeleteAfterAllTerminated
PROPERTY BatchWaitReturns
\* The receiver really stops: after Receive and the poll goroutine have
\* returned nothing is left to run, and the hang of StopReceiving after the
\* poll goroutine's exit is checked as a liveness property by its own run.
CHECK_DEADLOCK FALSE

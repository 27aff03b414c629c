CONSTANTS
    d1 = d1
    d2 = d2
    w1 = w1
    w2 = w2
    Documents = {d1, d2}
    Workers = {w1, w2}
    Pages <- MCPages
    PoolSizes = {2, 4}
    Retries = 1
    MaxSends = 1
    MaxFaults = 1
SPECIFICATION FairSpec
INVARIANTS NoticeOpensOnce OneCasePerLine SameInvoiceIsFlagged
PROPERTIES  RunsEnd NoticeIsSettled
CHECK_DEADLOCK FALSE

SPECIFICATION Spec
CONSTANTS
    i1 = i1
    i2 = i2
    Invoices = {i1, i2}
    Numbers <- MCNumbers
    MaxChanges = 2
    MaxPapers = 2
    MaxDeaths = 1
INVARIANTS OneNoticePerInvoice NamesAgree
PROPERTIES EveryGapIsAnswered
CHECK_DEADLOCK FALSE

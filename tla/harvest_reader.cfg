SPECIFICATION FairSpec
CONSTANTS
    a = a
    b = b
    c = c
    d = d
    None = None
    Record = {a, b, c, d}
    PageSize = 2
    MaxPasses = 3
    MaxChanges = 3
INVARIANTS
    DeliveredOnce
    QuietPassDelivers
    MovesNeverLose
PROPERTY Ends
CHECK_DEADLOCK FALSE

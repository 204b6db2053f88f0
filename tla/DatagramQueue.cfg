CONSTANTS
    Flows = {f1, f2}
    Capacity = 2
    MaxSpan = 2
    MaxRepairs = 1
    SendBatch = 1
    SymbolModulus = 3
SPECIFICATION LiveSpec
INVARIANTS NoLostWakeup RepairWindow
PROPERTY Served
CHECK_DEADLOCK FALSE

SPECIFICATION MCSpec
CONSTANTS
    Channels = {1, 2}
    Wrap = 4
    HwFaults = {"fifo_loss"}
    Statuses = {"active"}
    RawCapacity = 1
    RingCapacity = 2
    InventoryCapacity = 1
    MaxRecords = 2
    MaxBatchDelta = 2
    NoDataTimeout = 2
    StartNow = 3
    MaxNow = 5
    MaxEvents = 3
    MaxCount = 2
    Capacity = 2
    RxBudget = 1
    MaxBytes = 6
    MaxWraps = 2
INVARIANTS
    DmaReceives
    DmaTransmits
    CaptureSound
CHECK_DEADLOCK FALSE

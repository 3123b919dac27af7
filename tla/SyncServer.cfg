SPECIFICATION Spec
CONSTANTS
    None = None
    Kinds = {"tcp", "serial", "webserial", "usb"}
    Programs = {"runSync", "app"}
    Sockets = 2
    SyncRequests = 1
    UsbDevices <- Devices
    MaxAttempts = 3
    MaxFaults = 2
    MaxStarts = 2
INVARIANTS
    TypeOK
    StoppedIsQuiet
    DisconnectMeansEnded
    RightEndpoints
PROPERTIES
    RunSyncReturns
    RunSyncEnds
    StopEnds
CHECK_DEADLOCK FALSE

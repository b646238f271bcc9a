\* Two callers, one call each of any kind (auto, range or mem), level 0 starting anywhere from
\* empty to the write-pause trigger.
SPECIFICATION Spec
CONSTANTS
    Clients = {c1, c2}
    CallKinds = {"auto", "range", "mem"}
    MaxCalls = 1
    L0Trigger = 2
    PauseTrigger = 3
    InitL0 <- MCInitL0
    NoCmd = NoCmd
    NoClient = NoClient
INVARIANTS
    TypeOK
    NoTableCompactionDuringFlush
PROPERTIES
    ReleasedWhenWritable
    WaiterReturns
    CloseTerminates

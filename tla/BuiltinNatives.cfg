\* Every native, with gas that runs out before, between and after each charge.
SPECIFICATION Spec
CONSTANTS
    self = self  a1 = a1  a2 = a2  zaddr = zaddr  p1 = p1  empty = empty
    kexec = kexec  zero = zero
    NoError = NoError  OutOfGas = OutOfGas  Panic = Panic  NoOutput = NoOutput
    Self = self
    Addrs = {a1, a2}
    ZeroAddress = zaddr
    Plans = {p1}
    EmptyPlan = empty
    Keys = {kexec}
    Values = {0, 5}
    ExecutorKey = kexec
    AddressSpace = 1024
    HasCode = {self}
    LogGas = 375  LogTopicGas = 375  LogDataGas = 8
    SloadGas = 200  SstoreSetGas = 20000  SstoreResetGas = 5000  GetBalanceGas = 400
    GasOffers = {150, 5000, 5500, 20500, 100000}
    UInt32 <- MCUInt32
    MaxStateHistory = 65535
    Numbers <- MCNumbers
    Zero = zero
INVARIANTS
    TypeOK
    FailedCallEmitsNoEvent
    AtBlockWindow
PROPERTY
    ReturnsMatchEffects

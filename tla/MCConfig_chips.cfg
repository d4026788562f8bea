SPECIFICATION FairSpec
CONSTANTS
  root = root
  side = side
  behind = behind
  mux = mux
  rtc = rtc
  x70 = x70
  x68 = x68
  Bus = {root, side, behind}
  BusZero = root
  Name = {mux, rtc}
  Addr = {x70, x68}
  NoAddr = NoAddr
  NoDevice = NoDevice
  Provider <- TheProvider
  Firmware <- TheFirmware
  CallerInputs <- TheCallerInputs
  DefaultInputs <- TheDefaultInputs
  MaxChanges = 2
INVARIANT TypeOK
INVARIANT CrashHasCause
INVARIANT LoopChipIsListed
INVARIANT ChipsOfOneSource
INVARIANT InitializeConfigures
INVARIANT RemoveClears
PROPERTY DeletesOnlyConfigured
PROPERTY CallReturns
CHECK_DEADLOCK FALSE

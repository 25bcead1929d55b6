SPECIFICATION FairSpec
CONSTANTS
  USB_NUMDEVICES = 3
  MaxPortChanges = 2
INVARIANTS
  IInv
  EndpointsPresent
  ReportedDeviceIsPolled
  TeardownBeforeError
  NoTrafficDuringReset
PROPERTY ComesToRest

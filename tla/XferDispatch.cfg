SPECIFICATION FairSpec
CONSTANTS
  MaxMs = 16
  USB_XFER_TIMEOUT = 11
  USB_NAK_LIMIT = 3
  USB_RETRY_LIMIT = 2
  TurnTime = 2
INVARIANTS ResultIsOwn LaunchesBounded LiveChipAnswers
PROPERTY NoEarlyTimeout DispatchReturns

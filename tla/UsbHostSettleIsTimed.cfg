SPECIFICATION Spec
CONSTANTS
  USB_NUMDEVICES = 3
  MaxPortChanges = 2
PROPERTY SettleIsTimed

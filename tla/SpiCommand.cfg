SPECIFICATION Spec
CONSTANTS
  Lengths = {0, 1, 2, 3}
  NONE = NONE
INVARIANT SpiInv
PROPERTIES ImplementsAccess AccessEnds

SPECIFICATION Spec
CONSTANTS
  hpixels = 47
  vlines = 39
  HVISIBLE = 40
  VVISIBLE = 32
  HSYNC_START = 42
  HSYNC_END = 45
  VSYNC = 34
  COLUMNS = 5
  ADDRESSES = 4
PROPERTY CellsAreOwn

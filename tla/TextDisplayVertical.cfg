SPECIFICATION Spec
CONSTANTS
  hpixels = 9
  vlines = 9
  HVISIBLE = 5
  VVISIBLE = 4
  HSYNC_START = 6
  HSYNC_END = 8
  VSYNC = 6
  COLUMNS = 1
  ADDRESSES = 4
PROPERTY VerticalAsDocumented

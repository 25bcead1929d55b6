SPECIFICATION BoardSpec
CONSTANTS
  Keycodes = {0, 1, 30, 101, 128, 221}
  Garbage = {0, 30, 4660}
  hpixels = 799
  vlines = 524
  HVISIBLE = 640
  VVISIBLE = 480
  HSYNC_START = 656
  HSYNC_END = 752
  VSYNC = 490
  COLUMNS = 80
  ADDRESSES = 1024
  Selections = {1, 2}
  Unset = 99
INVARIANTS SelectionUnreachable DisplayShowsReport BitmapAddressed EngineInv OnlyFirstPixel LnAdds
PROPERTIES SyncPulses AddressedCellsAreOwn IntensityGrows

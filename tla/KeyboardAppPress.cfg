SPECIFICATION AppSpec
CONSTANTS
  Keycodes = {0, 1, 30, 101, 128, 221}
  Garbage = {0, 30, 4660}
PROPERTY PressSelects

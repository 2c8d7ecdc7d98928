SPECIFICATION OutSpec
CONSTANTS
  FONT_WIDTH = 2
  FONT_HEIGHT = 2
  Printable <- Glyphs
  Framebuffers <- Screens
  Texts <- Strings
  Formats <- Calls
  BITS = 11
INVARIANTS
  NumbersReadable
  SerialExact
PROPERTIES
  ShowsTerminal
  WriteReturns

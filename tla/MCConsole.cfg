SPECIFICATION Spec
CONSTANTS
  COLS = 3
  LINES = 2
  BUF_SIZE = 6
  MemSize = 10
  MaxDigits = 3
  MaxCalls = 3
  Chars <- MCChars
  Formats <- MCFormats
  Dumps <- MCDumps
  Messages <- MCMessages
  FatalPrefix <- MCFatalPrefix
  Memories <- MCMemories
  Screens <- MCScreens
INVARIANTS
  ScreenShowsText
PROPERTIES
  StaysInBuffer
CHECK_DEADLOCK FALSE

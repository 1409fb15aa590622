SPECIFICATION Spec
CONSTANTS
  Base = 3
  Scripts <- TheScripts
  Bodies <- TheBodies
  Parses <- TheParser
  MaxMessages = 2
  MaxReads = 4
INVARIANTS TypeOK NoLongerThanSent ParsesWhatWasSent
PROPERTIES ImplementsChannel
CHECK_DEADLOCK FALSE

SPECIFICATION Spec
CONSTANTS
  Symbols <- TheSymbols
  Sections <- TheSections
  mnemonics <- TheMnemonics
INVARIANTS
  ParsesAsWritten
  LinkedAsWritten
CHECK_DEADLOCK FALSE

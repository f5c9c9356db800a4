\* Strings of up to 4 of 3 characters in blocks of 1 to 8 bytes.
CONSTANTS
  Char = {"x", "X", "_"}
  Spaces = {"_"}
  Lower <- MCLower
  Upper <- MCUpper
  Code <- MCCode
  NUL = NUL
  JUNK = JUNK
  NULL = NULL
  SNAP = 2
  Texts <- MCTexts
  Fills = {"_"}
  Before = {FALSE}
  MaxLen = 4
  Heaps <- MCHeaps
SPECIFICATION Spec
INVARIANT Terminated
PROPERTY ImplementsAbstractString
VIEW Lasting

\* Inputs of up to 4 of 2 characters, buffers of 1 and 2, blocks of 2 and more bytes.
CONSTANTS
  NULL = NULL
  SNAP = 2
  Char = {"x", "y"}
  Inputs <- MCInputs
  Unreads <- MCUnreads
  Terms <- MCTerms
  Separators <- MCSeparators
  Sizes = {1, 2}
  BS_BUFF_SZ = 2
  BuffSizes = {1}
  BSSSC_BUFF_LEN = 2
  FirstRead = 1
  MaxLen = 4
  Heaps <- MCHeaps
SPECIFICATION Spec
PROPERTIES Terminated PiecesInOrder ImplementsAbstractStream CallsReturn
VIEW Lasting

CONSTANTS
  WordBits = 8
  Programs <- Late
  Literals <- MCLiterals
  StackThreshold = 16
  HeapSize = 24
SPECIFICATION Spec
INVARIANT SpInStack

CONSTANTS
  WordBits = 8
  Programs <- TwoSignals
  Literals <- MCLiterals
  StackThreshold = 16
  HeapSize = 24
SPECIFICATION Spec
PROPERTY Terminates

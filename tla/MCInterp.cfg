CONSTANTS
  WordBits = 8
  Programs <- MCPrograms
  Literals <- MCLiterals
  StackThreshold = 16
  HeapSize = 24
SPECIFICATION Spec
INVARIANTS NoDangling StacksRight ResultRight SignalsCounted

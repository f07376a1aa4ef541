CONSTANTS
  WordBits = 8
  Programs <- OneSignal
  Literals <- MCLiterals
  StackThreshold = 16
  HeapSize = 24
SPECIFICATION Spec
INVARIANT SignalTrapped
PROPERTY Terminates

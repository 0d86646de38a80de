SPECIFICATION Spec
CONSTANTS
  thread = thread
  isr = isr
  Contexts = {thread, isr}
  WordBits = 3
  BitmapWords = 1
  Usable = {0, 1, 2}
  Counts = {}
  DoubleFrees = FALSE
  Preemptive = TRUE
SYMMETRY ContextSymmetry
INVARIANTS OneOwner

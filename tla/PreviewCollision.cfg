SPECIFICATION CardSpec
CONSTANTS
  edit1 = edit1
  edit2 = edit2
  run1 = run1
  Callers = {c1}
  Calls = {edit1, edit2, run1}
  PreviewOf <- MCPreviewOf
  Window = 2
  Suppress = 1
  MaxTime = 3
  MaxCards = 1
  MaxRestarts = 1
CHECK_DEADLOCK FALSE
PROPERTY RecordedForThisAsk

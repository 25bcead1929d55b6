SPECIFICATION Spec
CONSTANTS
  BufLen = 3
  TxDepth = 1
  RxDepth = 2
  Almost = 0
  Timeout = 2
  MaxCount = 2
  MaxChars = 4
INVARIANT NoLostWakeup
PROPERTIES TxInOrder RxInOrder NeverStalls CallsReturn

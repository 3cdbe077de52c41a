CONSTANTS
  Size = 4
  Packets = 20
SPECIFICATION SenderFifoSpec
INVARIANTS SenderFifoTypeOK HoldsLatest
PROPERTY ImplementsWindow

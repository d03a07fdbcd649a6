SPECIFICATION TbusSpec
CONSTANTS
  HeaderSize = 2
  PayloadSize = 2
  Number = 2
  Lengths = {1, 2, 3, 4}
  IovNum = 2
  MaxPackets = 5
INVARIANTS NoOverwrite
PROPERTIES ImplementsChannel AllArrive
CHECK_DEADLOCK FALSE

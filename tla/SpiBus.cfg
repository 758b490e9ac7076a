SPECIFICATION Spec
CONSTANTS
  accel = accel
  motor = motor
  adc = adc
  Null = Null
  Packet <- MCPacket
  Words <- MCWords
  Slack = 1
INVARIANTS
  TypeOK
  ListWhole
  OwnBuffer
PROPERTIES
  ReadBeforeFinished
  ImplementsQueue
  EveryPacketFinished

SPECIFICATION Spec
CONSTANTS
  RING = 7
  HEADER <- MCHeader
  LEDS = 2
  LINE = 4
  TIMEOUT = 2
  CODE = 3
  TX = 3
  Command <- MCCommand
  Datum <- MCDatum
  ImageSize <- MCImageSize
INVARIANTS
  TypeOK
  NewestObeyed
  Resynchronised
  FlashesWholeImage
  SendsInOrder
PROPERTIES
  SilenceEndsReception
  PrintedIsSent
CHECK_DEADLOCK FALSE

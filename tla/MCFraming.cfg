SPECIFICATION FramingSpec
CONSTANTS
  Message <- MCMessage
  PayloadSize <- MCPayloadSize
  HeaderSize = 2
  MaxPayload = 2
  MaxMessages = 3
PROPERTIES
  ImplementsChannel
  MessagesArrive
CHECK_DEADLOCK FALSE

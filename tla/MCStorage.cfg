\* A heap of two regions; a ring of three bytes, of which two can be in use,
\* and calls for up to three; a ring of five words and packets of up to three.
CONSTANTS
  heap = heap
  dma = dma
  Region = {heap, dma}
  Start <- MCStart
  End <- MCEnd
  Priority <- MCPriority
  Flags <- MCFlags
  Flag <- MCFlag
  HeaderSize = 2
  FooterSize = 1
  NodeSize = 4
  Align = 4
  Request = {1, 6}
  Junk = 99
  BufferSize = 3
  MaxLength = 3
  Values = 4
  RingWords = 5
  PacketLength = {1, 6, 8}
  PacketIds = 3
SPECIFICATION StorageSpec
INVARIANTS
  BlocksTile
  FullyCoalesced
  BytesInOrder
  PacketsWhole
PROPERTIES
  EveryByteRead

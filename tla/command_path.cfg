\* Lines longer than the buffer holds, by one symbol (V2) and three (V1); packets
\* of six bytes with up to two damaged bits.
SPECIFICATION Spec
CONSTANTS
  LineSize <- SmallBuffers
  PACKET_SIZE = 6
  Symbols <- Keys
  Openers <- FirstKeys
  MaxTyped <- LongestTyped
  MaxLeft = 2
  MaxAfterLeft = 4
  MaxFlips = 2
  SourceID = 16
INVARIANTS
  BufferFollowsTyping
  RunsWhatWasTyped
  UnderstoodOrRefused

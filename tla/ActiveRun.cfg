SPECIFICATION FairSpec
CONSTANTS
  h0 = h0
  h1 = h1
  Handlers = {h0, h1}
  Launcher = h0
  BufferLimit = 1
  ChannelSize = 1
  MaxEvents = 3
INVARIANTS
  Delivery
  ChannelsOwned
  TimerOnlyUnwatched
  CancelHasReason
PROPERTIES
  ImplementsFeed
  RunEnds

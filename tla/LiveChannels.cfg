\* As Pipeline.cfg: the third channel is not among those that are drawn.
SPECIFICATION Spec
CONSTANTS
  Chn = 3
  ArraySize = 10
  MaxFrames = 2
PROPERTY ChannelsLive

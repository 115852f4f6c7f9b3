\* One channel more than pfclist.h has room for.
SPECIFICATION Spec
CONSTANTS
  Chn = 11
  ArraySize = 10
  MaxFrames = 1
INVARIANT ChannelsFit

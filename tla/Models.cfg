\* One handle, two servers that restart once with another model; dnn_getstate.
SPECIFICATION Spec
CONSTANTS
  NoIp = NoIp
  NoPort = NoPort
  NoImage = NoImage
  Ips = {a1, a2}
  Ports = {p1}
  Handles = {h1}
  Images = {i1, i2}
  Caps = {1}
  MaxInc = 1
  Slots = 4
  Scene <- TwoScenes
  Configs <- OldAndNew
SYMMETRY Alike
CONSTRAINT Remembered
INVARIANTS TypeOK PeerIsAddress LayoutUnderstood DetectionsTrue StateListTrue PayloadFits AnswerOwed
PROPERTY ApiSpec

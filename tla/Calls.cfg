\* Two handles, two servers that may crash; whether each dnn_predict call ends.
SPECIFICATION Spec
CONSTANTS
  NoIp = NoIp
  NoPort = NoPort
  NoImage = NoImage
  Ips = {a1, a2}
  Ports = {p1}
  Handles = {h1, h2}
  Images = {i1}
  Caps = {}
  MaxInc = 0
  Slots = 0
  Scene <- NoObjects
  Configs <- OneVersion
PROPERTIES EveryCallEnds

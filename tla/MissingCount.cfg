\* dnn_getstate for a version the server does not list.
SPECIFICATION Spec
CONSTANTS
  NoIp = NoIp
  NoPort = NoPort
  NoImage = NoImage
  Ips = {a1}
  Ports = {p1}
  Handles = {h1}
  Images = {}
  Caps = {1}
  MaxInc = 0
  Slots = 0
  Scene <- NoObjects
  Configs <- OneVersion
INVARIANT MissingCountsZero

\* A handle moved to another port of the same server.
SPECIFICATION Spec
CONSTANTS
  NoIp = NoIp
  NoPort = NoPort
  NoImage = NoImage
  Ips = {a1}
  Ports = {p1, p2}
  Handles = {h1}
  Images = {}
  Caps = {}
  MaxInc = 0
  Slots = 0
  Scene <- NoObjects
  Configs <- OneVersion
PROPERTY InitMovesHandle

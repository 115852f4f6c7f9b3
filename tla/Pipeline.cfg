\* Three channels; the demo can draw two of them only.
SPECIFICATION Spec
CONSTANTS
  Chn = 3
  ArraySize = 10
  MaxFrames = 3
INVARIANTS TypeOK WindowComplete OwnRectangles RawLeads
PROPERTIES WindowAppears

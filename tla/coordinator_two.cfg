SPECIFICATION Spec
CONSTANTS
  Devices = {d1, d2}
  Meters = {m1}
  Values = {v1}
  NoReading = NoReading
  Grace = 1
ACTION_CONSTRAINT Prompt
SYMMETRY DataSymmetry
INVARIANTS GoneMeansGone

SPECIFICATION LiveSpec
CONSTANTS
  Devices = {d1}
  Meters = {}
  Values = {v1, v2}
  NoReading = NoReading
  Grace = 1
ACTION_CONSTRAINT Prompt
PROPERTIES AskServed SnapshotTaken OutageShows

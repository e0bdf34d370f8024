SPECIFICATION HistorySpec
CONSTANTS
  Devices = {d1}
  Meters = {}
  Values = {v1, v2}
  NoReading = NoReading
  Grace = 1
INVARIANTS TypeOK HeartbeatAlive ReadingsHeld
PROPERTIES PollsAreOwed

SPECIFICATION HistorySpec
CONSTANTS
  Devices = {d1}
  Meters = {m1}
  Values = {v1}
  NoReading = NoReading
  Grace = 1
PROPERTIES FiguresTakenOnce

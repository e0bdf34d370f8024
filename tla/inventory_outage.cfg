SPECIFICATION Spec
CONSTANTS
  dishwasher = dishwasher
  salt = salt
  former = d1
  latter = d1
  Devices = {d1}
  Models = {dishwasher}
  ModelOf <- OneModel
  Keys = {salt}
  Flags = {rinse}
  Rule <- SaltRule
  Gating = {salt, rinse}
  NoProfile = NoProfile
  OrphanCap = 2
PROPERTIES FailureStripsNothing

SPECIFICATION ReplaceSpec
CONSTANTS
  dishwasher = dishwasher
  salt = salt
  former = former
  latter = latter
  Devices = {former, latter}
  Models = {dishwasher}
  ModelOf <- OneModel
  Keys = {salt}
  Flags = {}
  Rule <- SaltRule
  Gating = {salt}
  NoProfile = NoProfile
  OrphanCap = 1
INVARIANTS TypeOK EntitiesFollowInventory EntitiesCurrent
PROPERTIES LiveNeverForgotten ReloadsSettle

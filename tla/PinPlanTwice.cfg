SPECIFICATION Spec
CONSTANTS
  Drivers = {1, 2}
  Listeners = {3}
  Analogs = {4}
  Channels = {a, b}
  Wire = wire
  NoOne = noone
  MaxRoles = 4
  MaxAsk = 2
  Resubmits = TRUE
  OverDisabled = FALSE
PROPERTIES
  DoneMeansPlanned

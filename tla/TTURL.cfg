SPECIFICATION Spec
CONSTANTS
  Quarter = 4
  Hex = 4
  Slash = 12
  Https = 7
  MaxPrefix = 2
  Urls <- MCUrls
  Configs <- MCConfigs
  Unknown <- MCUnknown
  Raw <- MCRaw
INVARIANTS
  RoundTrip
  CutIsRefused
  SecondIsFirst
  ConfigSurvives
CHECK_DEADLOCK FALSE

SPECIFICATION Spec
CONSTANTS
  DefaultCid = "machine"
  Uuids = {"uuid"}
  MaxSize <- MCMaxSize
  PortMin = 8
  PortMax = 15
  UintMax = 15
  Half = 32
  ManuLimit = 8
  EtcManu = 5
  DeviceMax = 15
  Files <- MCFiles
INVARIANTS
  TypeOK
  SettingsMatchFile
  ResultMatchesFile
  ParseErrorMeansDefaults
  SettingsUsable
PROPERTIES
  ImplementsLoad

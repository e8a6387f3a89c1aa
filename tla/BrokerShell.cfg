SPECIFICATION FairSpec
CONSTANTS
  Requesters = {watcher}
  Cooldowns = {0, 2}
  Wrap = 5
  MaxPollGap = 2
  Scopes = {"default"}
  DefaultScope = "default"
  LogMasks = {"info", "debug"}
  DefaultMask = "info"
  ConfFiles <- MCTwoConfFiles
  watcher = watcher
INVARIANTS
  TypeOK
  CallsMatched
  TornDownInOrder
  NoRequestLost
  ScopeChangePending
  SettingsInEffect
  HolderReleases
PROPERTIES
  CooldownHonoured
  Implements
  ShutdownProgress
  ShutdownCompletes
  RequestsServed

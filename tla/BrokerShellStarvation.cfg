SPECIFICATION FairSpec
CONSTANTS
  Requesters = {watcher}
  Cooldowns = {0, 1}
  Wrap = 3
  MaxPollGap = 1
  Scopes = {"default"}
  DefaultScope = "default"
  LogMasks = {"info"}
  DefaultMask = "info"
  ConfFiles <- MCOneConfFile
  watcher = watcher
PROPERTIES
  EveryRequestServed

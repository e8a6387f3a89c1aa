SPECIFICATION Spec
CONSTANTS
  Requesters = {watcher}
  Cooldowns = {0, 1}
  Wrap = 4
  MaxPollGap = 2
  Scopes = {"default", "studio"}
  DefaultScope = "default"
  LogMasks = {"info", "debug"}
  DefaultMask = "info"
  ConfFiles <- MCConfFiles
  watcher = watcher
INVARIANTS
  RuntimeScopeKept

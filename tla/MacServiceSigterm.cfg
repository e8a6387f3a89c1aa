SPECIFICATION MacFairSpec
CONSTANTS
  Requesters = {main_thread}
  Main = main_thread
  kNetworkChangeCooldownMs = 1
  Cooldowns = {0, 1}
  Wrap = 3
  MaxPollGap = 1
  Scopes = {"default"}
  DefaultScope = "default"
  LogMasks = {"info"}
  DefaultMask = "info"
  ConfFiles <- MCConfFiles
  main_thread = main_thread
PROPERTIES
  TermCompletes
CHECK_DEADLOCK FALSE

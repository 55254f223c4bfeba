CONSTANTS
  Length = 2
  Sizes = {1, 2}
  TokenMod = 3
  MaxCommands = 4
  AllowShutdown = FALSE
SPECIFICATION Spec
INVARIANT SyncRanUntilWrap

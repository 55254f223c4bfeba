\* Two-unit commands in a three-unit buffer wrap in the middle of a command;
\* with three token numbers the counter overflows at the third call.
CONSTANTS
  Length = 3
  Sizes = {1, 2}
  TokenMod = 3
  MaxCommands = 4
  AllowShutdown = TRUE
SPECIFICATION Spec
INVARIANTS TypeOK HeadersIntact InOrder NoLostWakeup NoLostReply SyncRanIfSound
PROPERTY StreamSafety
CHECK_DEADLOCK FALSE

\* The client may stop issuing commands at any time, but issues no shutdown:
\* both threads then go on for ever, so TLC also looks for deadlocks.
CONSTANTS
  Length = 3
  Sizes = {1, 2}
  TokenMod = 2
  MaxCommands = 3
  AllowShutdown = FALSE
SPECIFICATION FairSpec
INVARIANTS NeverBothAsleep
PROPERTIES StreamSpec CallsReturn

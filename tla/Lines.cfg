\* One line of any messenger: two commands or two sessions, one fault.
SPECIFICATION FairSpec
CONSTANTS
  Channels = {"tg", "max", "wa"}
  MaxSessions = 2
  MaxFaults = 1
  GraceTicks = 2
  MaxCommands = 2
INVARIANTS PooledHasPump OverIsClean
PROPERTIES TerminalIsFinal CommandsSettle PoolFollowsRow
CHECK_DEADLOCK FALSE

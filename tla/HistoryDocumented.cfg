SPECIFICATION Spec
CONSTANTS
  max = 3
  Commands = {"ls", "lsof &"}
  Background = {"lsof &"}
  Comments = {"# note"}
  Prefixes = {"", "l", "lso", "b"}
  Matches <- MCMatches
  Empty = "empty"
  Garbage = "garbage"
  MaxCommands = 6
PROPERTY RecallsAsDocumented
CHECK_DEADLOCK FALSE

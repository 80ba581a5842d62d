SPECIFICATION Spec
CONSTANTS
  max = 3
  Commands = {"ls", "lsof &"}
  Background = {"lsof &"}
  Comments = {"# note"}
  Prefixes = {"", "l", "lso", "b"}
  Matches <- MCMatches
  Empty = "empty"
  Garbage = "garbage"
  MaxCommands = 6
INVARIANTS
  TypeOK
  Retained
  ListingExact
PROPERTIES
  Recalls
CHECK_DEADLOCK FALSE

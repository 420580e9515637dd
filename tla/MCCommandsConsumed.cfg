\* One command per topic.
SPECIFICATION Spec
CONSTANTS
  MaxCommands = 1
PROPERTIES
  CommandsConsumed
CHECK_DEADLOCK FALSE

SPECIFICATION Spec
CONSTANTS
  Apps = {a1}
  Slots = {"first"}
  MaxRestarts = 2
  MaxUpdates = 1
  MaxFailures = 1
  MaxCommands = 1
  MaxChanges = 2
INVARIANTS TypeOK ReadyIsComplete
PROPERTY AppsComeBack
CHECK_DEADLOCK FALSE

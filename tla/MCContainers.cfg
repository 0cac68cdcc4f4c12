SPECIFICATION Spec
CONSTANTS
  Apps = {a1}
  MaxCommands = 2
  MaxFaults = 1
  MaxUses = 1
INVARIANTS EnvIsCurrent DataRecoverable
PROPERTIES NoStray AnswersIsShown
CHECK_DEADLOCK FALSE

SPECIFICATION Spec
CONSTANTS
  Timeouts = {0, 2}
  MaxGen = 2
VIEW Relevant
INVARIANTS TypeOK FreshAfterQuiet

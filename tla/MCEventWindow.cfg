CONSTANTS
  Keys = {a, b}
  Window = 2
  Steps <- BackAndForth
  MaxTime = 5
  MaxEvents = 4
SPECIFICATION Spec
INVARIANTS TypeOK CountsMatchLog CountsExact

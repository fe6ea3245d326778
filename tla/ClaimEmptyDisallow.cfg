SPECIFICATION Spec
CONSTANTS
  Agents = {"*", "ours", "other"}
  Ours = "ours"
  Patterns = {"/", "/a"}
  Matches = {"/", "/a"}
  Length <- PatternLength
  MaxLines = 4
INVARIANTS
  EmptyDisallowAllowsAll
CHECK_DEADLOCK FALSE

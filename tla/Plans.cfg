SPECIFICATION PlansSpec
CONSTANTS
  Procs = {p1, p2}
  MaxServers = 3
  Stoppers = {p1}
  MaxSlow = 1
  PromptHolders = FALSE
  None = None
  Writers = {w1, w2}
  Reconcilers = {}
  Events = {e1, e2}
  Blocks = {e2}
  MaxEvents = 2
  MaxTries = 1
  Length = 3
  Elsewhere = {0}
INVARIANTS OneServer AppendsExclude HaltsDependents
PROPERTY EnsureReturns
CHECK_DEADLOCK FALSE

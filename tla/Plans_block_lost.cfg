SPECIFICATION PlansSpec
CONSTANTS
  Procs = {p1}
  MaxServers = 1
  Stoppers = {}
  MaxSlow = 0
  PromptHolders = TRUE
  None = None
  Writers = {w1}
  Reconcilers = {r1}
  Events = {e1}
  Blocks = {e1}
  MaxEvents = 2
  MaxTries = 1
  Length = 1
  Elsewhere = {}
PROPERTY BlockHolds
CHECK_DEADLOCK FALSE

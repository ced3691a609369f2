\* Two conversations: does a waiting engine have an open approval?
SPECIFICATION Spec
CONSTANTS
  e1 = e1  e2 = e2  w1 = w1  w2 = w2
  open_site = open_site  run_command = run_command
  home = home  finances = finances  NoPlan = NoPlan
  Engines = {e1, e2}
  Workers = {w1, w2}
  EngineOf <- TwoSessions
  Actions = {open_site, run_command}
  Gated = {run_command}
  Plans = {home}
  Steps <- PlanSteps
  Kinds = {"confirm", "action"}
  Outcomes = {"success"}
  Checked = TRUE
  MaxAsks = 2
INVARIANT WaitingHasApproval

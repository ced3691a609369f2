\* Two requests at a time on the shared engine.
SPECIFICATION Spec
CONSTANTS
  e1 = e1  e2 = e2  w1 = w1  w2 = w2
  open_site = open_site  run_command = run_command
  home = home  finances = finances  NoPlan = NoPlan
  Engines = {e1}
  Workers = {w1, w2}
  EngineOf <- OneEngine
  Actions = {open_site, run_command}
  Gated = {run_command}
  Plans = {home}
  Steps <- PlanSteps
  Kinds = {"world", "confirm", "reject", "action", "goal"}
  Outcomes = {"success", "no_driver"}
  Checked = TRUE
  MaxAsks = 2
SYMMETRY ThreadSymmetry
INVARIANT EngineAtRest

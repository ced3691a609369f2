\* One conversation, a tool that fails.
SPECIFICATION Spec
CONSTANTS
  e1 = e1  e2 = e2  w1 = w1  w2 = w2
  open_site = open_site  run_command = run_command
  home = home  finances = finances  NoPlan = NoPlan
  Engines = {e1}
  Workers = {w1}
  EngineOf <- OneSession
  Actions = {open_site, run_command}
  Gated = {run_command}
  Plans = {home, finances}
  Steps <- PlanSteps
  Kinds = {"simple", "context", "world", "confirm", "reject", "action", "goal", "preview"}
  Outcomes = {"success", "failed", "no_driver"}
  Checked = TRUE
  MaxAsks = 2
INVARIANT CompletedStepSucceeded

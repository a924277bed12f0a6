CONSTANTS
  a = a
  b = b
  cli = cli
  Tasks = {a, b}
  Others = {cli}
  Ids = {1, 2}
  Sizes = {0, 2}
  MaxRules = 1
  MaxFaults = 2
  Scenarios <- Either
SPECIFICATION Spec
INVARIANTS TypeOK RulesSurvive SettingsAgree

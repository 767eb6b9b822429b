SPECIFICATION Spec
INVARIANTS TypeOK StepsCounted StepsLive OneRuleShown DimmerFreed OpenVisible
CONSTANTS
  r1 = r1  r2 = r2  l1 = l1  l2 = l2
  NoRule = NoRule  NoOptions = NoOptions  Width = Width
  Rules = {r1, r2}
  Loads = {l1, l2}
  StepCounts = {1, 2}
  MaxClicks = 5  MaxRequests = 1
SYMMETRY ConsoleSymmetry
CHECK_DEADLOCK FALSE

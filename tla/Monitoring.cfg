SPECIFICATION FromOneMachine
CONSTANTS
  Machines = {dgx, spare}
  Requests = {r1, r2}
  Nothing = Nothing
  MaxChanges = 1
  MaxSwitches = 1
  MaxFailures = 1
  MaxClicks = 1
CHECK_DEADLOCK FALSE
INVARIANT
  ResponsesFitTheRequest
PROPERTIES
  ShownOnlyImproves
  

SPECIFICATION PipelineSpec
CONSTANTS
  Contexts = {q1}
  Engines <- SecurityAlone
  LBNodes = {l1}
  Strategy = "least_connections"
  Columns = 2
  MaxRows = 3
  MaxReplaced = 0
INVARIANT EveryRowMasked
CHECK_DEADLOCK FALSE

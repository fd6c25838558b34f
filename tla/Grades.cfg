CONSTANTS
  Inputs <- MCInputs
  MaxOpen = 3
  Leftover <- MCLeftover
INIT Init
NEXT Next
INVARIANTS ReadsAll  FreqsCounted NormMonotone ReportsInRange 
CHECK_DEADLOCK FALSE

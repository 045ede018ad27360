SPECIFICATION FairSpec
CONSTANTS
  None = None
  Pending = Pending
  MaxCalls = 2
  Turns <- MCTurns
  Evaluated = TRUE
  Wires <- MCWires
\* The service may stop.
CHECK_DEADLOCK FALSE
INVARIANTS TabShowsWhatWasAsked PanelMatchesRows CutDoesNotMatter RecordsComplete
PROPERTIES LastThoughtShown TurnsEnd

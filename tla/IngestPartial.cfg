SPECIFICATION Spec
CONSTANTS
  Comms = {c1}
  TO = TO
  Versions = {v1}
  Dated = {v1}
  NoVersion = NoVersion
  NBatches = 2
  Faults = {"wipe"}
CHECK_DEADLOCK FALSE
PROPERTY FinishedRunCoversScope

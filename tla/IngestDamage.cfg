\* Torn extracts and a wiped index on top of the crashes; runs are restarted.
SPECIFICATION FairSpec
CONSTANTS
  Comms = {c1}
  TO = TO
  Versions = {v1, v2}
  Dated = {v1}
  NoVersion = NoVersion
  NBatches = 2
  Faults = {"tornRaw", "tornExtract", "wipe"}
PROPERTIES
  StoredCommNeverFetched
  FinishedRunServesScope
  FirstIngestFinishes

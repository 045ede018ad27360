\* Crashes between and inside the writes of the PDFs and of the manifest.
SPECIFICATION Spec
CONSTANTS
  Comms = {c1, c2}
  TO = TO
  Versions = {v1, v2}
  Dated = {v1, v2}
  NoVersion = NoVersion
  NBatches = 2
  Faults = {"tornRaw", "tornManifest"}
SYMMETRY Symmetry
\* A torn manifest stops every later job: Manifest.load raises.
CHECK_DEADLOCK FALSE
INVARIANTS
  TypeOK
  IndexedMeansComplete
  FreezeLabelMatchesTO
PROPERTIES
  FinishedRunCoversScope
  RefreshServesWhatItFetched
  ImplementsCorpus

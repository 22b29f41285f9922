\* One ingestion at a time, of a host that may be down before it is probed.
SPECIFICATION Spec
CONSTANTS
  Ingest = {i1}
  Recent = 0
  MaxCycles = 2
  MaxTime = 1
  MaxOutside = 1
PROPERTIES
  FallAnnounced

SPECIFICATION Spec
CONSTANTS
  Settings = {morning, evening}
  None = None
  Unsure = Unsure
  Disabled = Disabled
  Removed = Removed
INVARIANTS ArmedIsRunnable RemovedIsGone StoppingIsNeverRefused
PROPERTY KeepsItsPromise

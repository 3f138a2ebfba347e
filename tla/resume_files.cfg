\* One resume, two exports, two workers, contents with different hashes.
CONSTANTS
  r1 = r1
  r2 = r2
  e1 = e1
  e2 = e2
  c1 = c1
  c2 = c2
  h1 = h1
  h2 = h2
  w1 = w1
  w2 = w2
  None = None
  Resumes <- OneResume
  Exports <- TwoExports
  Contents <- TwoContents
  Hashes <- TwoHashes
  HashOf <- Distinct
  Workers <- TwoWorkers
  ParseRetries = 1
  ExportRetries = 1
  MaxCrashes = 1
  MaxFaults = 1
SPECIFICATION Spec
SYMMETRY Symmetry
INVARIANTS
  NoForgottenWork
  RowsAndFilesAgree
  PdfMatchesItsHash
PROPERTIES
  ParsedIsFinal
\* All ids used, all work done: the model, not the system, ends there.
CHECK_DEADLOCK FALSE

\* Every answer of the network to each of the three attempts.
SPECIFICATION FairSyncSpec
CONSTANTS
  Attempts = 3
  RetryHttp <- MCRetryHttp
  HttpErrors <- MCHttpErrors
  MaxBytes = 3
  PinSize = 2
  Sizes = {1, 2, 3, 4}
INVARIANTS
  VerdictIsTrue
  UnableOnlyIfExhausted
  RetriesAreSpaced
PROPERTIES
  SyncAdvances
  SyncEnds
\* The script ends.
CHECK_DEADLOCK FALSE

\* A body cut short without a Content-Length is reported as drift.
SPECIFICATION FairSyncSpec
CONSTANTS
  Attempts = 3
  RetryHttp <- MCRetryHttp
  HttpErrors <- MCHttpErrors
  MaxBytes = 3
  PinSize = 2
  Sizes = {1, 2, 3, 4}
INVARIANTS
  DriftIsConfirmed
\* The script ends.
CHECK_DEADLOCK FALSE

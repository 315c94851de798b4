\* Every message type, each field at the boundaries of its width and contract.
SPECIFICATION Spec
CONSTANTS
  Messages <- MCMessages
  Capacities <- MCCapacities
  OldBytes <- MCOldBytes
  Altered <- MCAltered
INVARIANTS
  RoundTrip
  AcceptedIsCanonical
  RejectedIsCleared
  AcceptedDriveWithinLimits

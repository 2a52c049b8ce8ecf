SPECIFICATION Spec
CONSTANTS
  k1 = k1
  k2 = k2
  Keys <- OneKey
  MaxSockets = 3
  MaxRequests = 3
INVARIANTS
  TypeOK
  PendingHasTimer
  ResubscriptionHasTimer
  ReturnedIdIsLiveAuto
  NothingLostUninterrupted
  UnsubscribedIsSilent
CONSTRAINT ThirdAdapterUndisturbed
CHECK_DEADLOCK FALSE

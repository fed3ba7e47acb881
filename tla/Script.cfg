CONSTANTS
  MaxScriptSize = 10000
  MaxScriptElementSize = 520
  MaxPubKeysPerMultiSig = 20
  defaultScriptNumLen = 2
  MaxDataCarrierSize = 80
  MaxOpsPerScript = 201
  LockTimeThreshold = 100
  SequenceLockTimeDisabled = 32
  SequenceLockTimeIsSeconds = 16
  SequenceLockTimeMask = 15
  MaxTxInSequenceNum = 63
  halfOrder = 15
  MaxStackSize = 1000
  maxEntries = 2
  Spent <- Outputs
  Drafts <- MCDrafts
  idx = 2
  HashTypes <- AllHashTypes
  MaxSigns = 2
  MaxAmends = 1
SPECIFICATION Spec
CHECK_DEADLOCK FALSE
INVARIANTS
  AcceptedIsAuthorised
  CompleteIsAccepted
  CacheIsTransparent
  FlagsOnlyRestrict

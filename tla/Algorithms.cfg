\* Byte counts and limits are scaled down so that both sides of each are reached;
\* the curve is y^2 = x^3 + 7 over the field of 43 elements, with 31 points.
CONSTANTS
  maxVarInt8 = 2
  MaxUint16 = 5
  MaxUint32 = 8
  Unlimited = 100000
  MaxMessagePayload = 1000
  MaxBlockPayload = 900
  MaxAddrPerMsg = 9
  MaxInvPerMsg = 9
  MaxBlockLocatorsPerMsg = 9
  MaxBlockHeadersPerMsg = 9
  MaxUserAgentLen = 9
  MaxFilterAddDataSize = 9
  MaxFilterLoadFilterSize = 9
  MaxFilterLoadHashFuncs = 2
  subVersionSize = 256
  maxWitnessItemsPerInput = 3
  maxWitnessItemSize = 6
  freeListMaxScriptSize = 4
  fieldWords = 4
  fieldBase = 7
  fieldMSBBits = 5
  wordBits = 13
  primeLow = 5
  primeHigh = 2
  byteBits = 2
  P = 43
  N = 31
  curveB = 7
  Gx = 2
  Gy = 12
  Hx = 35
  Hy = 21
  lambda = 25
  beta = 36
  curveBits = 6
  curveByte = 3
  denormal = 3
  holen = 3
  minSigLen = 9
  maxSigLen = 12
  minIntLen = 2
  MaxTransactions = 17
  MaxScriptSize = 10000
  MaxScriptElementSize = 520
  MaxPubKeysPerMultiSig = 20
  defaultScriptNumLen = 2
  MaxDataCarrierSize = 80
  MaxOpsPerScript = 201
  LockTimeThreshold = 100
  SequenceLockTimeDisabled = 32
  SequenceLockTimeIsSeconds = 16
  SequenceLockTimeMask = 15
  MaxTxInSequenceNum = 63
  MaxStackSize = 1000
  maxEntries = 2
SPECIFICATION Spec
CHECK_DEADLOCK FALSE
INVARIANTS
  MessagesRoundTrip
  TransactionsRoundTrip
  LogMessagesRoundTrip
  ExportsVerify
  ProofIsExact
  FieldIsExact
  PointsFollowGroupLaw
  SignaturesVerify
  ScriptsCarryData
  OpcodesDoAsDocumented

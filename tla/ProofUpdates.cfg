\* The dictionary, its commitments, proofs and deltas, with deletions; a full
\* server, fresh and restarted.
CONSTANTS
  Keys <- SomeKeys
  ZeroKey <- Zeros
  Tracked <- ProofKeys
  Setups <- AllSetups
SPECIFICATION Spec
INVARIANTS
  TrieIsDictionary
  ProofsVerify
  UpdatesKeepValues

---------------------------- MODULE MCAlgorithms ----------------------------
(***************************************************************************)
(* The pure functions: encodings of messages, transactions, statements and *)
(* tries, exported statements, block proofs, field, curve and signatures,  *)
(* scripts.                                                                *)
(* Each behaviour picks a group of inputs, then one input of it, on which  *)
(* the invariants evaluate the functions.                                  *)
(***************************************************************************)
EXTENDS WireChecks, LogChecks, CurveChecks, MerkleProof

CONSTANTS
  MaxScriptSize, MaxScriptElementSize, MaxPubKeysPerMultiSig, defaultScriptNumLen,
  MaxDataCarrierSize, MaxOpsPerScript, LockTimeThreshold, SequenceLockTimeDisabled,
  SequenceLockTimeIsSeconds, SequenceLockTimeMask, MaxTxInSequenceNum, MaxStackSize,
  maxEntries

Txscript == INSTANCE ScriptChecks

Groups == <<"messages", "counts", "transactions", "blocks", "frames",
            "statements", "histories", "tries", "exports", "variants", "merkle",
            "words", "products", "bytes", "sums", "doubles", "multiples",
            "signatures", "der", "keys", "numbers", "pushes", "addresses", "conditionals",
            "stacks", "laws">>

GroupInputs(group) ==
  CASE group = "messages" -> MessageInputs
    [] group = "counts" -> VarIntInputs
    [] group = "transactions" -> TxInputs
    [] group = "blocks" -> BlockInputs
    [] group = "frames" -> FrameInputs
    [] group = "statements" -> StatementInputs
    [] group = "histories" -> HistoryInputs
    [] group = "tries" -> TreeInputs
    [] group = "exports" -> ExportInputs
    [] group = "variants" -> VariantInputs
    [] group = "merkle" -> MerkleInputs
    [] group = "words" -> NormalizeInputs
    [] group = "products" -> ProductInputs
    [] group = "bytes" -> ByteInputs
    [] group = "sums" -> SumInputs
    [] group = "doubles" -> DoubleInputs
    [] group = "multiples" -> MultipleInputs
    [] group = "signatures" -> SignInputs
    [] group = "der" -> DerInputs
    [] group = "keys" -> KeyInputs
    [] group = "numbers" -> Txscript!NumberInputs
    [] group = "pushes" -> Txscript!PushInputs
    [] group = "addresses" -> Txscript!AddressInputs
    [] group = "conditionals" -> Txscript!ConditionalInputs
    [] group = "stacks" -> Txscript!StackInputs
    [] group = "laws" -> Txscript!LawInputs

\* ScriptsCarryData and OpcodesDoAsDocumented of ScriptChecks, for the package
\* txscript.
ScriptsCarryData == Txscript!ScriptsCarryData
OpcodesDoAsDocumented == Txscript!OpcodesDoAsDocumented

Init == input = NoInput

PickGroup ==
  /\ input = NoInput
  /\ \E i \in DOMAIN Groups : input' = [kind |-> "group", group |-> Groups[i]]

PickInput ==
  /\ input.kind = "group"
  /\ \E next \in GroupInputs(input.group) : input' = next

Next == PickGroup \/ PickInput

Spec == Init /\ [][Next]_input
=============================================================================

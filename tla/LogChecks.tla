----------------------------- MODULE LogChecks -----------------------------
(***************************************************************************)
(* What is checked of LogMessages and LogExport, one input at a time.      *)
(***************************************************************************)
EXTENDS LogExport, Inputs

\* A layout reads what it wrote, and reads nothing from less of it.
Reads(layout, msg) ==
  \E bytes \in {Encode(layout, msg)} :
    /\ Decode(layout, <<>>, bytes) = Ok(msg, <<>>)
    /\ \A k \in 0..(Len(bytes) - 1) : Decode(layout, <<>>, SubSeq(bytes, 1, k)).err

RECURSIVE ReadMessages(_)
ReadMessages(stream) ==
  LET Of(read) == IF read.err THEN <<>> ELSE <<read.value>> \o ReadMessages(read.rest)
  IN  Of(ReadNextMessage(stream))

(***************************************************************************)
(* Client and server read from each other's bytes what was written: signed *)
(* statements, of which no beginning can be taken for a whole one, so a    *)
(* signature is verified over the bytes that were signed; requests;        *)
(* commitments that are mined and that are not; the proofs and deltas of a *)
(* trie, whose sizes are computed without writing; and messages that       *)
(* follow each other on a connection.                                      *)
(***************************************************************************)
LogMessagesRoundTrip ==
  /\ input.kind = "logstatement" => Reads(SignedLogStatement, input.msg)
  /\ input.kind = "createstatement" => Reads(SignedCreateLogStatement, input.msg)
  /\ input.kind = "logids" =>
       NewRequestProofMessageFromBytes(RequestProofBytes(input.logIDs)) = input.logIDs
  /\ input.kind = "history" => \A c \in ToSet(input.commitments) :
       NewRequestCommitmentFromBytes(RequestCommitmentBytes(c.Commitment)) = c.Commitment
  /\ input.kind = "history" =>
       NewCommitmentHistoryMessageFromBytes(CommitmentHistoryBytes(input.commitments))
         = input.commitments
  /\ input.kind = "tree" =>
       \E bytes \in {Serialize(input.tree)} :
         /\ SizeOf(bytes) = ByteSize(input.tree)
         /\ DeserializeTree(bytes \o input.rest) = Ok(Deserialized(input.tree), input.rest)
         /\ \A k \in 0..(Len(bytes) - 1) : DeserializeTree(SubSeq(bytes, 1, k)).err
  /\ input.kind = "utxo" => UtxoFromBytes(UtxoBytes(input.utxo)) = input.utxo
  /\ input.kind = "connection" =>
       ReadMessages(FlattenSeq([i \in DOMAIN input.messages |->
                                  ConnectionWriteMessage(input.messages[i][1], input.messages[i][2])]))
         = input.messages

-----------------------------------------------------------------------------
(* Two clients of one server: A makes statements, B follows.               *)

Text(n) == <<<<5, n>>>>
ServerLog == <<0, 1, 1>>
KeyA == 0
KeyB == 1

World(fastMode) ==
  [A |-> NewClient(KeyA, fastMode), B |-> NewClient(KeyB, FALSE), stopped |-> FALSE,
   tree |-> Insert(NewFullMPT, ServerLog, <<"commit", 0>>), current |-> <<>>, under |-> <<>>,
   root |-> <<>>]

\* A statement the server registered.
Registered(w, name, done, preimage) ==
  [w EXCEPT ![name] = done.client, !.tree = Insert(@, done.log, done.witness),
            !.current = (done.log :> [PubKey |-> w[name].pubKey, Statement |-> preimage]) @@ @]

FirstLog == LogIDOf(Encode(CreateLogStatement,
                           SignedCreate(KeyA, StatementHash(Text(0))).CreateStatement))

CanAppend(c) == c.FastMode \/ IsCommitted(c, FirstLog, c.lastidx[FirstLog])

\* A commitment that both clients verify, with the header of its block, and then
\* ask for their proofs.
Committed(w) ==
  LET Verified(c, root, tree) == updateProofs([c EXCEPT !.commitments = @ \cup {root},
                                                               !.headers = @ \cup {root}], tree)
      Both(a, b, root, tree) ==
        IF a = {} \/ b = {} THEN [w EXCEPT !.stopped = TRUE]
        ELSE [w EXCEPT !.A = CHOOSE c \in a : TRUE, !.B = CHOOSE c \in b : TRUE,
                       !.tree = MarkUnchangedAll(tree), !.under = (root :> w.current) @@ @,
                       !.root = root]
      Under(root, tree) == Both(Verified(w.A, root, tree), Verified(w.B, root, tree), root, tree)
      Of(tree) == Under(GetHash(tree), tree)
  IN  Of(Hashed(Insert(w.tree, ServerLog, <<"commit", Cardinality(DOMAIN w.under) + 1>>)))

Start(w, name, preimage) ==
  LET Of(done) == IF done.log \in DOMAIN w.current THEN w ELSE Registered(w, name, done, preimage)
  IN  Of(StartLogText(w[name], preimage))

AppendFirst(w, preimage) ==
  IF FirstLog \notin DOMAIN w.current \/ ~CanAppend(w.A) THEN w
  ELSE Registered(w, "A", AppendLogText(w.A, FirstLog, preimage), preimage)

\* A reorganisation takes the block of the last commitment out of B's header file.
HeaderLost(w) == [w EXCEPT !.B.headers = @ \ {w.root}]

Do(w, op) ==
  IF w.stopped THEN w
  ELSE CASE op = "commit" -> Committed(w)
         [] op = "loseHeader" -> HeaderLost(w)
         [] op = "start" -> Start(w, "A", Text(0))
         [] op = "startOther" -> Start(w, "A", Text(1))
         [] op = "startB" -> Start(w, "B", Text(0))
         [] op = "append" -> AppendFirst(w, Text(2))
         [] op = "appendOther" -> AppendFirst(w, Text(3))

After(w, ops) == FoldLeft(Do, w, ops)

\* Whether the statement is the last of its log under the commitment.
IsUnder(w, log, statement, root) ==
  /\ root \in DOMAIN w.under /\ log \in DOMAIN w.under[root]
  /\ w.under[root][log].Statement = statement

\* B adds the statement, and the rest of the operations follow.
Followed(w, fs, ops) ==
  After([w EXCEPT !.B = AddForeignLog(@, ForeignStatementFromBytes(ForeignStatementBytes(fs)))], ops)

(***************************************************************************)
(* What ExportLog of a client without FastMode gives away for a log with a *)
(* committed statement, VerifyOnce of a client that knows the same         *)
(* commitments finds valid just where its header file still has the        *)
(* block of the commitment.  A client that adds it (AddForeignLog) keeps   *)
(* verifying commitments, whatever is appended to the log later, and lists *)
(* the statement under the last commitment that proved it, as valid or not *)
(* by the same look-up.                                                    *)
(***************************************************************************)
ExportIsValid ==
  input.kind = "export" => \A n \in DOMAIN input.ops :
    \E w \in {After(World(FALSE), SubSeq(input.ops, 1, n))} :
      /\ ~w.stopped
      /\ \A l \in {l \in GetAllLogIDs(w.A) : LogHasCommitment(w.A, l)} :
         \E fs \in ExportLog(w.A, l) :
           /\ \E verdict \in {VerifyOnce(w.B, ForeignStatementBytes(fs))} :
                /\ verdict.Valid <=> GetHash(fs.Proof) \in w.B.headers
                /\ verdict.Valid => IsUnder(w, l, verdict.Statement, verdict.Commitment)
           /\ \E last \in {Followed(w, fs, SubSeq(input.ops, n + 1, Len(input.ops)))} :
              \E info \in {LogInfo(last.B, l)}, root \in {GetHash(last.tree)} :
                /\ ~last.stopped /\ info.Foreign
                /\ info.Valid <=> info.LastCommitment \in last.B.headers
                /\ info.LastStatement = fs.StatementPreimage
                /\ IsUnder(last, l, info.LastStatement, info.LastCommitment)
                /\ (IsUnder(last, l, info.LastStatement, root) /\ root \in last.B.commitments)
                     => info.LastCommitment = root

\* Foreign statements made of the parts of exported ones.
Variants(exports) ==
  {[InitialStatement |-> i, LogID |-> a.LogID, StatementPreimage |-> b.StatementPreimage,
    Signature |-> s.Signature, PubKey |-> k, Index |-> n, Proof |-> p.Proof] :
     i \in BOOLEAN, a \in exports, b \in exports, s \in exports, k \in {KeyA, KeyB},
     n \in 0..2, p \in exports}

(***************************************************************************)
(* A statement VerifyOnce finds valid is the last one of a log of the key  *)
(* it names, under a commitment the client has verified and whose block it *)
(* still finds, from whichever exports and proofs its parts were taken.    *)
(***************************************************************************)
ValidIsCommitted ==
  input.kind = "variants" =>
    \E w \in {After(World(input.fastMode), input.ops)} :
    \E before \in {After(World(input.fastMode), SubSeq(input.ops, 1, Len(input.ops) \div 2))} :
    \E exports \in {UNION {ExportLog(x.A, l) : x \in {w, before}, l \in GetAllLogIDs(before.A)}} :
      \A fs \in Variants(exports) :
        \E verdict \in {VerifyOnce(w.B, ForeignStatementBytes(fs))} :
          verdict.Valid =>
            \E l \in DOMAIN w.current :
              /\ IsUnder(w, l, verdict.Statement, verdict.Commitment)
              /\ verdict.Commitment \in w.B.headers
              /\ w.under[verdict.Commitment][l].PubKey = verdict.PubKey

(***************************************************************************)
(* The two together: an exported statement verifies for whoever knows the  *)
(* commitment and finds its block, then and after the log has grown, and   *)
(* nothing else does                                                       *)
(* (ExportLog, AddForeignLog, updateProofs, VerifyOnce and LogInfo).       *)
(***************************************************************************)
ExportsVerify == ExportIsValid /\ ValidIsCommitted

-----------------------------------------------------------------------------
(***************************************************************************)
(* Inputs: statements with every kind of index and length,                 *)
(* the trees, proofs and deltas of up to three keys, and two clients       *)
(* through every sequence of five operations.                              *)
(***************************************************************************)

Pieces(n) == IF n = 0 THEN <<>> ELSE <<<<n, "bytes">>>>

StatementInputs ==
  {[kind |-> "logstatement",
    msg |-> [Signature |-> "sig", Statement |-> [LogID |-> "id", Index |-> i, Statement |-> Pieces(n)]]] :
     i \in 0..(MaxUint32 + 2), n \in {0, 1, maxVarInt8, maxVarInt8 + 1, 32}}
  \union
  {[kind |-> "createstatement",
    msg |-> [Signature |-> "sig",
             CreateStatement |-> [ControllingKey |-> "key", InitialStatement |-> Pieces(n)]]] :
     n \in 0..12}
  \union {[kind |-> "logids", logIDs |-> [i \in 1..n |-> <<"id", i>>]] : n \in 0..3}

Commitments ==
  {[Commitment |-> <<"root">>, TxHash |-> t, TriggeredAtBlockHeight |-> 7, IncludedInBlock |-> b,
    MerkleProof |-> [Position |-> 3, Hashes |-> [i \in 1..n |-> <<"hash", i>>]], RawTx |-> Pieces(r)] :
     t \in {{}, {<<"tx">>}}, b \in {{}, {<<"block">>}}, n \in {0, 2}, r \in {0, 9}}

HistoryInputs ==
  {[kind |-> "history", commitments |-> c] :
     c \in {<<>>} \union {<<a>> : a \in Commitments} \union {<<a, b>> : a, b \in Commitments}}
  \union {[kind |-> "utxo", utxo |-> [TxHash |-> "tx", Outpoint |-> 1, Value |-> 5, PkScript |-> Pieces(n)]] :
            n \in 0..3}
  \union {[kind |-> "connection", messages |-> [i \in 1..n |-> <<i, Pieces(z[i])>>]] :
            n \in 1..3, z \in [1..3 -> {0, 1, 7}]}

TreeKeys == {<<0, 0, 1>>, <<0, 0, 0>>, <<1, 0, 0>>, <<0, 1, 0>>}
Grown(tree, keys, v) == FoldSet(LAMBDA k, t : Insert(t, k, <<v, k>>), tree, keys)

\* Full trees, then proofs, deltas and updates of them.
Trees(keys, changed, asked) ==
  LET full == Hashed(Grown(NewFullMPT, keys, "first"))
      next == Hashed(Grown(MarkUnchangedAll(full), changed, "second"))
      delta == NewDeltaMPT(next)
  IN  {full, next, NewPartialMPTIncludingKeys(next, asked), delta, GetUpdatesForKeys(delta, asked)}

TreeInputs ==
  {[kind |-> "tree", tree |-> t, rest |-> r] :
     t \in {t \in UNION {Trees(keys, changed, asked) :
                           keys \in SUBSET TreeKeys, changed \in SUBSET TreeKeys,
                           asked \in {{k} : k \in TreeKeys}} : IsInterior(t)},
     r \in {<<>>, <<<<1, 0>>>>}}

Operations == {"startOther", "append", "appendOther", "startB", "commit", "loseHeader"}

ExportInputs ==
  {[kind |-> "export", ops |-> <<"start">> \o s] : s \in [1..4 -> Operations]}

VariantInputs ==
  {[kind |-> "variants", fastMode |-> f,
    ops |-> <<"start", a, "commit", b, "commit">>] : f \in BOOLEAN, a, b \in Operations}
=============================================================================

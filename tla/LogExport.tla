----------------------------- MODULE LogExport -----------------------------
(***************************************************************************)
(* Statements that leave the client that made them: ExportLog takes the    *)
(* last committed statement of a log out of the client's database,         *)
(* VerifyOnce checks such a statement at another client and AddForeignLog  *)
(* has that client follow it.                                              *)
(*                                                                         *)
(* A client is a record of its database: the functions loghash,            *)
(* logpreimage and logcommitment on pairs of a log and an index, lastidx   *)
(* on logs, proof on commitments, the set of the commitments it has        *)
(* verified, and of its header file the commitments whose block a look-up  *)
(* still finds.  Its operations are functions from clients to clients; the *)
(* server's tree goes with them.  How they interleave is in ClientLog, and *)
(* what the header file loses, and which header a look-up then returns, in *)
(* HeaderSync: here a look-up finds the block or fails, and the time stamp *)
(* taken from the header is left out.                                      *)
(***************************************************************************)
EXTENDS LogMessages

ForeignIndex == 999999999

NewClient(pubKey, fastMode) ==
  [pubKey |-> pubKey, FastMode |-> fastMode, loghash |-> <<>>, lastidx |-> <<>>,
   logpreimage |-> <<>>, logcommitment |-> <<>>, proof |-> <<>>, commitments |-> {},
   headers |-> {}]

\* dtx.Set on one kind of key.
Set(db, kind, key, value) == [db EXCEPT ![kind] = (key :> value) @@ @]

\* The identifier of a log is the digest of the bytes that create it.  The trie
\* looks at its bits: here the number of the key and the two bits of the text.
LogIDOf(bytes) ==
  LET key == bytes[1][2]
      text == Last(bytes)[2][2][1][2]
  IN  <<key, text \div 2, text % 2>>

StatementHash(preimage) == writeElement(32, Sum256Of(preimage))

SignedCreate(pubKey, statement) ==
  LET Signed(create) == [CreateStatement |-> create,
                         Signature |-> Sign(pubKey, Sum256Of(Encode(CreateLogStatement, create)))]
  IN  Signed([ControllingKey |-> pubKey, InitialStatement |-> statement])

SignedAppendLog(pubKey, idx, logId, statement) ==
  LET Signed(append) == [Statement |-> append,
                         Signature |-> Sign(pubKey, Sum256Of(Encode(LogStatement, append)))]
  IN  Signed([LogID |-> logId, Index |-> idx, Statement |-> statement])

WitnessOfCreate(scls) == Sum256Of(Encode(SignedCreateLogStatement, scls))
WitnessOfAppend(sls) == Sum256Of(Encode(SignedLogStatement, sls))

-----------------------------------------------------------------------------
(* What a client did before: StartLogText, AppendLogText, updateProofs.    *)

\* Store a statement the server acknowledged, and its text.
Stored(c, logId, idx, witness, preimage) ==
  Set(Set(Set(c, "loghash", <<logId, idx>>, witness), "lastidx", logId, idx),
      "logpreimage", <<logId, idx>>, preimage)

Acknowledged(c, logId, idx, witness, preimage) ==
  [client |-> Stored(c, logId, idx, witness, preimage), log |-> logId, witness |-> witness]

StartLogText(c, preimage) ==
  LET Started(l) == Acknowledged(c, LogIDOf(Encode(CreateLogStatement, l.CreateStatement)), 0,
                                 WitnessOfCreate(l), preimage)
  IN  Started(SignedCreate(c.pubKey, StatementHash(preimage)))

\* With FastMode the statement is the hash of the last witness and itself.
Chained(c, logId, statement) ==
  IF c.FastMode
  THEN writeElement(32, Sum256Of(writeElement(32, c.loghash[<<logId, c.lastidx[logId]>>]) \o statement))
  ELSE statement

AppendLogText(c, logId, preimage) ==
  LET idx == c.lastidx[logId] + 1
  IN  Acknowledged(c, logId, idx,
                   WitnessOfAppend(SignedAppendLog(c.pubKey, idx, logId,
                                                   Chained(c, logId, StatementHash(preimage)))),
                   preimage)

IsCommitted(c, logId, idx) == <<logId, idx>> \in DOMAIN c.logcommitment
LogHasCommitment(c, logId) == \E key \in DOMAIN c.logcommitment : key[1] = logId
IsForeignLog(c, logId) == <<logId, ForeignIndex>> \in DOMAIN c.loghash
GetAllLogIDs(c) == DOMAIN c.lastidx

\* The indices of the database that have the value of the proof.
Matching(c, l, val) == {key \in DOMAIN c.loghash : key[1] = l /\ c.loghash[key] = val}

\* For the logs in the proof, the commitment of the statement that is proven; the
\* result is {} where the client stops, the set of the changed client otherwise.
updateProofs(c, tree) ==
  LET logIds == GetAllLogIDs(c)
      Proven(val) == {l \in logIds : Matching(c, l, val[l]) # {}}
      Pending(val) == {l \in logIds : val[l] \in {None, StubMet, NilMet} /\ ~LogHasCommitment(c, l)}
      Refuses(val) == \E l \in logIds \ Pending(val) :
                       val[l] \in {StubMet, NilMet} \/ (l \notin Proven(val) /\ ~IsForeignLog(c, l))
      New(val, rootHash) ==
        [key \in {<<l, Max({key[2] : key \in Matching(c, l, val[l])})>> : l \in Proven(val) \ Pending(val)}
           |-> rootHash]
      Stores(proof, rootHash, val) ==
        IF rootHash \notin c.commitments \/ Refuses(val) THEN {}
        ELSE {[Set(c, "proof", rootHash, Serialize(proof)) EXCEPT !.logcommitment = New(val, rootHash) @@ @]}
      Verified(proof) == Stores(proof, GetHash(proof), [l \in logIds |-> PartialGet(proof, l)])
  IN  IF logIds = {} THEN {c}
      ELSE Verified(DeserializeTree(Serialize(NewPartialMPTIncludingKeys(tree, logIds))).value)

-----------------------------------------------------------------------------
(* Export.                                                                 *)

\* From the last index down, the first one that is committed and has its hash.
GetLastCommittedLog(c, logId) ==
  LET committed == {key[2] : key \in {k \in DOMAIN c.logcommitment :
                      k[1] = logId /\ k[2] <= c.lastidx[logId] /\ k \in DOMAIN c.loghash}}
  IN  IF logId \notin DOMAIN c.lastidx \/ committed = {} THEN -1
      ELSE Max(committed)

\* The stored proof is of all the client's logs; it is cut down to some of them.
GetProofForCommitment(c, commitment, logIds) ==
  LET fullTree == DeserializeTree(c.proof[commitment])
  IN  NewPartialMPTIncludingKeys(fullTree.value, logIds)

\* The statement as it was made; the signature is made again, over the digest
\* of the text.
ForeignStatementOf(c, logId, idx, commitment) ==
  LET preimage == c.logpreimage[<<logId, idx>>]
      signed == IF idx = 0 THEN SignedCreate(c.pubKey, StatementHash(preimage))
                ELSE SignedAppendLog(c.pubKey, idx, logId, StatementHash(preimage))
  IN  [InitialStatement |-> idx = 0, LogID |-> logId, StatementPreimage |-> preimage,
       Signature |-> signed.Signature, PubKey |-> c.pubKey, Index |-> idx,
       Proof |-> GetProofForCommitment(c, commitment, {logId})]

\* Mutant: the last statement, committed or not.
ExportLogLast(c, logId) ==
  IF GetLastCommittedLog(c, logId) < 0 \/ IsForeignLog(c, logId) THEN {}
  ELSE {ForeignStatementOf(c, logId, c.lastidx[logId],
                           c.logcommitment[<<logId, GetLastCommittedLog(c, logId)>>])}

ExportLog(c, logId) ==
  LET Exported(idx) ==
        IF \/ idx < 0 \/ IsForeignLog(c, logId)
           \/ <<logId, idx>> \notin DOMAIN c.logpreimage
           \/ c.logcommitment[<<logId, idx>>] \notin DOMAIN c.proof THEN {}
        ELSE {ForeignStatementOf(c, logId, idx, c.logcommitment[<<logId, idx>>])}
  IN  Exported(GetLastCommittedLog(c, logId))

-----------------------------------------------------------------------------
(* The other client.                                                       *)

Refused == [err |-> TRUE]

GetForeignLogIDAndHash(fs) ==
  LET hash == StatementHash(fs.StatementPreimage)
      OfCreate(create) ==
        IF ~VerifyCreate(create) THEN Refused
        ELSE [err |-> FALSE, hash |-> WitnessOfCreate(create),
              logId |-> LogIDOf(Encode(CreateLogStatement, create.CreateStatement))]
      OfAppend(append) ==
        IF ~VerifyAppend(append, fs.PubKey) THEN Refused
        ELSE [err |-> FALSE, hash |-> WitnessOfAppend(append), logId |-> fs.LogID]
  IN  IF fs.InitialStatement
      THEN OfCreate([CreateStatement |-> [ControllingKey |-> fs.PubKey, InitialStatement |-> hash],
                     Signature |-> fs.Signature])
      ELSE OfAppend([Statement |-> [Index |-> fs.Index, LogID |-> fs.LogID, Statement |-> hash],
                     Signature |-> fs.Signature])

NotValid(error) == [Valid |-> FALSE, Error |-> error]

\* What the commitment says, once the proof agrees with the statement.
VerifyCommitment(c, fs, commitment) ==
  IF commitment \notin c.commitments THEN NotValid("Could not get commitment")
  ELSE IF commitment \notin c.headers THEN NotValid("Could not fetch block details")
  ELSE [Valid |-> TRUE, Statement |-> fs.StatementPreimage, PubKey |-> fs.PubKey,
        Commitment |-> commitment]

\* Mutant: the value in the proof is not compared.
VerifyOnceUncompared(c, bytes) ==
  LET Checked(fs, foreign) ==
        IF foreign.err THEN NotValid("Could not read foreign statement")
        ELSE IF fs.Proof = Nil THEN NotValid("nil pointer dereference")
        ELSE IF PartialGet(fs.Proof, foreign.logId) \in {StubMet, NilMet, None}
        THEN NotValid("Provided proof")
        ELSE VerifyCommitment(c, fs, GetHash(fs.Proof))
      Of(fs) == Checked(fs, GetForeignLogIDAndHash(fs))
  IN  Of(ForeignStatementFromBytes(bytes))

\* Without a proof the handler dereferences nil.
VerifyOnce(c, bytes) ==
  LET Checked(fs, foreign) ==
        IF foreign.err THEN NotValid("Could not read foreign statement")
        ELSE IF fs.Proof = Nil THEN NotValid("nil pointer dereference")
        ELSE IF PartialGet(fs.Proof, foreign.logId) # foreign.hash THEN NotValid("Provided proof")
        ELSE VerifyCommitment(c, fs, GetHash(fs.Proof))
      Of(fs) == Checked(fs, GetForeignLogIDAndHash(fs))
  IN  Of(ForeignStatementFromBytes(bytes))

AddForeignLog(c, fs) ==
  LET WithCommitment(stored, key) ==
        IF fs.Proof = Nil THEN stored ELSE Set(stored, "logcommitment", key, GetHash(fs.Proof))
      Of(foreign) ==
        IF foreign.err THEN c
        ELSE WithCommitment(
               Stored(c, foreign.logId, ForeignIndex, foreign.hash, fs.StatementPreimage),
               <<foreign.logId, ForeignIndex>>)
  IN  Of(GetForeignLogIDAndHash(fs))

\* One line of what the Logs handler lists; without the block's header it is
\* not valid, and says the rest all the same.
LogInfo(c, l) ==
  LET Info(idx, key) ==
        IF idx < 0 THEN NotValid("Could not find a commitment for this log (yet)")
        ELSE IF key \notin DOMAIN c.logpreimage THEN NotValid("Could not fetch preimage")
        ELSE IF c.logcommitment[key] \notin c.commitments
        THEN NotValid("Could not fetch commitment details")
        ELSE [Valid |-> c.logcommitment[key] \in c.headers, Foreign |-> IsForeignLog(c, l), LastIndex |-> idx,
              LastStatement |-> c.logpreimage[key], LastCommitment |-> c.logcommitment[key]]
      Of(idx) == Info(idx, <<l, idx>>)
  IN  Of(GetLastCommittedLog(c, l))
=============================================================================

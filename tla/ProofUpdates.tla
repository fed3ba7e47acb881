---------------------------- MODULE ProofUpdates ----------------------------
(***************************************************************************)
(* The tries of a running server and of one client: the tree statements go *)
(* into, the copies kept at the last commitment and at the last confirmed  *)
(* one, the bytes in serverstate.hex, and the partial tree of a client     *)
(* that asks for a proof once and then applies the pushed deltas.          *)
(*                                                                         *)
(* Statements and Commit exclude each other by mptLock (module LogServer), *)
(* so Insert and Commit are single steps here.                             *)
(***************************************************************************)
EXTENDS Mpt

CONSTANTS
  Keys,        \* log identifiers, as sequences of bits of one length
  ZeroKey,     \* the server's own log
  Tracked,     \* the sets of keys a client may ask a proof for
  Setups       \* the servers to look at, see SetupType

(***************************************************************************)
(* A server: full is srv.Full (commitments go to the chain, state to the   *)
(* disk), established when the data directory of a full server holds a     *)
(* maiden commitment, deletes when FullMPT.Delete is called (the server    *)
(* itself never does); then what a statement stores, as one-element        *)
(* sequences, and the bounds on commitments and restarts.                  *)
(***************************************************************************)
SetupType(u) ==
  /\ DOMAIN u = {"full", "established", "deletes", "values", "commits",
                 "restarts"}
  /\ {u.full, u.established, u.deletes} \subseteq BOOLEAN
  /\ {u.commits, u.restarts} \subseteq Nat
  /\ u.established => u.full

ASSUME KeysAssumption ==
  /\ ZeroKey \in Keys
  /\ Tracked \subseteq SUBSET Keys \ {{}}
  /\ \A u \in Setups : SetupType(u)

VARIABLES
  setup,                   \* the server, one of Setups
  fullmpt,                 \* the tree
  aliased,                 \* the value in ZeroKey's leaf is fullmpt.root.hash
  LastCommitMpt,           \* its copy at the last commitment, or Nil
  LastConfirmedCommitMpt,  \* the copy at the last confirmed one, or Nil
  lastCommitment,          \* the root committed last
  serverstate,             \* the two trees in serverstate.hex
  proof,                   \* the client's PartialMPT, or Nil
  tracked,                 \* the keys it proves
  sent,                    \* the root the wallet sent last
  dict,                    \* the mappings made, by key
  commits,                 \* commitments made
  restarts                 \* restarts made

vars == <<setup, fullmpt, aliased, LastCommitMpt, LastConfirmedCommitMpt,
          lastCommitment, serverstate, sent, proof, tracked, dict,
          commits, restarts>>

Full == setup.full
Established == setup.established
Deletes == setup.deletes
Values == setup.values

copies == <<LastCommitMpt, LastConfirmedCommitMpt, lastCommitment, serverstate>>
client == <<proof, tracked>>

(***************************************************************************)
(* Values: a statement of a client, the random trigger of a start of the   *)
(* server, or a root.                                                      *)
(***************************************************************************)
TriggerValue(n) == <<"trigger", n>>

MaidenValue == <<"maiden">>

(***************************************************************************)
(* loadState copies the tree in the file before it computes any hash; the  *)
(* trigger follows.                                                        *)
(***************************************************************************)
Loaded(last, n) == Insert(DeepCopy(last), ZeroKey, TriggerValue(n))

(***************************************************************************)
(* NewServer and Run.  A full server makes its trigger statement, on what  *)
(* its data directory holds: nothing, or a maiden commitment.  A server    *)
(* without a chain makes its maiden statement.                             *)
(***************************************************************************)
MaidenTree == Deserialized(Insert(NewFullMPT, ZeroKey, MaidenValue))

FirstValue == IF Full THEN TriggerValue(0) ELSE MaidenValue

Init ==
  /\ setup \in Setups
  /\ dict = [k \in Keys |-> IF k = ZeroKey THEN FirstValue ELSE None]
  /\ IF Established
     THEN /\ fullmpt = Loaded(MaidenTree, 0)
          /\ LastCommitMpt = Hashed(MaidenTree)
          /\ LastConfirmedCommitMpt = MaidenTree
          /\ lastCommitment = Commitment(MaidenTree)
          /\ serverstate = [last |-> MaidenTree, confirmed |-> MaidenTree]
     ELSE /\ fullmpt = Insert(NewFullMPT, ZeroKey, FirstValue)
          /\ LastCommitMpt = Nil
          /\ LastConfirmedCommitMpt = Nil
          /\ lastCommitment = Zero
          /\ serverstate = [last |-> Nil, confirmed |-> Nil]
  /\ aliased = FALSE
  /\ sent = Zero
  /\ proof = Nil
  /\ tracked = {}
  /\ commits = 0
  /\ restarts = 0

(***************************************************************************)
(* A client's statement (RegisterLogStatement): never in ZeroKey.          *)
(***************************************************************************)
InsertStatement(k, v) ==
  /\ k # ZeroKey
  /\ fullmpt' = Insert(fullmpt, k, v)
  /\ dict' = [dict EXCEPT ![k] = v]
  /\ UNCHANGED <<setup, aliased, copies, sent, client, commits, restarts>>

DeleteStatement(k) ==
  /\ Deletes
  /\ k # ZeroKey
  /\ fullmpt' = Delete(fullmpt, k)
  /\ dict' = [dict EXCEPT ![k] = None]
  /\ UNCHANGED <<setup, aliased, copies, sent, client, commits, restarts>>

(***************************************************************************)
(* RequestProof: a full server serves the confirmed tree, another one the  *)
(* tree committed last; neither serves anything before there is one.       *)
(***************************************************************************)
Served == IF Full THEN LastConfirmedCommitMpt ELSE LastCommitMpt

RequestProof(keys) ==
  /\ Served # Nil
  /\ proof' = Deserialized(NewPartialMPTIncludingKeys(Served, keys))
  /\ tracked' = keys
  /\ UNCHANGED <<setup, fullmpt, aliased, copies, sent, dict, commits, restarts>>

(***************************************************************************)
(* Commitment() on the tree.  The slice it returns is the root's own; when *)
(* ZeroKey's leaf holds that slice for its value, computing a new root     *)
(* changes the value under the leaf, whose hash was computed before.       *)
(***************************************************************************)
RECURSIVE Overwritten(_, _, _, _)
Overwritten(n, k, d, v) ==
  CASE n.kind = "leaf" -> [n EXCEPT !.value = v]
    [] IsInterior(n) /\ GetBit(k, d) ->
         [n EXCEPT !.right = Overwritten(@, k, d + 1, v)]
    [] IsInterior(n) /\ ~GetBit(k, d) ->
         [n EXCEPT !.left = Overwritten(@, k, d + 1, v)]

Committed ==
  LET t == Hashed(fullmpt)
  IN  IF aliased THEN Overwritten(t, ZeroKey, 1, t.hash) ELSE t

CommitNoChanges ==
  /\ Committed.hash = lastCommitment
  /\ fullmpt' = Committed
  /\ UNCHANGED <<setup, aliased, copies, sent, client, dict, commits, restarts>>

(***************************************************************************)
(* Commit: copy, delta, SendProofs, Reset.  A full server goes on to the   *)
(* wallet; when that succeeds it saves its trees and states the root in    *)
(* its own log.                                                            *)
(***************************************************************************)
Saved(last, confirmed) ==
  [last |-> Deserialized(last), confirmed |-> Deserialized(confirmed)]

Commit(ok) ==
  LET t == Committed
      update == GetUpdatesForKeys(NewDeltaMPT(t), tracked)
      force == Full /\ ok
      reset == MarkUnchangedAll(t)
  IN  /\ commits < setup.commits
      /\ t.hash # lastCommitment
      /\ Full \/ ok
      /\ lastCommitment' = t.hash
      /\ LastCommitMpt' = DeepCopy(t)
      /\ proof' = IF proof = Nil THEN Nil
                  ELSE ProcessUpdates(proof, Deserialized(update))
      /\ fullmpt' = IF force THEN Insert(reset, ZeroKey, t.hash) ELSE reset
      /\ aliased' = (aliased \/ force)
      /\ dict' = IF force THEN [dict EXCEPT ![ZeroKey] = t.hash]
                 ELSE [dict EXCEPT ![ZeroKey] = Get(t, ZeroKey)]
      /\ serverstate' = IF force
                        THEN Saved(DeepCopy(t), LastConfirmedCommitMpt)
                        ELSE serverstate
      /\ sent' = IF force THEN t.hash ELSE sent
      /\ commits' = commits + 1
      /\ UNCHANGED <<setup, LastConfirmedCommitMpt, tracked, restarts>>

(***************************************************************************)
(* processMerkleProofs finds the transaction of the last commitment in a   *)
(* block.                                                                  *)
(***************************************************************************)
Confirm ==
  /\ Full
  /\ sent # Zero
  /\ sent = lastCommitment
  /\ LastConfirmedCommitMpt' = DeepCopy(LastCommitMpt)
  /\ serverstate' = Saved(LastCommitMpt, LastConfirmedCommitMpt')
  /\ UNCHANGED <<setup, fullmpt, aliased, LastCommitMpt, lastCommitment, sent, client,
                 dict, commits, restarts>>

(***************************************************************************)
(* The server stops and Run starts it again.  Connections are gone.  Run   *)
(* panics when the commitments in the database do not start with a maiden  *)
(* commitment (module CommitChain).                                        *)
(***************************************************************************)
Restart ==
  LET last == serverstate.last
  IN  /\ Established
      /\ restarts < setup.restarts
      /\ fullmpt' = Loaded(last, restarts + 1)
      /\ aliased' = FALSE
      /\ LastCommitMpt' = Hashed(last)
      /\ LastConfirmedCommitMpt' = serverstate.confirmed
      /\ lastCommitment' = Commitment(last)
      /\ dict' = [[k \in Keys |-> Get(last, k)]
                    EXCEPT ![ZeroKey] = TriggerValue(restarts + 1)]
      /\ restarts' = restarts + 1
      /\ proof' = Nil
      /\ tracked' = {}
      /\ UNCHANGED <<setup, serverstate, sent, commits>>

Next ==
  \/ \E k \in Keys, v \in Values : InsertStatement(k, v)
  \/ \E k \in Keys : DeleteStatement(k)
  \/ \E keys \in Tracked : RequestProof(keys)
  \/ CommitNoChanges
  \/ \E ok \in BOOLEAN : Commit(ok)
  \/ Confirm
  \/ Restart

Spec == Init /\ [][Next]_vars
-----------------------------------------------------------------------------
Mappings(t) == [k \in Keys |-> Get(t, k)]

(***************************************************************************)
(* The trie is a dictionary with one commitment per content: Get returns   *)
(* what was stored last, or nothing when the key was deleted, whatever was *)
(* split and pushed up in between (insertHelper, deleteHelper, split), and *)
(* "for any given set of (key,value) mappings, regardless of the order     *)
(* they inserted the commitment will be the same" (FullMPT.Commitment): a  *)
(* commitment is the one its mappings have with no history, so no stale    *)
(* cached hash and no leftover interior node gets into it.                 *)
(***************************************************************************)
TrieIsDictionary ==
  /\ Mappings(fullmpt) = dict
  /\ ~Full /\ LastCommitMpt # Nil =>
       lastCommitment = ReferenceCommitment(Mappings(LastCommitMpt))

(***************************************************************************)
(* A proof for any set of keys, as the client decodes it, has the          *)
(* committed root and answers each of its keys, mapped or not              *)
(* (copyMultiplePaths, PartialMPT.Get).                                    *)
(***************************************************************************)
Verifies(keys) ==
  LET p == Deserialized(NewPartialMPTIncludingKeys(LastCommitMpt, keys))
  IN  /\ Commitment(p) = lastCommitment
      /\ \A k \in keys : PartialGet(p, k) = Get(LastCommitMpt, k)

ProofsVerify ==
  ~Full /\ LastCommitMpt # Nil => \A keys \in Tracked : Verifies(keys)

(***************************************************************************)
(* The same for the logs there are: "a part of the tree that will end up   *)
(* being hashed to the same result" (copyMultiplePaths), so the owner of a *)
(* log can check the proof of its statement.  Does not hold: a tree that   *)
(* loadState copies has no hashes yet.                                     *)
(***************************************************************************)
OwnedProofsVerify ==
  LastCommitMpt # Nil =>
    \A keys \in Tracked :
      (\A k \in keys : Get(LastCommitMpt, k) # None) => Verifies(keys)

(***************************************************************************)
(* A client that applies every delta finds the committed value of each of  *)
(* its keys that is mapped (copyChangesOnlyHelper, getUpdatesHelper,       *)
(* UpdateNode): the marks survive splits, deletions and several rounds.    *)
(***************************************************************************)
UpdatesKeepValues ==
  ~Full /\ proof # Nil =>
    \A k \in tracked :
      Get(LastCommitMpt, k) # None =>
        PartialGet(proof, k) = Get(LastCommitMpt, k)

(***************************************************************************)
(* "The client can process this update and her view of the authenticated   *)
(* dictionary will now reflect the update" (GetUpdatesForKeys): the proof  *)
(* a client keeps up to date with deltas has the committed root.  Does not *)
(* hold: a delta lacks the empty leaf that a split makes.                  *)
(***************************************************************************)
UpdatedProofVerifies == proof # Nil => Commitment(proof) = lastCommitment
=============================================================================

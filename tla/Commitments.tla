---------------------------- MODULE Commitments ----------------------------
(***************************************************************************)
(* The commitments of the protocol (stf-types v5/hash.rs, batch_data.rs):  *)
(* what L1 stores or checks instead of the value itself.                   *)
(*                                                                         *)
(* keccak256 of a number of words is the tuple of those words, so two      *)
(* commitments are equal when their preimages are.  What can go wrong is   *)
(* the preimage: a field that is left out, a length that is not bound, a   *)
(* position that two values share.                                         *)
(***************************************************************************)
EXTENDS PositionalTrees

(***************************************************************************)
(* Lists.  Solidity's encoding of an array is its offset, its length and   *)
(* its items.                                                              *)
(***************************************************************************)

ListHash(hashes) == <<32, Len(hashes)>> \o hashes

\* roster_change_hash_v5
RosterChangeHash(c) ==
    <<c.id, c.action, c.index, c.joined, c.deadline, c.member, c.commitment>>

\* roster_changes_hash_v5
RosterChangesHash(changes) ==
    ListHash([k \in DOMAIN changes |-> RosterChangeHash(changes[k])])

\* deposit_content_hash_v5
DepositContentHash(d) == <<d.depositor, d.beneficiary, d.asset, d.amount>>

\* inbox_record_hash_v5
InboxRecordHash(d) == <<d.id, DepositContentHash(d), d.queued, d.consumed, d.refunded>>

\* inbox_records_hash_v5
InboxRecordsHash(deposits) ==
    ListHash([k \in DOMAIN deposits |-> InboxRecordHash(deposits[k])])

\* admission_record_hash_v5: the receipt, then its outcome.
AdmissionRecordHash(r) ==
    <<r.id, r.tx, r.deposit, r.content, r.deadline, r.lastBatch, r.bond, r.fee, r.signature,
      r.outcomeId, r.outcomeTx, r.status, r.block, r.position, r.reason>>

\* admission_records_hash_v5
AdmissionRecordsHash(records) ==
    ListHash([k \in DOMAIN records |-> AdmissionRecordHash(records[k])])

\* forced_outcome_hash_v5
ForcedOutcomeHash(f) == <<f.id, f.raw, f.status, f.block, f.position, f.reason>>

\* forced_outcomes_hash_v5
ForcedOutcomesHash(forced) ==
    ListHash([k \in DOMAIN forced |-> ForcedOutcomeHash(forced[k])])

\* The lists one after the other.
Concat(lists) ==
    LET upTo[n \in 0..Len(lists)] == IF n = 0 THEN <<>> ELSE upTo[n - 1] \o lists[n]
    IN upTo[Len(lists)]

\* liabilities_hash_v5 hashes the words of all assets at once.
LiabilitiesHash(values) ==
    <<32, Len(values)>> \o Concat([k \in DOMAIN values |->
      <<values[k].asset, values[k].pending, values[k].controlled, values[k].claimable,
        values[k].paid>>])

(***************************************************************************)
(* Imports and policies.                                                   *)
(***************************************************************************)

\* storage_keys_root_v5
StorageKeysRoot(storage) == [k \in DOMAIN storage |-> storage[k][1]]

\* import_payload_commitment_v5: the keys and the values, each a word.
ImportPayloadCommitment(storage) == Concat(storage)

\* import_policy_leaf_v5
ImportPolicyLeaf(i) == <<i.chain, i.source, i.code, StorageKeysRoot(i.storage), i.adapter>>

\* import_root_v5
ImportRoot(i) ==
    <<i.room, i.block, i.header, i.root, ImportPolicyLeaf(i),
      ImportPayloadCommitment(i.storage), i.expiry>>

\* A list in the encoding of a policy: its length and the bytes of its items.
Counted(items) == <<Len(items)>> \o Concat(items)

\* An optional binding: a byte that says whether it is there, then its bytes.
Optional(binding) == IF binding = <<>> THEN <<0>> ELSE <<1>> \o binding

Bytewise(items) == [k \in DOMAIN items |-> <<items[k]>>]

CallBytes(c) == <<c.caller, c.target>> \o Counted(Bytewise(c.selectors))
                                       \o Counted(Bytewise(c.kinds))

\* A policy without an exit binding appends nothing, not even a byte.
ExitBytes(exit) ==
    IF exit = <<>> THEN <<>>
    ELSE <<1, exit.queue, exit.count, exit.base>> \o Counted(exit.assets) \o <<exit.fallback>>

\* execution_policy_hash_v5 of one sequence of bytes
ExecutionPolicyHash(p) ==
    p.header \o Counted(p.code) \o Counted([k \in DOMAIN p.calls |-> CallBytes(p.calls[k])])
             \o Counted(p.storage) \o Counted(p.imports)
             \o Optional(p.registry) \o ExitBytes(p.exit)

(***************************************************************************)
(* The public data of a batch.                                             *)
(***************************************************************************)

\* Mutant: a header has no length.
Header_noLength(tag, payload) == <<tag>> \o payload

\* An RLP header: a tag with the length of what follows.
Header(tag, payload) == <<tag, Len(payload)>> \o payload

RlpString(bytes) == Header(128, bytes)

RlpList(items) == Header(192, Concat(items))

\* canonical_batch_data_v5: the root of a block is the parent of the next.
CanonicalBatchData(blocks, pre) ==
    LET parent(k) == IF k = 1 THEN pre ELSE blocks[k - 1].post
        words(list) == RlpList([k \in DOMAIN list |-> RlpString(<<list[k]>>)])
        history(b) == RlpList([h \in DOMAIN b.history |-> words(b.history[h])])
        txs(b) == RlpList([t \in DOMAIN b.txs |-> RlpString(b.txs[t])])
        block(k) == RlpList(<<RlpString(<<blocks[k].number>>), words(blocks[k].env),
                              RlpString(<<parent(k)>>), RlpString(<<blocks[k].post>>),
                              history(blocks[k]), txs(blocks[k])>>)
    IN RlpList(<<RlpString(<<5>>), RlpList([k \in DOMAIN blocks |-> block(k)])>>)

(***************************************************************************)
(* Statements.  A guest commits one of them and nothing else.  Their       *)
(* preimages have different numbers of words and different labels.         *)
(***************************************************************************)

\* hash_batch_journal_v5
HashBatchJournal(journal) == <<"batch", journal>>

\* cold_template_statement_v6: the bytes of the genesis package are bound.
ColdTemplateStatement(input, genesisDataHash) ==
    <<"cold", input.template, input.root, input.policyHash, input.program, genesisDataHash>>

============================================================================

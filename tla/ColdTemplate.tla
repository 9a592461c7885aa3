---------------------------- MODULE ColdTemplate ----------------------------
(***************************************************************************)
(* Blocks of a v4 room (block.rs), and the reusable proof of the setup of  *)
(* its contracts (cold_room.rs, cold_state.rs): a template says which code *)
(* the setup left, which values a room may replace when it is opened, and  *)
(* commits to all the others.                                              *)
(***************************************************************************)
EXTENDS SettlementV4

CONSTANTS
    MaxColdBlocks,  \* MAX_COLD_BLOCKS_V4
    MaxColdTxs,     \* MAX_COLD_TRANSACTIONS_V4
    MaxColdGas,     \* MAX_COLD_GAS_PER_BLOCK_V4
    CodeBytes,      \* the length of every runtime
    MaxCode         \* MAX_COMPACT_CODE_BYTES_V4

(***************************************************************************)
(* Blocks.  What the EVM does is external: a transaction moves native      *)
(* value and changes words, or reverts when one of them would go below     *)
(* zero.  The nonce of an account matters only by being zero.              *)
(***************************************************************************)

RecordOf(accounts, a) == IF a \in DOMAIN accounts THEN accounts[a] ELSE NewRecord

Moves(tx, a) == IF a \in DOMAIN tx.value THEN tx.value[a] ELSE 0

Reverts(accounts, tx) ==
    \/ \E a \in DOMAIN tx.value : RecordOf(accounts, a).balance + tx.value[a] < 0
    \/ \E w \in DOMAIN tx.writes : SlotAt(accounts, w[1], w[2]) + tx.writes[w] < 0

Touched(tx) ==
    {tx.from} \cup DOMAIN tx.value \cup {w[1] : w \in DOMAIN tx.writes} \cup tx.creates

\* The accounts after a transaction; commit drops the ones it leaves empty.
Executed(accounts, tx) ==
    LET done == ~Reverts(accounts, tx)
        written(a) == {s \in Slot : <<a, s>> \in DOMAIN tx.writes}
        after == [a \in Touched(tx) |->
          LET old == RecordOf(accounts, a)
          IN [balance |-> old.balance + (IF done THEN Moves(tx, a) ELSE 0),
              nonce |-> IF a = tx.from \/ (done /\ a \in tx.creates) THEN 1 ELSE old.nonce,
              code |-> IF done /\ a \in tx.creates THEN tx.runtime[a] ELSE old.code,
              storage |-> IF done
                          THEN [s \in written(a) |-> old.storage[s] + tx.writes[<<a, s>>]]
                                 @@ old.storage
                          ELSE old.storage]] @@ accounts
    IN Restrict(after, {a \in DOMAIN after : after[a] # NewRecord})

AllTxs(blocks) == Concat([k \in DOMAIN blocks |-> blocks[k].txs])

\* The accounts after the first n transactions of the blocks.
Ran(accounts, blocks) ==
    LET txs == AllTxs(blocks)
        after[n \in 0..Len(txs)] ==
          IF n = 0 THEN accounts ELSE Executed(after[n - 1], txs[n])
    IN after[Len(txs)]

\* What the loop of execute_block_on_state asks of every transaction.
BlocksAllowed(preset, members, state, blocks) ==
    \A k \in DOMAIN blocks :
      /\ SumTo(Len(blocks[k].txs), LAMBDA t : blocks[k].txs[t].gas) <= preset.maxGas
      /\ \A t \in DOMAIN blocks[k].txs :
           LET tx == blocks[k].txs[t]
           IN /\ TransactionAllowed(preset, members, tx)
              /\ Touched(tx) \cup ({tx.to} \ {Nothing}) \subseteq DOMAIN state.declared
              /\ \A w \in DOMAIN tx.writes : Readable(state, w[1], w[2])

\* Timestamps go back neither within a batch nor across its start.
Timely(blocks, previous) ==
    \A k \in DOMAIN blocks :
      blocks[k].time >= (IF k = 1 THEN previous ELSE blocks[k - 1].time)

(***************************************************************************)
(* Templates.                                                              *)
(***************************************************************************)

\* The bytes of code in a state, and the slots that are not zero.
CodeSize(accounts) ==
    MapThenSumSet(LAMBDA a : IF accounts[a].code = NoCode THEN 0 ELSE CodeBytes[accounts[a].code],
                  DOMAIN accounts)
NonzeroSlots(account) == {s \in Slot : account.storage[s] # 0}

\* The caps on the state a setup starts from and on the one it leaves.
ColdStateFits(accounts) ==
    /\ Cardinality(DOMAIN accounts) <= MaxAccounts
    /\ SlotCount([a \in DOMAIN accounts |-> NonzeroSlots(accounts[a])]) <= MaxSlots
    /\ CodeSize(accounts) <= MaxCode

\* validate_cold_shapes_v4
ShapesOk(template) ==
    /\ Cardinality(DOMAIN template.access) <= MaxAccounts
    /\ SlotCount(template.access) <= MaxSlots
    /\ DOMAIN template.runtime \subseteq DOMAIN template.access
    /\ \A a \in DOMAIN template.refresh :
         /\ a \in DOMAIN template.access
         /\ ~template.refresh[a].all => template.refresh[a].slots \subseteq template.access[a]

\* verify_cold_runtime_code_v4: the committed code is there, and no other.
RuntimeOk(accounts, runtime) ==
    /\ \A a \in DOMAIN runtime :
         /\ a \in DOMAIN accounts /\ accounts[a].code # NoCode
         /\ CodeHash(accounts[a]) = runtime[a]
    /\ \A a \in DOMAIN accounts : accounts[a].code # NoCode => a \in DOMAIN runtime

Refreshes(template, a) == a \in DOMAIN template.refresh

AllStorage(template, a) == Refreshes(template, a) /\ template.refresh[a].all

\* Template accounts exist, and keep their storage within the access set.
StaticDefined(accounts, template) ==
    \A a \in DOMAIN template.access :
      /\ a \in DOMAIN accounts
      /\ AllStorage(template, a)
           \/ NonzeroSlots(accounts[a]) \subseteq template.access[a]

\* Mutant: a rule that refreshes the balance refreshes the listed slots of
\* every account.
StaticSlots_anyRule(template, a) ==
    IF AllStorage(template, a) THEN {}
    ELSE template.access[a] \ UNION {template.refresh[b].slots : b \in DOMAIN template.refresh}

StaticSlots(template, a) ==
    IF AllStorage(template, a) THEN {}
    ELSE template.access[a] \ (IF Refreshes(template, a) THEN template.refresh[a].slots ELSE {})

\* cold_static_state_commitment_v4
StaticCommitment(accounts, template) ==
    <<template.access, template.refresh,
      [a \in DOMAIN template.access |->
         <<IF Refreshes(template, a) /\ template.refresh[a].nonce THEN 0 ELSE accounts[a].nonce,
           IF Refreshes(template, a) /\ template.refresh[a].balance THEN 0
           ELSE accounts[a].balance,
           CodeHash(accounts[a]),
           [s \in StaticSlots(template, a) |-> accounts[a].storage[s]]>>]>>

\* execute_cold_room_v4 returns a journal: the setup creates a contract, and
\* leaves a state that fits the template.
ColdOk(input) ==
    LET txs == AllTxs(input.blocks)
        after == Ran(input.initial, input.blocks)
    IN /\ DOMAIN input.runtime # {}
       /\ Len(input.blocks) \in 1..MaxColdBlocks /\ Len(txs) \in 1..MaxColdTxs
       /\ ColdStateFits(input.initial)
       /\ ShapesOk(input)
       /\ Timely(input.blocks, 0)
       /\ \A k \in DOMAIN input.blocks :
            SumTo(Len(input.blocks[k].txs), LAMBDA t : input.blocks[k].txs[t].gas) <= MaxColdGas
       /\ \E k \in DOMAIN txs : txs[k].to = Nothing
       /\ ColdStateFits(after)
       /\ RuntimeOk(after, input.runtime)
       /\ StaticDefined(after, input)

\* Its journal.
ColdJournal(input) ==
    LET after == Ran(input.initial, input.blocks)
        journal == [preset |-> input.preset, initial |-> input.initial,
                    initialized |-> after, setup |-> input.blocks,
                    roots |-> ColdRoots(input), static |-> StaticCommitment(after, input)]
    IN [journal |-> journal, id |-> ColdTemplateIdV4(journal)]

\* validate_composed_cold_link_v4: the batch belongs to the template, and the
\* state it opens with differs from the template's only where rooms may.
LinkOk(cold, template, preset, accounts) ==
    /\ cold.id = ColdTemplateIdV4(cold.journal)
    /\ cold.journal.preset = preset
    /\ ShapesOk(template)
    /\ cold.journal.roots = ColdRoots(template)
    /\ RuntimeOk(accounts, template.runtime)
    /\ StaticDefined(accounts, template)
    /\ StaticCommitment(accounts, template) = cold.journal.static

=============================================================================

------------------------------ MODULE RoomState ------------------------------
(***************************************************************************)
(* The state a guest executes on (stf-core db/*, compact.rs): the accounts *)
(* of a room, the envelope of accounts and slots its witness declared, and *)
(* the runtimes that were analysed ahead of execution.                     *)
(*                                                                         *)
(* Nonce and balance matter here only through the question whether both    *)
(* are zero (live).  A slot that holds zero is an absent slot.  A hash is  *)
(* the value it hashes: keccak collisions are out of scope.                *)
(***************************************************************************)
EXTENDS Integers, FiniteSets, Functions

CONSTANTS
    Addr,         \* addresses
    Slot,         \* storage slots
    NoCode,       \* the empty runtime
    MaxAccounts,  \* MAX_COMPACT_ACCOUNTS_V4
    MaxSlots      \* MAX_COMPACT_STORAGE_SLOTS_V4

ZeroStorage == [s \in Slot |-> 0]

\* AccountRecord::default
NoRecord == [live |-> FALSE, code |-> NoCode, storage |-> ZeroStorage]

\* AccountRecord::is_empty: storage alone keeps a record.
IsEmpty(record) == record = NoRecord

\* AccountRecord::code_hash; the hash of no code is a constant of its own.
CodeHash(record) == IF record.code = NoCode THEN <<>> ELSE <<record.code>>

RecordAt(accounts, a) == IF a \in DOMAIN accounts THEN accounts[a] ELSE NoRecord

SlotAt(accounts, a, s) == RecordAt(accounts, a).storage[s]

(***************************************************************************)
(* Commitments.  The two layouts of a root commit to the same leaves.  The *)
(* sparse one prefixes its tree with the number of leaves.                 *)
(***************************************************************************)

\* validated_prepared_code: the account's own bytes decide.
ServedCode(state, a) ==
    IF a \in DOMAIN state.prepared /\ state.prepared[a] = CodeHash(state.accounts[a])
    THEN state.prepared[a]
    ELSE CodeHash(state.accounts[a])

\* The leaves of both roots; hash gives the code hash of an account.
Leaves(state, hash) ==
    LET committed == {a \in DOMAIN state.accounts : ~IsEmpty(state.accounts[a])}
    IN [a \in committed |->
          <<state.accounts[a].live, state.accounts[a].storage, hash[a]>>]

\* state_root takes the hash of an analysed runtime from its binding.
MptRoot(state) == <<"mpt", Leaves(state, [a \in DOMAIN state.accounts |-> ServedCode(state, a)])>>

\* sparse_state_root_v5
SparseRoot(state) ==
    LET leaves == Leaves(state, [a \in DOMAIN state.accounts |-> CodeHash(state.accounts[a])])
    IN <<"sparse", Cardinality(DOMAIN leaves), leaves>>

\* room_state_root_v5; any other mode is an error.
RoomStateRoot(state, mode) ==
    CASE mode = 0 -> MptRoot(state)
      [] mode = 1 -> SparseRoot(state)

(***************************************************************************)
(* A compact witness declares accounts.  An entry says whether the account *)
(* exists and lists the slots it declares with their values.  Being sorted *)
(* and unique makes it a function of the address, and each entry's slots a *)
(* function of the slot.  A hot batch uses only complete room-local        *)
(* witnesses, which carry no trie proofs.                                  *)
(***************************************************************************)

DeclaredSlots(witness) ==
    UNION {{<<a, s>> : s \in DOMAIN witness[a].slots} : a \in DOMAIN witness}

\* Mutant: an empty account may be declared as an existing one.
CompactOk_admitsEmpty(witness) ==
    /\ Cardinality(DOMAIN witness) <= MaxAccounts
    /\ Cardinality(DeclaredSlots(witness)) <= MaxSlots
    /\ \A a \in DOMAIN witness :
         witness[a].exists \/ (~witness[a].live /\ witness[a].code = NoCode
                                 /\ DOMAIN witness[a].slots = {})

\* verify_compact_state_v4 returns a state.
CompactOk(witness) ==
    /\ Cardinality(DOMAIN witness) <= MaxAccounts
    /\ Cardinality(DeclaredSlots(witness)) <= MaxSlots
    /\ \A a \in DOMAIN witness :
         LET declared == witness[a]
             blank == ~declared.live /\ declared.code = NoCode
         IN IF declared.exists THEN ~blank ELSE blank /\ DOMAIN declared.slots = {}

\* StateMap::from_compact
FromCompact(witness) ==
    [accounts |->
       [a \in {x \in DOMAIN witness : witness[x].exists} |->
          [live |-> witness[a].live, code |-> witness[a].code,
           storage |-> [s \in Slot |->
              IF s \in DOMAIN witness[a].slots THEN witness[a].slots[s] ELSE 0]]],
     declared |-> [a \in DOMAIN witness |-> DOMAIN witness[a].slots],
     prepared |-> <<>>]

\* The entry of a record that declares the slots in declared beside its own.
Entry(record, declared) ==
    [exists |-> ~IsEmpty(record), live |-> record.live, code |-> record.code,
     slots |-> Restrict(record.storage,
                        {s \in Slot : record.storage[s] # 0} \cup declared)]

(***************************************************************************)
(* Reads, writes and the analysed runtimes.                                *)
(***************************************************************************)

\* StateMap::basic and StateMap::storage serve declared state only.
Readable(state, a, s) == a \in DOMAIN state.declared /\ s \in state.declared[a]

\* install_prepared_runtime_code binds every frozen address to its hash.
CanPrepare(state, frozen) ==
    \A a \in DOMAIN frozen :
      a \in DOMAIN state.accounts /\ CodeHash(state.accounts[a]) = frozen[a]

\* One touched account of DatabaseCommit::commit.  A change says whether the
\* transaction created or destroyed the account, whether it leaves it live, the
\* code it has and the slots it wrote.
Merged(state, a, change) ==
    LET old == RecordAt(state.accounts, a)
        base == IF change.created THEN ZeroStorage ELSE old.storage
    IN [live |-> change.live, code |-> change.code,
        storage |-> [s \in Slot |-> IF s \in DOMAIN change.writes
                                    THEN change.writes[s] ELSE base[s]]]

\* Mutant: a write outside the envelope leaves no trace.
CommitAllowed_always(state, changes) == TRUE

\* commit latches no access_violation.
CommitAllowed(state, changes) ==
    \A a \in DOMAIN changes :
      a \in DOMAIN state.declared /\ DOMAIN changes[a].writes \subseteq state.declared[a]

\* commit: destroyed and empty accounts disappear together with the binding of
\* their runtime, and a binding survives no change of code.
Commit(state, changes) ==
    LET merged == [a \in DOMAIN changes |-> Merged(state, a, changes[a])]
        gone == {a \in DOMAIN changes : changes[a].destroyed \/ IsEmpty(merged[a])}
        left == (DOMAIN state.accounts \cup DOMAIN changes) \ gone
        accounts == [a \in left |-> IF a \in DOMAIN merged THEN merged[a]
                                    ELSE state.accounts[a]]
    IN [state EXCEPT
          !.accounts = accounts,
          !.prepared = Restrict(@, {a \in DOMAIN @ :
             a \in left /\ CodeHash(accounts[a]) = @[a]})]

==============================================================================

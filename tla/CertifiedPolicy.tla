-------------------------- MODULE CertifiedPolicy --------------------------
(***************************************************************************)
(* The certified execution policy of a v5 room (policy/from_v5.rs,         *)
(* policy/enforce.rs, policy/inspector.rs): which policies a state admits, *)
(* which calls a transaction may make, which terminal states a batch may   *)
(* leave.                                                                  *)
(*                                                                         *)
(* A namespace is the set of slots under its prefix.  A policy is a record *)
(* whose hash is the record.                                               *)
(***************************************************************************)
EXTENDS RoomState

CONSTANTS
    Member,       \* ACTIVE_MEMBER_SENTINEL: a rule for every active member
    Precompiles,  \* addresses of the Osaka precompiles
    NoSelector,   \* calldata shorter than a selector
    Nothing       \* an Option that is None

\* Blocks of a batch and transactions of a block that a policy may allow.
BlockCap == 64
TxCap == 4096

\* ExecutionPolicyV5 has its caps in range and forbids what certified rooms may
\* never do.
Bounded(policy) ==
    /\ policy.commitment \in {0, 1}
    /\ policy.maxBlocks \in 1..BlockCap /\ policy.maxTxs \in 1..TxCap
    /\ policy.maxGas > 0 /\ policy.maxMemory > 0
    /\ ~policy.creation /\ ~policy.selfDestruct

\* Pinned runtimes are present, and no other account has code.
CodePinned(policy, accounts) ==
    /\ DOMAIN policy.code # {}
    /\ \A a \in DOMAIN policy.code :
         a \in DOMAIN accounts /\ CodeHash(accounts[a]) = policy.code[a]
    /\ \A a \in DOMAIN accounts : accounts[a].code # NoCode => a \in DOMAIN policy.code

\* Call rules name code-pinned targets, and one rule serves a caller and target.
RulesOk(policy) ==
    /\ policy.rules # {}
    /\ \A r \in policy.rules :
         /\ r.target \in DOMAIN policy.code
         /\ r.caller = Member \/ r.caller \in DOMAIN policy.code
         /\ r.selectors # {} /\ r.kinds # {}
         /\ r.kinds \subseteq {"call", "static", "delegate"}
         /\ \A q \in policy.rules :
              q.caller = r.caller /\ q.target = r.target => q = r

InNamespace(policy, a, s) ==
    \E n \in policy.storage : n.contract = a /\ s \in n.slots

Writable(policy, a, s) ==
    \E n \in policy.storage : n.contract = a /\ n.writable /\ s \in n.slots

\* Every slot in use is inside a namespace of a code-pinned contract.
StorageOk(policy, accounts) ==
    /\ \A n \in policy.storage : n.contract \in DOMAIN policy.code
    /\ \A a \in DOMAIN accounts, s \in Slot :
         accounts[a].storage[s] # 0 => InNamespace(policy, a, s)

\* Mutant: the destination of an import may be read-only.
ImportsOk_anyNamespace(policy) ==
    \A b \in policy.imports : InNamespace(policy, b.contract, b.slot)

\* Imports write like transactions do, but before the snapshot that
\* validate_post_state compares with, so they are checked here.
ImportsOk(policy) ==
    \A b \in policy.imports : Writable(policy, b.contract, b.slot)

RegistrySlots == {"root", "epoch", "count", "capacity"}

\* The registry is pinned, owned by the room and out of reach of imports.
RegistryOk(policy) ==
    /\ policy.registry # Nothing /\ policy.registry \in DOMAIN policy.code
    /\ \A s \in RegistrySlots :
         /\ Writable(policy, policy.registry, s)
         /\ [contract |-> policy.registry, slot |-> s] \notin policy.imports

\* The exit queue, when there is one, is pinned, apart from the registry and
\* out of reach of imports; its tokens are pinned.
ExitOk(policy) ==
    policy.exit # Nothing =>
      /\ policy.exit.queue \in DOMAIN policy.code \ {policy.registry}
      /\ policy.exit.fallback # Nothing
      /\ \A s \in policy.exit.slots : Writable(policy, policy.exit.queue, s)
      /\ \A b \in policy.imports : b.contract # policy.exit.queue
      /\ policy.exit.tokens \subseteq DOMAIN policy.code

\* ExecutionPolicyV4::from_v5 builds a policy for members on these accounts.
FromV5(policy, hash, members, accounts) ==
    /\ policy = hash
    /\ Bounded(policy) /\ members # {}
    /\ CodePinned(policy, accounts)
    /\ RulesOk(policy)
    /\ StorageOk(policy, accounts)
    /\ ImportsOk(policy)
    /\ RegistryOk(policy)
    /\ ExitOk(policy)

(***************************************************************************)
(* Enforcement while a transaction runs.                                   *)
(***************************************************************************)

\* allows_call
AllowsCall(policy, members, call) ==
    IF call.target \in Precompiles /\ call.caller \in DOMAIN policy.code
    THEN call.kind # "delegate"
    ELSE /\ call.selector # NoSelector
         /\ \E r \in policy.rules :
              /\ r.caller = (IF call.caller \in members THEN Member ELSE call.caller)
              /\ r.target = call.target
              /\ call.kind \in r.kinds /\ call.selector \in r.selectors

\* validate_transaction_entry: the outermost frame, a creation included.
EntryAllowed(policy, members, tx) ==
    IF tx.to = Nothing
    THEN policy.creation
    ELSE AllowsCall(policy, members,
           [caller |-> tx.from, target |-> tx.to, kind |-> "call", selector |-> tx.selector])

\* The inspector's step and step_end compare the memory of every frame.
MemoryAllowed(policy, tx) == tx.memory <= policy.maxMemory

\* The inspector's call callback: CALLCODE is never allowed.
CallsAllowed(policy, members, tx) ==
    \A c \in tx.calls : c.kind # "callcode" /\ AllowsCall(policy, members, c)

\* The create and selfdestruct callbacks.
LifecycleAllowed(policy, tx) ==
    /\ tx.creates # {} => policy.creation
    /\ tx.destroys # {} => policy.selfDestruct

\* No callback of the inspector latched a violation.  A frame that reverts
\* has been seen all the same.
InspectorSilent(policy, members, tx) ==
    /\ MemoryAllowed(policy, tx)
    /\ CallsAllowed(policy, members, tx)
    /\ LifecycleAllowed(policy, tx)

\* validate_post_state; a v5 policy has no membership guards.
ValidatePostState(policy, pre, post) ==
    /\ \A a \in DOMAIN policy.code :
         a \in DOMAIN post /\ CodeHash(post[a]) = policy.code[a]
    /\ \A a \in DOMAIN pre \cup DOMAIN post, s \in Slot :
         SlotAt(pre, a, s) # SlotAt(post, a, s) => Writable(policy, a, s)

============================================================================

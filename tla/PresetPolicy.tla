---------------------------- MODULE PresetPolicy ----------------------------
(***************************************************************************)
(* The preset of a v4 room (policy/from_input.rs, and the predicates of    *)
(* policy/enforce.rs that only v4 presets use): a JSON document whose hash *)
(* L1 stores, parsed again by the guest of every batch.                    *)
(*                                                                         *)
(* A preset is a record whose hash is the record.  Parsing strings is left *)
(* out: a selector, an address and a slot are values.                      *)
(***************************************************************************)
EXTENDS CertifiedPolicy, CommitmentsV4, FiniteSetsExt

CONSTANTS
    MaxBatchBlocks,   \* MAX_BATCH_BLOCKS_V4
    MaxWitness,       \* MAX_BATCH_WITNESS_BYTES_V4
    Domain            \* application_domain_v4 of the room

Active(roster) == {s \in MemberSlots : roster[s].state = "active"}
Used(roster) == {s \in MemberSlots : roster[s].state # "unused"}

\* The three arms that verify_roster and validate_roster_shape share.
SlotOk(slot) ==
    CASE slot.state = "unused" -> slot = UnusedSlot
      [] slot.state = "active" -> slot.account # ZeroAccount /\ slot.retired = Never
      [] slot.state = "retired" ->
           slot.account # ZeroAccount /\ slot.retired # Never /\ slot.retired >= slot.joined

ActiveMembers(roster) == {roster[s].account : s \in Active(roster)}

\* verify_roster returns a set of members: no account is active twice.
VerifyRoster(roster) ==
    /\ \A s \in MemberSlots : SlotOk(roster[s])
    /\ \A s, t \in Active(roster) : roster[s].account = roster[t].account => s = t

\* version, fork, level and the list of assets
HeaderOk(preset) ==
    /\ preset.level \in {"generic", "certified"}
    /\ \A k \in DOMAIN preset.assets : preset.assets[k] < 16
    /\ \A j, k \in DOMAIN preset.assets : j < k => preset.assets[j] < preset.assets[k]

\* The slots that an envelope declares, of all accounts.
SlotCount(declared) ==
    MapThenSumSet(LAMBDA a : Cardinality(declared[a]), DOMAIN declared)

\* The resource envelope, and what of the batch it already bounds.
ResourcesOk(preset, blocks, witness) ==
    /\ preset.maxBlocks \in 1..MaxBatchBlocks /\ Len(blocks) <= preset.maxBlocks
    /\ preset.maxGas > 0 /\ preset.maxTxs > 0 /\ preset.maxMemory \in 1..4096
    /\ preset.maxWitness \in 1..MaxWitness /\ witness \in 1..preset.maxWitness
    /\ preset.maxAccounts \in 1..MaxAccounts /\ preset.maxSlots \in 1..MaxSlots
    /\ \A k \in DOMAIN blocks : Len(blocks[k].txs) <= preset.maxTxs

Certified(preset) == preset.level = "certified"

\* Pinned runtimes are present; a certified room has no others and can neither
\* create nor destroy a contract.
PresetCodeOk(preset, accounts) ==
    /\ \A a \in DOMAIN preset.code :
         a \in DOMAIN accounts /\ CodeHash(accounts[a]) = preset.code[a]
    /\ Certified(preset) =>
         /\ DOMAIN preset.code # {} /\ ~preset.creation /\ ~preset.selfDestruct
         /\ CodePinned(preset, accounts)

\* applicationDomainBindings: the contract stores the domain of this room, so
\* state prepared for another room is refused.
DomainsOk(preset, accounts) ==
    \A d \in preset.domains :
      d.contract \in DOMAIN preset.code /\ SlotAt(accounts, d.contract, d.slot) = Domain

\* callRules
CallRulesOk(preset) ==
    \A r \in preset.rules :
      /\ Certified(preset) => /\ r.target \in DOMAIN preset.code
                              /\ r.caller = Member \/ r.caller \in DOMAIN preset.code
      /\ r.selectors # {} /\ r.kinds # {} /\ r.kinds \subseteq {"call", "static", "delegate"}
      /\ \A q \in preset.rules : q.caller = r.caller /\ q.target = r.target => q = r

\* activeMemberArgumentRules restrict entry points of active members.
ArgumentRulesOk(preset) ==
    \A g \in preset.arguments :
      /\ g.target \in DOMAIN preset.code /\ g.words # {}
      /\ \E r \in preset.rules :
           r.caller = Member /\ r.target = g.target /\ g.selector \in r.selectors

\* membershipStateGuards name a bit field and the values it may have.
GuardRulesOk(preset) ==
    \A g \in preset.guards :
      /\ g.contract \in DOMAIN preset.code
      /\ g.width > 0 /\ g.offset < 256 /\ g.width <= 256 - g.offset
      /\ g.values # {} /\ \A v \in g.values : v < 2^g.width

\* storageNamespaces: a certified room declares no slot outside of them.
NamespacesOk(preset, state) ==
    Certified(preset) =>
      /\ \A n \in preset.storage : n.contract \in DOMAIN preset.code
      /\ \A a \in DOMAIN state.declared, s \in Slot :
           s \in state.declared[a] =>
             a \in DOMAIN preset.code /\ InNamespace(preset, a, s)

\* validate_membership_state_guards
GuardsAllow(preset, accounts, changed) ==
    changed => \A g \in preset.guards :
      /\ g.contract \in DOMAIN accounts
      /\ (SlotAt(accounts, g.contract, g.slot) \div 2^g.offset) % 2^g.width \in g.values

\* ExecutionPolicyV4::from_input builds a policy for the batch; its last check,
\* GuardsAllow, is the only one that depends on the membership deltas.
FromInput(preset, hash, roster, state, blocks, witness) ==
    /\ preset = hash
    /\ HeaderOk(preset) /\ ResourcesOk(preset, blocks, witness)
    /\ Cardinality(DOMAIN state.declared) <= preset.maxAccounts
    /\ SlotCount(state.declared) <= preset.maxSlots
    /\ VerifyRoster(roster)
    /\ PresetCodeOk(preset, state.accounts)
    /\ DomainsOk(preset, state.accounts)
    /\ CallRulesOk(preset) /\ ArgumentRulesOk(preset) /\ GuardRulesOk(preset)
    /\ NamespacesOk(preset, state)

\* validate_active_member_arguments: an address an entry point names is one of
\* the members the batch opened with.
ArgumentsOk(preset, members, call) ==
    \A g \in preset.arguments : g.target = call.target /\ g.selector = call.selector =>
      \A w \in g.words : w \in DOMAIN call.args /\ call.args[w] \in members

\* Everything the policy asks of one transaction: its entry, then every call
\* the inspector sees, the outermost one included.
TransactionAllowed(preset, members, tx) ==
    /\ Certified(preset) =>
         /\ EntryAllowed(preset, members, tx)
         /\ \A c \in tx.calls : AllowsCall(preset, members, c)
    /\ tx.to # Nothing =>
         ArgumentsOk(preset, members,
           [target |-> tx.to, selector |-> tx.selector, args |-> tx.args])
    /\ \A c \in tx.calls : c.kind # "callcode" /\ ArgumentsOk(preset, members, c)
    /\ MemoryAllowed(preset, tx) /\ LifecycleAllowed(preset, tx)

\* validate_post_state: nothing is asked of a generic room.
PostStateOk(preset, pre, post, changed) ==
    Certified(preset) =>
      ValidatePostState(preset, pre, post) /\ GuardsAllow(preset, post, changed)

=============================================================================

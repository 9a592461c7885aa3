---------------------------- MODULE SettlementV4 ----------------------------
(***************************************************************************)
(* Membership, funding and exits of a v4 room (stf-core settlement/): the  *)
(* seven lifetime slots, the inbox segment that a batch consumes before    *)
(* its first block, and the exits derived from the state after its last.   *)
(*                                                                         *)
(* A list that the code requires to be sorted and unique is a function of  *)
(* its key, except for the exits, whose order their root commits to.       *)
(***************************************************************************)
EXTENDS PresetPolicy, TLC

CONSTANTS
    MaxAssets,  \* MAX_ASSETS
    JoinSlot,   \* JOIN_SLOT_SENTINEL
    MaxU256     \* the largest word

(***************************************************************************)
(* Roster (settlement/roster.rs).                                          *)
(***************************************************************************)

\* validate_roster_shape: an account occupies one slot in its lifetime.
RosterShapeOk(roster) ==
    /\ \A s \in MemberSlots : SlotOk(roster[s])
    /\ \A s, t \in Used(roster) : roster[s].account = roster[t].account => s = t

\* Mutant: the slot of a retired member is free again.
ActivationOk_reuses(index, before, after, delta) ==
    /\ before.state # "active" /\ after.state = "active"
    /\ after.account = delta.member /\ delta.member # ZeroAccount
    /\ after.joined = index /\ after.retired = Never
    /\ delta.join # 0 /\ delta.expiry # 0

ActivationOk(index, before, after, delta) ==
    /\ before.state = "unused" /\ after.state = "active"
    /\ after.account = delta.member /\ delta.member # ZeroAccount
    /\ after.joined = index /\ after.retired = Never
    /\ delta.join # 0 /\ delta.expiry # 0

RetirementOk(index, before, after, delta) ==
    /\ before.state = "active" /\ after.state = "retired"
    /\ after.account = before.account /\ delta.member = before.account
    /\ after.joined = before.joined /\ after.retired = index
    /\ delta.join = 0 /\ delta.expiry = 0

\* validate_membership_transition_v4; deltas has at most one delta per slot.
TransitionOk(index, before, after, deltas) ==
    /\ index > 0
    /\ RosterShapeOk(before) /\ RosterShapeOk(after)
    /\ \A s \in MemberSlots :
         IF s \notin DOMAIN deltas THEN before[s] = after[s]
         ELSE \/ /\ deltas[s].action = "activate"
                 /\ ActivationOk(index, before[s], after[s], deltas[s])
              \/ /\ deltas[s].action = "retire"
                 /\ RetirementOk(index, before[s], after[s], deltas[s])

(***************************************************************************)
(* The exit program (settlement/program.rs, settlement/mod.rs).            *)
(***************************************************************************)

\* mapping_slot
MappingSlot(account, slot) == slot \o <<account>>

AssetIds(program) == {program.assets[k].id : k \in DOMAIN program.assets}

AssetOf(program, id) ==
    program.assets[CHOOSE k \in DOMAIN program.assets : program.assets[k].id = id]

AssetsOk(program, preset) ==
    /\ Len(program.assets) \in 1..MaxAssets
    /\ \A j, k \in DOMAIN program.assets : j < k => program.assets[j].id < program.assets[k].id
    /\ \A k \in DOMAIN program.assets :
         \/ program.assets[k].kind = "native" /\ program.assets[k].id = 0
         \/ /\ program.assets[k].kind = "erc20"
            /\ Certified(preset) => program.assets[k].token \in DOMAIN preset.code
    /\ Range(preset.assets) \subseteq AssetIds(program)

PositionsKnown(program, preset) ==
    /\ \A j, k \in DOMAIN program.positions :
         program.positions[j].contract = program.positions[k].contract => j = k
    /\ \A p \in Range(program.positions) :
         /\ Certified(preset) => p.contract \in DOMAIN preset.code
         /\ ZeroAccount \notin p.excluded /\ DOMAIN p.backings # {}
         /\ \A id \in DOMAIN p.backings :
              id \in AssetIds(program) /\ AssetOf(program, id).kind = "erc20"

\* ExitProgramV4::parse
ProgramOk(program, preset) ==
    program = preset.program /\ AssetsOk(program, preset) /\ PositionsKnown(program, preset)

NewRecord == [balance |-> 0, nonce |-> 0, code |-> NoCode, storage |-> ZeroStorage]

\* Both words that a deposit of a token changes.
TokenSlots(asset, account) == {MappingSlot(account, asset.balance), asset.supply}

\* ExitProgramV4::credit succeeds: read_storage and write_storage reach no slot
\* outside the envelope, and no sum overflows.
CreditOk(state, program, credit) ==
    LET asset == AssetOf(program, credit.asset)
    IN IF asset.kind = "native"
       THEN /\ credit.account \in DOMAIN state.declared
            /\ credit.account \in DOMAIN state.accounts =>
                 state.accounts[credit.account].balance + credit.amount <= MaxU256
       ELSE /\ asset.token \in DOMAIN state.accounts
            /\ \A s \in TokenSlots(asset, credit.account) :
                 /\ Readable(state, asset.token, s)
                 /\ SlotAt(state.accounts, asset.token, s) + credit.amount <= MaxU256

Credited(state, program, credit) ==
    LET asset == AssetOf(program, credit.asset)
        who == credit.account
        old == IF who \in DOMAIN state.accounts THEN state.accounts[who] ELSE NewRecord
    IN IF asset.kind = "native"
       THEN [state EXCEPT !.accounts =
               (who :> [old EXCEPT !.balance = @ + credit.amount]) @@ @]
       ELSE [state EXCEPT !.accounts[asset.token].storage =
               [s \in TokenSlots(asset, who) |-> @[s] + credit.amount] @@ @]

(***************************************************************************)
(* The inbox segment (settlement/inbox.rs).                                *)
(***************************************************************************)

Activations(deltas) == {d \in Range(deltas) : d.action = "activate"}

\* The checks on one entry that do not depend on how it is resolved.
EntryOk(program, entry, index) ==
    /\ entry.index = index
    /\ entry.status \in {"pending", "refunded"}
    /\ Len(entry.deposits) \in 1..MaxAssets
    /\ \A k \in DOMAIN entry.deposits :
         entry.deposits[k].amount > 0 /\ entry.deposits[k].asset \in AssetIds(program)
    /\ \A j, k \in DOMAIN entry.deposits :
         j < k => entry.deposits[j].asset < entry.deposits[k].asset
    /\ \/ entry.kind = "deposit" /\ Len(entry.deposits) = 1 /\ entry.slot \in MemberSlots
       \/ entry.kind = "join" /\ entry.slot = JoinSlot /\ entry.account # ZeroAccount

Occupies(roster, slot, account) ==
    roster[slot].state = "active" /\ roster[slot].account = account

\* A deposit is credited while its depositor is a member before the batch, a
\* join request when a delta activates it.
Resolved(entry, deltas, pre) ==
    IF entry.status = "refunded" THEN "refunded"
    ELSE IF \/ entry.kind = "deposit" /\ Occupies(pre, entry.slot, entry.account)
            \/ entry.kind = "join" /\ \E d \in Activations(deltas) : d.join = entry.index
         THEN "consumed" ELSE "skipped"

\* An activation names a pending request of the account it activates.
JoinMatches(entry, deltas, post) ==
    \A d \in Activations(deltas) : entry.kind = "join" /\ d.join = entry.index =>
      /\ entry.status = "pending" /\ d.member = entry.account
      /\ Occupies(post, d.slot, entry.account)

\* Mutant: an activation need not consume a request of this segment.
EveryJoinPaid_unchecked(entries, deltas) == TRUE

\* Every activation consumed a request of this segment, and not the same one.
EveryJoinPaid(entries, deltas) ==
    /\ \A d, e \in Activations(deltas) : d.join = e.join => d = e
    /\ \A d \in Activations(deltas) :
         \E k \in DOMAIN entries : entries[k].kind = "join" /\ entries[k].index = d.join

\* The lists one after the other.
Concat(lists) ==
    LET upTo[n \in 0..Len(lists)] == IF n = 0 THEN <<>> ELSE upTo[n - 1] \o lists[n]
    IN upTo[Len(lists)]

\* The deposits of the consumed entries in order.
Credits(entries, deltas, pre) ==
    Concat([k \in DOMAIN entries |->
      IF Resolved(entries[k], deltas, pre) # "consumed" THEN <<>>
      ELSE [j \in DOMAIN entries[k].deposits |->
              [asset |-> entries[k].deposits[j].asset, account |-> entries[k].account,
               amount |-> entries[k].deposits[j].amount]]])

\* apply_inbox_v4: the state after the credits, or Nothing after an error.
ApplyInbox(state, program, entries, deltas, pre, post, start, end) ==
    LET credits == Credits(entries, deltas, pre)
        after[n \in 0..Len(credits)] ==
          IF n = 0 THEN state
          ELSE IF after[n - 1] = Nothing \/ ~CreditOk(after[n - 1], program, credits[n])
               THEN Nothing ELSE Credited(after[n - 1], program, credits[n])
    IN IF /\ end >= start /\ Len(entries) = end - start
          /\ \A k \in DOMAIN entries :
               EntryOk(program, entries[k], start + k) /\ JoinMatches(entries[k], deltas, post)
          /\ EveryJoinPaid(entries, deltas)
       THEN after[Len(credits)] ELSE Nothing

(***************************************************************************)
(* Exits (settlement/exit.rs).                                             *)
(***************************************************************************)

\* The sum of f over the positions of a list of length n.
SumTo(n, f(_)) ==
    LET sum[k \in 0..n] == IF k = 0 THEN 0 ELSE sum[k - 1] + f(k)
    IN sum[n]

\* The sum of f over the slots of a room.
SumSlots(f(_)) == SumTo(MaxMembers, LAMBDA k : f(k - 1))

TokenOf(accounts, asset, account) ==
    SlotAt(accounts, asset.token, MappingSlot(account, asset.balance))

\* What a member holds of an asset outside every position.
Held(accounts, asset, account) ==
    IF asset.kind = "native"
    THEN IF account \in DOMAIN accounts THEN accounts[account].balance ELSE 0
    ELSE TokenOf(accounts, asset, account)

SharesOf(accounts, position, account) ==
    SlotAt(accounts, position.contract, MappingSlot(account, position.shares))

SupplyOf(accounts, position) == SlotAt(accounts, position.contract, position.supply)

BackingOf(accounts, program, position, id) ==
    TokenOf(accounts, AssetOf(program, id), position.contract)

\* mul_div_floor of a member's shares in one backing.
ClaimOf(accounts, program, position, id, roster, slot) ==
    IF roster[slot].state = "unused" \/ SupplyOf(accounts, position) = 0 THEN 0
    ELSE (BackingOf(accounts, program, position, id)
            * SharesOf(accounts, position, roster[slot].account))
         \div SupplyOf(accounts, position)

ResidualOf(accounts, program, position, id, roster) ==
    BackingOf(accounts, program, position, id)
      - SumSlots(LAMBDA s : ClaimOf(accounts, program, position, id, roster, s))

\* Every storage word the derivation reads is inside the envelope.
SettlementReadable(state, program, roster) ==
    LET members == {roster[s].account : s \in Used(roster)}
    IN /\ \A asset \in Range(program.assets) : asset.kind = "erc20" =>
            /\ Readable(state, asset.token, asset.supply)
            /\ \A a \in members : Readable(state, asset.token, MappingSlot(a, asset.balance))
       /\ \A p \in Range(program.positions) :
            /\ Readable(state, p.contract, p.supply)
            /\ \A a \in members \cup p.excluded :
                 Readable(state, p.contract, MappingSlot(a, p.shares))
            /\ \A id \in DOMAIN p.backings :
                 /\ Readable(state, AssetOf(program, id).token,
                             MappingSlot(p.contract, AssetOf(program, id).balance))
                 /\ p.backings[id] # Nothing => Readable(state, p.contract, p.backings[id])

\* The checks on one position before anything of it is paid.
PositionOk(accounts, program, roster, p) ==
    /\ SumSlots(LAMBDA s : IF roster[s].state = "unused" THEN 0
                           ELSE SharesOf(accounts, p, roster[s].account))
         + MapThenSumSet(LAMBDA a : SharesOf(accounts, p, a), p.excluded)
         = SupplyOf(accounts, p)
    /\ \A id \in DOMAIN p.backings :
         LET backing == BackingOf(accounts, program, p, id)
         IN /\ p.backings[id] # Nothing =>
                 SlotAt(accounts, p.contract, p.backings[id]) = backing
            /\ SupplyOf(accounts, p) = 0 => backing = 0
            /\ \A s \in Used(roster) :
                 backing * SharesOf(accounts, p, roster[s].account) <= MaxU256

\* A residual is assigned to a used slot exactly where rounding leaves one.
ResidualsOk(accounts, program, roster, residuals) ==
    /\ DOMAIN residuals =
         {key \in (DOMAIN program.positions) \X AssetIds(program) :
            /\ key[2] \in DOMAIN program.positions[key[1]].backings
            /\ ResidualOf(accounts, program, program.positions[key[1]], key[2], roster) # 0}
    /\ Range(residuals) \subseteq Used(roster)

\* What one slot takes out of one asset.
AmountOf(accounts, program, roster, residuals, slot, asset) ==
    Held(accounts, asset, roster[slot].account)
      + SumTo(Len(program.positions), LAMBDA k :
          IF asset.id \notin DOMAIN program.positions[k].backings THEN 0
          ELSE ClaimOf(accounts, program, program.positions[k], asset.id, roster, slot)
                 + (IF <<k, asset.id>> \in DOMAIN residuals
                       /\ residuals[<<k, asset.id>>] = slot
                    THEN ResidualOf(accounts, program, program.positions[k], asset.id, roster)
                    ELSE 0))

\* The exits in the order of (slot, asset); an amount of zero has no leaf.
ExitsOf(accounts, program, roster, residuals) ==
    LET width == Len(program.assets)
        at(k) == [slot |-> (k - 1) \div width, asset |-> program.assets[((k - 1) % width) + 1]]
        leaf(k) ==
          LET s == at(k).slot IN
          IF roster[s].state = "unused" THEN <<>>
          ELSE LET n == AmountOf(accounts, program, roster, residuals, s, at(k).asset)
               IN IF n = 0 THEN <<>>
                  ELSE <<[slot |-> s, asset |-> at(k).asset.id,
                          recipient |-> roster[s].account, amount |-> n]>>
    IN Concat([k \in 1..(MaxMembers * width) |-> leaf(k)])

ExitTotal(exits, id) ==
    SumTo(Len(exits), LAMBDA k : IF exits[k].asset = id THEN exits[k].amount ELSE 0)

\* Mutant: the exits need not pay out what the room holds.
SettlementOk_undistributed(state, program, roster, totals, residuals) ==
    LET accounts == state.accounts
    IN /\ DOMAIN totals = AssetIds(program)
       /\ Used(roster) # {}
       /\ SettlementReadable(state, program, roster)
       /\ \A p \in Range(program.positions) : PositionOk(accounts, program, roster, p)
       /\ ResidualsOk(accounts, program, roster, residuals)
       /\ \A asset \in Range(program.assets) : asset.kind = "erc20" =>
            SlotAt(accounts, asset.token, asset.supply) = totals[asset.id]

\* derive_settlement_v4 returns exits that pay out exactly the funded totals.
SettlementOk(state, program, roster, totals, residuals) ==
    LET accounts == state.accounts
        exits == ExitsOf(accounts, program, roster, residuals)
    IN /\ DOMAIN totals = AssetIds(program)
       /\ Used(roster) # {}
       /\ SettlementReadable(state, program, roster)
       /\ \A p \in Range(program.positions) : PositionOk(accounts, program, roster, p)
       /\ ResidualsOk(accounts, program, roster, residuals)
       /\ \A asset \in Range(program.assets) :
            /\ asset.kind = "erc20" =>
                 SlotAt(accounts, asset.token, asset.supply) = totals[asset.id]
            /\ ExitTotal(exits, asset.id) = totals[asset.id]


\* authenticate_previous_exit_allocations_v4
PreviousExitsOk(program, roster, exits, root) ==
    /\ \A k \in DOMAIN exits :
         /\ exits[k].slot \in Used(roster)
         /\ exits[k].asset \in AssetIds(program) /\ exits[k].asset < MaxAssets
         /\ exits[k].amount # 0 /\ exits[k].recipient = roster[exits[k].slot].account
    /\ \A j, k \in DOMAIN exits : j < k =>
         exits[j].slot * MaxAssets + exits[j].asset < exits[k].slot * MaxAssets + exits[k].asset
    /\ ClaimRoot(exits) = root

\* The amount a list pays a slot in an asset.
PaidTo(exits, slot, id) ==
    SumTo(Len(exits), LAMBDA k : IF exits[k].slot = slot /\ exits[k].asset = id
                                 THEN exits[k].amount ELSE 0)

\* Mutant: only a retired slot that is paid nothing any more is noticed.
ContinuityOk_dropped(program, before, after, pre) ==
    \A s \in Used(pre) \ Active(pre), id \in AssetIds(program) :
      PaidTo(before, s, id) # 0 => PaidTo(after, s, id) # 0

\* enforce_retired_exit_continuity_v4: a slot that was retired before the batch
\* keeps its exits.
ContinuityOk(program, before, after, pre) ==
    \A s \in Used(pre) \ Active(pre), id \in AssetIds(program) :
      PaidTo(before, s, id) = PaidTo(after, s, id)

=============================================================================

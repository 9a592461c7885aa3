--------------------------- MODULE CommitmentsV4 ---------------------------
(***************************************************************************)
(* The commitments of the v4 protocol (stf-types v4/hash.rs, v4/cold.rs).  *)
(* As in Commitments, a hash is its preimage.  A v4 tree hashes sorted     *)
(* pairs, so a node is the set of its children, and it pairs the last node *)
(* of an odd layer with itself: neither the order of two siblings nor the  *)
(* repetition of a last leaf shows in a root.                              *)
(*                                                                         *)
(* Every leaf carries the deployment and the room; one room is modelled.   *)
(***************************************************************************)
EXTENDS Integers, Sequences

CONSTANTS
    MaxMembers,   \* MAX_MEMBERS, the lifetime slots of a room
    ZeroAccount,  \* Address::ZERO
    Never         \* the retirement of a member that has not retired

MemberSlots == 0..(MaxMembers - 1)

\* MemberSlotWitnessV4 of a slot that nobody has occupied.
UnusedSlot == [state |-> "unused", account |-> ZeroAccount, joined |-> 0, retired |-> Never]

\* The loop of claim_merkle_root_v4 and member_roster_root_v4: a layer of n
\* nodes has (n + 1) \div 2 parents.
PairRoot(leaves) ==
    LET n == Len(leaves)
        width[d \in 0..n] == IF d = 0 THEN n ELSE (width[d - 1] + 1) \div 2
        depth == CHOOSE d \in 0..n : width[d] = 1 /\ \A c \in 0..(d - 1) : width[c] > 1
        node[d \in 0..depth, k \in 1..n] ==
          IF d = 0 THEN leaves[k]
          ELSE LET right == IF 2 * k > width[d - 1] THEN 2 * k - 1 ELSE 2 * k
               IN <<"node", {node[d - 1, 2 * k - 1], node[d - 1, right]}>>
    IN node[depth, 1]

\* member_roster_root_v4: a retirement that is absent hashes like batch zero.
MemberRosterRoot(roster) ==
    PairRoot([k \in 1..MaxMembers |->
      LET slot == roster[k - 1]
      IN <<"slot", k - 1, slot.state, slot.account, slot.joined,
           IF slot.retired = Never THEN 0 ELSE slot.retired>>])

\* hash_claim_leaf_v4 and claim_merkle_root_v4
ClaimRoot(exits) ==
    IF exits = <<>> THEN <<"empty">>
    ELSE PairRoot([k \in DOMAIN exits |->
      <<"claim", exits[k].slot, exits[k].asset, exits[k].recipient, exits[k].amount>>])

\* hash_amount_projection_v4, and with it the hashes of asset, exit and fee
\* totals: a label, a length and the pairs.
AmountsHash(label, amounts) ==
    <<label, Len(amounts)>> \o [k \in DOMAIN amounts |-> <<amounts[k].asset, amounts[k].amount>>]

\* Mutant: the hash does not say how an entry was resolved.
InboxHash_unresolved(entries) ==
    <<"inbox", Len(entries)>> \o
    [k \in DOMAIN entries |->
       LET e == entries[k]
       IN IF e.kind = "deposit"
          THEN <<"deposit", e.index, e.account, e.slot, e.deposits[1].asset,
                 e.deposits[1].amount>>
          ELSE IF e.kind = "join"
          THEN <<"join", e.index, e.account, AmountsHash("amounts", e.deposits)>>
          ELSE <<"zero">>]

\* hash_inbox_entries_v4: the hash binds how each entry was resolved.  An entry
\* of another kind, which apply_inbox_v4 refuses, hashes to zero.
InboxHash(entries) ==
    <<"inbox", Len(entries)>> \o
    [k \in DOMAIN entries |->
       LET e == entries[k]
       IN IF e.kind = "deposit"
          THEN <<"deposit", e.index, e.account, e.slot, e.deposits[1].asset,
                 e.deposits[1].amount, e.status>>
          ELSE IF e.kind = "join"
          THEN <<"join", e.index, e.account, AmountsHash("amounts", e.deposits), e.status>>
          ELSE <<"zero">>]

\* hash_membership_deltas_v4
DeltasHash(deltas) ==
    <<"deltas", Len(deltas)>> \o
    [k \in DOMAIN deltas |->
       <<deltas[k].action, deltas[k].slot, deltas[k].member, deltas[k].join, deltas[k].expiry>>]

\* hash_cold_runtime_code_v4, hash_cold_state_access_v4 and
\* hash_cold_state_refresh_v4; the lists are functions of the address.
ColdRoots(template) == <<template.runtime, template.access, template.refresh>>

\* cold_template_id_v4 covers every field of the journal but itself.
ColdTemplateIdV4(journal) ==
    <<journal.preset, journal.initial, journal.initialized, journal.setup,
      journal.roots, journal.static>>

============================================================================

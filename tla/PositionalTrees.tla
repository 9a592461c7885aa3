-------------------------- MODULE PositionalTrees --------------------------
(***************************************************************************)
(* The positional trees of the protocol (stf-types v5/hash.rs): the roots  *)
(* of the rosters and of the withdrawals of a batch, which L1 opens with   *)
(* membership proofs.                                                      *)
(*                                                                         *)
(* keccak256 of a number of words is the tuple of those words, so two      *)
(* roots are equal when their preimages are.                               *)
(***************************************************************************)
EXTENDS Integers, Sequences

\* B256::ZERO, the leaf of an empty position.
ZeroLeaf == <<>>

\* One round of the loop that halves a layer.
Halved(layer) ==
    [k \in 1..(Len(layer) \div 2) |-> <<layer[2 * k - 1], layer[2 * k]>>]

\* The layers of a tree: the loop runs while a layer has more than one node.
PositionalRoot(leaves) ==
    LET layer[n \in 0..Len(leaves)] == IF n = 0 THEN leaves ELSE Halved(layer[n - 1])
        top == CHOOSE n \in 0..Len(leaves) :
                 Len(layer[n]) <= 1 /\ \A m \in 0..(n - 1) : Len(layer[m]) > 1
    IN layer[top][1]

\* Items with increasing indices below a power of two fill their positions
\* with their leaves.
Positions(items, capacity, leaves) ==
    [p \in 1..capacity |->
       LET at == {k \in DOMAIN items : items[k].index = p - 1}
       IN IF at = {} THEN ZeroLeaf ELSE leaves[CHOOSE k \in at : TRUE]]

\* u64::is_power_of_two: the number is reached by doubling.
PowerOfTwo(c) ==
    \E d \in 0..c : \E double \in [0..d -> 1..c] :
      /\ double[0] = 1 /\ double[d] = c
      /\ \A n \in 1..d : double[n] = 2 * double[n - 1]

PositionsOk(items, capacity, capacities) ==
    /\ capacity \in capacities
    /\ \A k \in DOMAIN items : items[k].index < capacity
    /\ \A j, k \in DOMAIN items : j < k => items[j].index < items[k].index

\* The leaf that roster_root_v5 hashes.
RosterLeaf(m) == <<m.index, m.member, m.joined>>

\* roster_root_v5
RosterRoot(members, capacity) ==
    PositionalRoot(Positions(members, capacity,
                             [k \in DOMAIN members |-> RosterLeaf(members[k])]))

\* withdrawal_leaf_v5, in one room of one deployment domain.
WithdrawalLeaf(outboxEpoch, w) ==
    <<outboxEpoch, w.index, w.epoch, w.recipient, w.asset, w.amount>>

\* withdrawal_root_v5: a batch without withdrawals has the zero root, whatever
\* its capacity.
WithdrawalRoot(outboxEpoch, withdrawals, capacity) ==
    IF withdrawals = <<>> THEN ZeroLeaf
    ELSE PositionalRoot(Positions(withdrawals, capacity,
                                  [k \in DOMAIN withdrawals |->
                                     WithdrawalLeaf(outboxEpoch, withdrawals[k])]))

============================================================================

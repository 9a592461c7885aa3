----------------------------- MODULE RoomEscrow -----------------------------
(***************************************************************************)
(* The escrow of a long-lived validity-only v5 room: the L1 deposit inbox, *)
(* the four liability totals of every asset, the in-room balances, the     *)
(* room's exit queue and the withdrawal leaves.                            *)
(*                                                                         *)
(* Batch is one proved transition, execute_batch_v5 restricted to what     *)
(* moves value: deposit credits (liabilities.rs), the execution of the     *)
(* blocks, the exit derivation with the close sweep (exit.rs) and the      *)
(* conservation rule between the liability vectors (liabilities.rs).  A    *)
(* batch the guest refuses is no step.  The L1 side (deposits, refunds,    *)
(* claims, and that a batch opens at the room's current liabilities) is    *)
(* external, modelled from the preimages the guest checks.                 *)
(***************************************************************************)
EXTENDS Integers, Sequences, FiniteSets, FiniteSetsExt

CONSTANTS
    Assets, Native,    \* the room's assets; Native is the zero address
    Bound,             \* assets of the policy's exit binding
    Accounts,          \* accounts of the room state, deposit beneficiaries
    CodeFree,          \* those without code, the zero address left out
    Genesis,           \* those the genesis state has a record of
    Fallback,          \* the binding's fallback_recipient
    HonestApp,         \* the application burns what it lets exit, mints nothing
    MAX,               \* U256::MAX
    Amounts,           \* bound: amounts of deposits, transfers and exits
    MaxDeposits, MaxBatches

ASSUME EscrowAssumption ==
    /\ Native \in Assets /\ Bound \subseteq Assets
    /\ CodeFree \subseteq Accounts
    /\ Accounts \ CodeFree \subseteq Genesis /\ Genesis \subseteq Accounts
    /\ MAX \in Nat /\ Amounts \subseteq Nat \ {0}
    /\ MaxDeposits \in Nat /\ MaxBatches \in Nat

\* An exit binding and a room state list what they hold.
ASSUME FiniteAssumption == IsFiniteSet(Bound) /\ IsFiniteSet(Accounts)

ASSUME HonestAppAssumption == HonestApp \in BOOLEAN

VARIABLES
    inbox,    \* the L1 deposit inbox: records, refunded ones stay in place
    cursor,   \* inbox_cursor: deposits crossed by accepted batches
    pending, controlled, claimable, paid, \* AssetLiabilityV5 of each asset
    balance,  \* [Assets -> [Accounts -> Nat]]: native balance or token slot
    recorded, \* accounts that terminal_state.accounts holds a record of
    queue,    \* the exit queue contract's records
    outbox,   \* withdrawal leaves of all accepted batches
    claimed,  \* leaves already paid out
    batch,    \* accepted batches
    phase,    \* "closed" once a closing batch was accepted, before that "open"
    deposited, refunded \* history: value that entered, value refunded

liabilities == <<pending, controlled, claimable, paid>>
vars == <<inbox, cursor, liabilities, balance, recorded, queue, outbox, claimed,
          batch, phase, deposited, refunded>>

Deposits == [asset : Assets, beneficiary : Accounts, amount : Amounts, refunded : BOOLEAN]

Nothing == [a \in Assets |-> 0]

Init ==
    /\ inbox = <<>> /\ cursor = 0
    /\ pending = Nothing /\ controlled = Nothing
    /\ claimable = Nothing /\ paid = Nothing
    /\ balance = [a \in Assets |-> [x \in Accounts |-> 0]]
    /\ recorded = Genesis /\ queue = <<>> /\ outbox = {} /\ claimed = {}
    /\ batch = 0 /\ phase = "open"
    /\ deposited = Nothing /\ refunded = Nothing

-----------------------------------------------------------------------------
(* L1 (external) *)

Deposit(a, x, amount) ==
    /\ phase = "open" /\ Len(inbox) < MaxDeposits
    /\ pending[a] + amount <= MAX
    /\ inbox' = Append(inbox, [asset |-> a, beneficiary |-> x, amount |-> amount,
                               refunded |-> FALSE])
    /\ pending' = [pending EXCEPT ![a] = @ + amount]
    /\ deposited' = [deposited EXCEPT ![a] = @ + amount]
    /\ UNCHANGED <<cursor, controlled, claimable, paid, balance, recorded, queue,
                   outbox, claimed, batch, phase, refunded>>

\* The deposit-expiry path: a deposit no batch has crossed goes back.
Refund(i) ==
    /\ i > cursor /\ ~inbox[i].refunded
    /\ inbox[i].amount <= pending[inbox[i].asset]
    /\ inbox' = [inbox EXCEPT ![i].refunded = TRUE]
    /\ pending' = [pending EXCEPT ![inbox[i].asset] = @ - inbox[i].amount]
    /\ refunded' = [refunded EXCEPT ![inbox[i].asset] = @ + inbox[i].amount]
    /\ UNCHANGED <<cursor, controlled, claimable, paid, balance, recorded, queue,
                   outbox, claimed, batch, phase, deposited>>

Claim(leaf) ==
    /\ leaf \in outbox \ claimed
    /\ leaf.amount \in 0 .. claimable[leaf.asset]
    /\ claimed' = claimed \cup {leaf}
    /\ claimable' = [claimable EXCEPT ![leaf.asset] = @ - leaf.amount]
    /\ paid' = [paid EXCEPT ![leaf.asset] = @ + leaf.amount]
    /\ UNCHANGED <<inbox, cursor, pending, controlled, balance, recorded, queue,
                   outbox, batch, phase, deposited, refunded>>

-----------------------------------------------------------------------------
(* Consumed deposits, liabilities.rs *)

\* The crossed deposits whose value moves: L1 steps over a refunded one.
Crossed(k) == {i \in cursor + 1 .. k : ~inbox[i].refunded}

Consumed(a, k) ==
    SumFunctionOnSet([i \in Crossed(k) |-> inbox[i].amount],
                     {i \in Crossed(k) : inbox[i].asset = a})

\* apply_deposit_credits_v5 accepts a deposit whose withheld fees leave
\* nothing, a native one, and one whose asset is bound to an in-room token.
Creditable(i, fee) ==
    /\ fee <= inbox[i].amount
    /\ \/ fee = inbox[i].amount
       \/ inbox[i].asset = Native
       \/ inbox[i].asset \in Bound

\* As Credited, but a refunded deposit is credited as well.
Credited_refundsToo(k, fees) ==
    [a \in Assets |-> [x \in Accounts |-> balance[a][x] +
        SumFunctionOnSet(
            [i \in cursor + 1 .. k |-> inbox[i].amount - (IF inbox[i].refunded THEN 0 ELSE fees[i])],
            {i \in cursor + 1 .. k : inbox[i].asset = a /\ inbox[i].beneficiary = x})]]

\* The credit of every crossed deposit to its beneficiary, fees withheld.
Credited(k, fees) ==
    [a \in Assets |-> [x \in Accounts |-> balance[a][x] +
        SumFunctionOnSet([i \in Crossed(k) |-> inbox[i].amount - fees[i]],
            {i \in Crossed(k) : inbox[i].asset = a /\ inbox[i].beneficiary = x})]]

-----------------------------------------------------------------------------
(* The application: what executing the blocks does to balances and queue *)

Moves == [asset : Assets, from : Accounts, to : Accounts, amount : Amounts]
Burn(before, m) == [before EXCEPT ![m.asset][m.from] = @ - m.amount]
Mint(before, m) == [before EXCEPT ![m.asset][m.to] = @ + m.amount]
Exit(m) == [recipient |-> m.to, asset |-> m.asset, amount |-> m.amount]

Effect(after, queueAfter) == [balance |-> after, queue |-> queueAfter]

\* Nothing, a transfer, or an exit that burns what it records ...
HonestEffects(before) ==
    LET funded == {m \in Moves : before[m.asset][m.from] >= m.amount}
    IN  {Effect(before, queue)}
        \cup {Effect(Mint(Burn(before, m), m), queue) : m \in funded}
        \cup {Effect(Burn(before, m), Append(queue, Exit(m))) : m \in funded}

\* ... and, from an application that is not to be trusted, a balance or two
\* records out of nothing, an empty record, or records taken back.
OtherEffects(before) ==
    {Effect(Mint(before, m), queue) : m \in Moves}
    \cup {Effect(before, queue \o <<Exit(m), Exit(m)>>) : m \in Moves}
    \cup {Effect(before, Append(queue, [Exit(m) EXCEPT !.amount = 0])) : m \in Moves}
    \cup {Effect(before, <<>>)}

Effects(before) ==
    HonestEffects(before) \cup (IF HonestApp THEN {} ELSE OtherEffects(before))

\* Accounts that have a record: native value makes one, and the sender of a
\* transaction keeps one.  A token credit or transfer writes a slot of the token
\* and makes no record of the holder.
Holders(after) == {x \in Accounts : after[Native][x] > 0}

Recordings(before, after) ==
    {seen \in SUBSET Accounts :
        recorded \cup Holders(before) \cup Holders(after) \subseteq seen}

-----------------------------------------------------------------------------
(* The exit derivation, exit.rs *)

\* read_exit_records_v5 over pre_exit_count .. post_count, as leaves.
RecordLeaf(i, r) ==
    [batch |-> batch + 1, from |-> <<"record", i>>, recipient |-> r.recipient,
     asset |-> r.asset, amount |-> r.amount]

RecordLeaves_all(queueAfter) ==
    {RecordLeaf(i, queueAfter[i]) : i \in 1 .. Len(queueAfter)}

RecordLeaves(queueAfter) ==
    {RecordLeaf(i, queueAfter[i]) : i \in Len(queue) + 1 .. Len(queueAfter)}

ReadableRecords(queueAfter) ==
    /\ Len(queueAfter) >= Len(queue)
    /\ \A leaf \in RecordLeaves(queueAfter) : leaf.amount > 0 /\ leaf.asset \in Bound

SumOf_lastOnly(leaves, a) ==
    Max({leaf.amount : leaf \in {l \in leaves : l.asset = a}} \cup {0})

SumOf(leaves, a) ==
    SumFunctionOnSet([leaf \in leaves |-> leaf.amount], {leaf \in leaves : leaf.asset = a})

\* derive_close_sweep_v5 for one asset: floor shares in proportion to the
\* balances of the code-free accounts that have a record; dust, and residue
\* nobody has a balance for, go to the fallback recipient.
Total(a, after, swept) == SumFunctionOnSet(after[a], swept)

\* As Shares, but in proportion to the balances the batch opened with.
Shares_openingState(a, residual, after, swept) ==
    {leaf \in {[batch |-> batch + 1, from |-> <<"share", x>>, recipient |-> x, asset |-> a,
                amount |-> (residual * balance[a][x]) \div Total(a, balance, swept)] :
                    x \in {y \in swept : balance[a][y] > 0}} : leaf.amount > 0}

Shares(a, residual, after, swept) ==
    {leaf \in {[batch |-> batch + 1, from |-> <<"share", x>>, recipient |-> x, asset |-> a,
                amount |-> (residual * after[a][x]) \div Total(a, after, swept)] :
                    x \in {y \in swept : after[a][y] > 0}} : leaf.amount > 0}

Sweep(a, residual, after, swept) ==
    LET shares == Shares(a, residual, after, swept)
        dust == residual - SumOf(shares, a)
    IN  IF residual = 0 THEN {}
        ELSE shares \cup
             {leaf \in {[batch |-> batch + 1, from |-> <<"dust">>, recipient |-> Fallback,
                         asset |-> a, amount |-> dust]} : leaf.amount > 0}

\* The checked_add of the balances, the checked_mul of a share, and the
\* checked_sub of the dust.
Sweepable(a, residual, after, swept) ==
    /\ residual > 0 => Total(a, after, swept) <= MAX
    /\ \A x \in swept : residual * after[a][x] <= MAX
    /\ SumOf(Shares(a, residual, after, swept), a) <= residual

\* validate_exit_v5: the leaves of a batch are the new records and, when it
\* closes the room, the sweep of what the records leave of each bound asset.
Residual(a, k, queueAfter) ==
    controlled[a] + Consumed(a, k) - SumOf(RecordLeaves(queueAfter), a)

Leaves(k, queueAfter, after, seen, close) ==
    RecordLeaves(queueAfter) \cup
    (IF close
     THEN UNION {Sweep(a, Residual(a, k, queueAfter), after, CodeFree \cap seen) :
                    a \in Bound}
     ELSE {})

-----------------------------------------------------------------------------
(* A batch *)

\* Everything execute_batch_v5 checks of the value it moves.
Provable(k, fees, effect, seen, close) ==
    /\ \A i \in Crossed(k) : Creditable(i, fees[i])
    /\ LET credited == Credited(k, fees)
       IN  \A a \in Assets, x \in Accounts : credited[a][x] \in 0 .. MAX
    /\ ReadableRecords(effect.queue)
    /\ close => \A a \in Assets :
        /\ Residual(a, k, effect.queue) >= 0
        /\ a \in Bound => Sweepable(a, Residual(a, k, effect.queue), effect.balance,
                                  CodeFree \cap seen)

\* As Conserves, but a withdrawal is not compared with the controlled total.
Conserves_uncheckedSub(a, consumed, withdrawn, close) ==
    /\ consumed \in 0 .. pending[a]
    /\ controlled[a] + consumed <= MAX
    /\ claimable[a] + withdrawn <= MAX
    /\ close => withdrawn = controlled[a] + consumed

\* As Conserves, but a closing batch may leave controlled escrow.
Conserves_closeUnchecked(a, consumed, withdrawn, close) ==
    /\ consumed \in 0 .. pending[a]
    /\ controlled[a] + consumed <= MAX
    /\ withdrawn \in 0 .. controlled[a] + consumed
    /\ claimable[a] + withdrawn <= MAX

\* validate_liabilities_v5, for one asset.
Conserves(a, consumed, withdrawn, close) ==
    /\ consumed \in 0 .. pending[a]
    /\ controlled[a] + consumed <= MAX
    /\ withdrawn \in 0 .. controlled[a] + consumed
    /\ claimable[a] + withdrawn <= MAX
    /\ close => withdrawn = controlled[a] + consumed

\* The post-liabilities of an asset: what is consumed comes under control,
\* what is withdrawn leaves it.
ControlledAfter_keepsWithdrawn(a, consumed, withdrawn) == controlled[a] + consumed
ControlledAfter(a, consumed, withdrawn) == controlled[a] + consumed - withdrawn

\* execute_batch_v5.
Batch(k, fees, effect, seen, close) ==
    LET leaves == Leaves(k, effect.queue, effect.balance, seen, close)
    IN  /\ phase = "open" /\ batch < MaxBatches
        /\ Provable(k, fees, effect, seen, close)
        /\ \A a \in Assets : Conserves(a, Consumed(a, k), SumOf(leaves, a), close)
        /\ cursor' = k
        /\ pending' = [a \in Assets |-> pending[a] - Consumed(a, k)]
        /\ controlled' = [a \in Assets |->
                ControlledAfter(a, Consumed(a, k), SumOf(leaves, a))]
        /\ claimable' = [a \in Assets |-> claimable[a] + SumOf(leaves, a)]
        /\ balance' = effect.balance
        /\ recorded' = seen
        /\ queue' = effect.queue
        /\ outbox' = outbox \cup leaves
        /\ batch' = batch + 1
        /\ phase' = IF close THEN "closed" ELSE "open"
        /\ UNCHANGED <<inbox, paid, claimed, deposited, refunded>>

\* The fees withheld from the crossed deposits by the admissions that name them.
Fees(k) == [Crossed(k) -> Amounts \cup {0}]

Next ==
    \/ \E a \in Assets, x \in Accounts, m \in Amounts : Deposit(a, x, m)
    \/ \E i \in DOMAIN inbox : Refund(i)
    \/ \E leaf \in outbox : Claim(leaf)
    \/ /\ phase = "open" /\ batch < MaxBatches
       /\ \E k \in cursor .. Len(inbox), close \in BOOLEAN :
            \E fees \in Fees(k) :
                /\ \A i \in Crossed(k) : Creditable(i, fees[i])
                /\ LET credited == Credited(k, fees)
                   IN  \E effect \in Effects(credited) :
                       \E seen \in Recordings(credited, effect.balance) :
                           Batch(k, fees, effect, seen, close)

Spec == Init /\ [][Next]_vars

-----------------------------------------------------------------------------
(* Properties *)

\* The liability totals are U256 values, the cursor stays inside the inbox and
\* only leaves that exist are claimed.
TypeOK ==
    /\ inbox \in Seq(Deposits) /\ cursor \in 0 .. Len(inbox)
    /\ pending \in [Assets -> 0 .. MAX] /\ controlled \in [Assets -> 0 .. MAX]
    /\ claimable \in [Assets -> 0 .. MAX] /\ paid \in [Assets -> Nat]
    /\ balance \in [Assets -> [Accounts -> Nat]] /\ recorded \subseteq Accounts
    /\ claimed \subseteq outbox
    /\ batch \in 0 .. MaxBatches /\ phase \in {"open", "closed"}
    /\ deposited \in [Assets -> Nat] /\ refunded \in [Assets -> Nat]

\* Value is conserved (liabilities.rs, "the conservation rule between the two
\* liability vectors"): whatever the application does, each unit deposited is
\* pending, controlled, claimable, paid out or refunded, and only one of them.
Conservation ==
    \A a \in Assets :
        deposited[a] = pending[a] + controlled[a] + claimable[a] + paid[a] + refunded[a]

\* The totals are what the queues hold: pending is what the inbox holds beyond
\* the cursor, so a refund that a later batch steps over is neither credited
\* nor counted twice, and claimable is what the unclaimed leaves of all batches
\* promise.
TotalsAreQueues ==
    \A a \in Assets :
        /\ pending[a] = SumFunctionOnSet([i \in DOMAIN inbox |-> inbox[i].amount],
            {i \in cursor + 1 .. Len(inbox) : inbox[i].asset = a /\ ~inbox[i].refunded})
        /\ claimable[a] = SumFunctionOnSet([leaf \in outbox |-> leaf.amount],
            {leaf \in outbox \ claimed : leaf.asset = a})

\* Each record of the exit queue becomes exactly one leaf, in whatever batch
\* it was written (exit.rs: the cursor is "proof state, never witness data").
RecordsMintedOnce ==
    \A i \in DOMAIN queue :
        Cardinality({leaf \in outbox : leaf.from = <<"record", i>>}) = 1

\* A closed room holds nothing back: no escrow is left under the control of a
\* room that can never prove another batch (liabilities.rs:226-235).
ClosedRoomIsEmpty == phase = "closed" => \A a \in Assets : controlled[a] = 0

\* With an application that mints nothing, what the room's accounts hold of a
\* bound asset never exceeds the escrow it can still withdraw.
BalancesBacked ==
    HonestApp /\ phase = "open" =>
        \A a \in Assets : SumFunctionOnSet(balance[a], Accounts) <= controlled[a]

\* The close sweep makes whole whom it reaches: each code-free account gets at
\* least the native balance it held when the room closed and, if the room state
\* has a record of it, what it held of any other bound asset, in spite of
\* rounding, of fees and of balances that contracts hold.  The holder of a token
\* whom the state has no record of gets no share (derive_close_sweep_v5).
CloseMakesWhole ==
    HonestApp /\ phase = "closed" =>
        \A a \in Bound, x \in CodeFree :
            balance[a][x] > 0 /\ (a = Native \/ x \in recorded) =>
                \E leaf \in outbox :
                    /\ leaf.from = <<"share", x>> /\ leaf.asset = a
                    /\ leaf.recipient = x /\ leaf.amount >= balance[a][x]

\* "would let the room accept deposits it can never let anyone withdraw"
\* (liabilities.rs:105-106): escrow comes under control only of an asset that
\* exit records and the close sweep can pay out.
ControlledIsWithdrawable == \A a \in Assets : controlled[a] > 0 => a \in Bound
=============================================================================

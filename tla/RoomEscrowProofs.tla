-------------------------- MODULE RoomEscrowProofs --------------------------
(***************************************************************************)
(* For every set of assets and accounts, every exit binding and every      *)
(* application: the liability totals stay in range, value is conserved, a  *)
(* closed room controls nothing, and an exit record is minted once.        *)
(***************************************************************************)
EXTENDS RoomEscrow, TLAPS

\* The leaves of the outbox name assets of the room.  Conservation needs it:
\* a claim moves the totals of the leaf's asset.
LeafAssets == \A leaf \in outbox : leaf.asset \in Assets

Inv == TypeOK /\ LeafAssets

-----------------------------------------------------------------------------
(* Facts about numbers and sequences *)

\* Numbers of an interval from zero are natural.
LEMMA IntervalNat == ASSUME NEW m, NEW x \in 0 .. m PROVE x \in Nat
OBVIOUS

\* Zero is natural.
LEMMA ZeroNat == 0 \in Nat
BY Zenon

\* What is left of a sum without its first part.
LEMMA Rest == ASSUME NEW x \in Nat, NEW y \in Nat PROVE (x + y) - x = y
OBVIOUS

\* Moving an amount from one account to another keeps a bound.
LEMMA MoveBound ==
    ASSUME NEW s \in Nat, NEW m \in Nat, NEW limit \in Nat, s <= limit
    PROVE  (s - m) + m <= limit - 0
OBVIOUS

\* A bound on a bound.
LEMMA BoundBound ==
    ASSUME NEW s \in Nat, NEW t \in Nat, NEW u \in Nat, NEW v \in Nat, s <= t + v, t <= u
    PROVE  s <= u + v
OBVIOUS

\* Taking an amount out keeps the bound that is lowered by it.
LEMMA TakeBound ==
    ASSUME NEW s \in Nat, NEW m \in Nat, NEW limit \in Nat, s <= limit
    PROVE  s - m <= limit - m
OBVIOUS

\* An interval and the number after it.
LEMMA IntervalGrows ==
    ASSUME NEW n \in Nat, NEW c \in 0 .. n
    PROVE  /\ c + 1 .. n + 1 = (c + 1 .. n) \cup {n + 1} /\ n + 1 \notin c + 1 .. n
           /\ c + 1 .. n \subseteq 1 .. n
OBVIOUS

\* The length, the domain and the elements of a sequence.
LEMMA SeqFacts ==
    ASSUME NEW S, NEW s \in Seq(S)
    PROVE  /\ Len(s) \in Nat /\ DOMAIN s = 1 .. Len(s)
           /\ \A i \in 1 .. Len(s) : s[i] \in S
           /\ s \in [1 .. Len(s) -> S]
OBVIOUS

\* The empty sequence.
LEMMA SeqEmpty == ASSUME NEW S PROVE <<>> \in Seq(S) /\ Len(<<>>) = 0
OBVIOUS

\* Appending one element.
LEMMA SeqAppend ==
    ASSUME NEW S, NEW s \in Seq(S), NEW x \in S
    PROVE  /\ Append(s, x) \in Seq(S) /\ Len(Append(s, x)) = Len(s) + 1
           /\ Append(s, x)[Len(s) + 1] = x
           /\ \A i \in 1 .. Len(s) : Append(s, x)[i] = s[i]
OBVIOUS

\* The appended element is the last.
LEMMA SeqAppendLast ==
    ASSUME NEW S, NEW s \in Seq(S), NEW x \in S
    PROVE  Len(Append(s, x)) = Len(s) + 1 /\ Append(s, x)[Len(s) + 1] = x
BY SeqAppend

\* Appending a sequence.
LEMMA SeqConcat ==
    ASSUME NEW S, NEW s \in Seq(S), NEW t \in Seq(S)
    PROVE  s \o t \in Seq(S) /\ Len(s \o t) = Len(s) + Len(t)
OBVIOUS

\* Replacing one element.
LEMMA SeqUpdate ==
    ASSUME NEW S, NEW s \in Seq(S), NEW i \in 1 .. Len(s), NEW x \in S
    PROVE  /\ [s EXCEPT ![i] = x] \in Seq(S) /\ Len([s EXCEPT ![i] = x]) = Len(s)
           /\ [s EXCEPT ![i] = x][i] = x
           /\ \A j \in 1 .. Len(s) : j # i => [s EXCEPT ![i] = x][j] = s[j]
OBVIOUS

-----------------------------------------------------------------------------
(* What a provable batch gives *)

\* The leaves a batch derives name bound assets.
LEMMA LeavesAreBound ==
    ASSUME NEW k, NEW fees, NEW effect, NEW seen, NEW close,
           Provable(k, fees, effect, seen, close),
           NEW leaf \in Leaves(k, effect.queue, effect.balance, seen, close)
    PROVE  leaf.asset \in Bound
<1>1. CASE leaf \in RecordLeaves(effect.queue)
    BY <1>1, Zenon DEF Provable, ReadableRecords
<1>2. CASE close /\ leaf \in UNION {Sweep(a, Residual(a, k, effect.queue), effect.balance,
                                     CodeFree \cap seen) :
                                       a \in Bound}
  <2>1. PICK a \in Bound : leaf \in Sweep(a, Residual(a, k, effect.queue), effect.balance,
                                     CodeFree \cap seen)
    BY <1>2, Zenon
  <2> QED
    BY <2>1 DEF Sweep, Shares
<1> QED
    BY <1>1, <1>2, Zenon DEF Leaves

\* An update keeps a typed function typed.
LEMMA UpdateType ==
    ASSUME NEW S, NEW T, NEW f \in [S -> T], NEW a \in S, NEW v \in T
    PROVE  [f EXCEPT ![a] = v] \in [S -> T]
BY Zenon

\* Burning what an account has, or minting, keeps balances typed.
LEMMA BurnMintType ==
    ASSUME NEW before \in [Assets -> [Accounts -> Nat]], NEW m \in Moves
    PROVE  /\ before[m.asset][m.from] >= m.amount =>
                Burn(before, m) \in [Assets -> [Accounts -> Nat]]
           /\ Mint(before, m) \in [Assets -> [Accounts -> Nat]]
<1>1. /\ m.asset \in Assets /\ m.from \in Accounts /\ m.to \in Accounts
      /\ m.amount \in Nat
    BY EscrowAssumption, Zenon DEF Moves
<1>2. before[m.asset] \in [Accounts -> Nat]
    BY <1>1, Zenon
<1>3. before[m.asset][m.from] \in Nat /\ before[m.asset][m.to] \in Nat
    BY <1>1, <1>2, Zenon
<1>4. ASSUME before[m.asset][m.from] >= m.amount
      PROVE  Burn(before, m) \in [Assets -> [Accounts -> Nat]]
  <2>1. before[m.asset][m.from] - m.amount \in Nat
    BY <1>1, <1>3, <1>4
  <2>2. [before[m.asset] EXCEPT ![m.from] = @ - m.amount] \in [Accounts -> Nat]
    BY <1>1, <1>2, <2>1, Zenon
  <2> QED
    BY <1>1, <2>2, Zenon DEF Burn
<1>5. Mint(before, m) \in [Assets -> [Accounts -> Nat]]
  <2>1. before[m.asset][m.to] + m.amount \in Nat
    BY <1>1, <1>3
  <2>2. [before[m.asset] EXCEPT ![m.to] = @ + m.amount] \in [Accounts -> Nat]
    BY <1>1, <1>2, <2>1, Zenon
  <2> QED
    BY <1>1, <2>2, Zenon DEF Mint
<1> QED
    BY <1>4, <1>5, Zenon

\* Executing the blocks leaves typed balances.
LEMMA EffectsType ==
    ASSUME NEW before \in [Assets -> [Accounts -> Nat]], NEW effect \in Effects(before)
    PROVE  effect.balance \in [Assets -> [Accounts -> Nat]]
<1>1. \/ effect.balance = before
      \/ \E m \in Moves : effect.balance = Mint(before, m)
      \/ \E m \in Moves : /\ before[m.asset][m.from] >= m.amount
                          /\ \/ effect.balance = Mint(Burn(before, m), m)
                             \/ effect.balance = Burn(before, m)
  <2>1. ASSUME NEW after, NEW queueAfter, effect = Effect(after, queueAfter)
        PROVE  effect.balance = after
    BY <2>1, Zenon DEF Effect
  <2>2. CASE effect \in HonestEffects(before)
    BY <2>1, <2>2, Zenon DEF HonestEffects
  <2>3. CASE effect \in OtherEffects(before)
    BY <2>1, <2>3, Zenon DEF OtherEffects
  <2> QED
    BY <2>2, <2>3, Zenon DEF Effects
<1>2. CASE effect.balance = before
    BY <1>2, Zenon
<1>3. ASSUME NEW m \in Moves, effect.balance = Mint(before, m)
      PROVE  effect.balance \in [Assets -> [Accounts -> Nat]]
    BY <1>3, BurnMintType
<1>4. ASSUME NEW m \in Moves, before[m.asset][m.from] >= m.amount,
             effect.balance \in {Mint(Burn(before, m), m), Burn(before, m)}
      PROVE  effect.balance \in [Assets -> [Accounts -> Nat]]
  <2>1. Burn(before, m) \in [Assets -> [Accounts -> Nat]]
    BY <1>4, BurnMintType, Zenon
  <2>2. Mint(Burn(before, m), m) \in [Assets -> [Accounts -> Nat]]
    BY <2>1, BurnMintType, Zenon
  <2> QED
    BY <1>4, <2>1, <2>2, Zenon
<1> QED
    BY <1>1, <1>2, <1>3, <1>4, Zenon

-----------------------------------------------------------------------------
(* Types *)

\* The invariant holds in an empty room.
LEMMA InvInit == Init => Inv
<1> SUFFICES ASSUME Init PROVE Inv
    BY Zenon
<1>1. inbox \in Seq(Deposits) /\ Len(inbox) = 0
    BY SeqEmpty, Zenon DEF Init
<1>2. Nothing \in [Assets -> 0 .. MAX] /\ Nothing \in [Assets -> Nat]
    BY EscrowAssumption DEF Nothing
<1>3. balance \in [Assets -> [Accounts -> Nat]] /\ recorded \subseteq Accounts
    BY EscrowAssumption, Zenon DEF Init
<1>4. cursor \in 0 .. Len(inbox) /\ batch \in 0 .. MaxBatches /\ phase \in {"open", "closed"}
    BY <1>1, EscrowAssumption DEF Init
<1>5. LeafAssets /\ claimed \subseteq outbox
    BY Zenon DEF Init, LeafAssets
<1> QED
    BY <1>1, <1>2, <1>3, <1>4, <1>5, Zenon DEF Init, Inv, TypeOK

\* An L1 deposit keeps the invariant.
LEMMA DepositInv ==
    ASSUME Inv, NEW a \in Assets, NEW x \in Accounts, NEW m \in Amounts, Deposit(a, x, m)
    PROVE  Inv'
<1> USE EscrowAssumption
<1> DEFINE d == [asset |-> a, beneficiary |-> x, amount |-> m, refunded |-> FALSE]
<1>1. d \in Deposits
    BY Zenon DEF Deposits
<1>2. inbox' \in Seq(Deposits) /\ Len(inbox') = Len(inbox) + 1 /\ Len(inbox) \in Nat
    BY <1>1, SeqAppend, SeqFacts DEF Deposit, Inv, TypeOK
<1>3. m \in Nat /\ pending[a] \in Nat /\ deposited[a] \in Nat
    BY DEF Inv, TypeOK
<1>4. pending[a] + m \in 0 .. MAX /\ deposited[a] + m \in Nat
    BY <1>3 DEF Deposit
<1>5. pending' \in [Assets -> 0 .. MAX] /\ deposited' \in [Assets -> Nat]
    BY <1>4, UpdateType, Zenon DEF Deposit, Inv, TypeOK
<1>6. cursor' \in 0 .. Len(inbox')
    BY <1>2 DEF Deposit, Inv, TypeOK
<1> QED
    BY <1>2, <1>5, <1>6, Zenon DEF Deposit, Inv, TypeOK, LeafAssets

\* An L1 refund keeps the invariant.
LEMMA RefundInv ==
    ASSUME Inv, NEW i \in DOMAIN inbox, Refund(i) PROVE Inv'
<1> USE EscrowAssumption
<1>1. inbox[i] \in Deposits /\ i \in 1 .. Len(inbox) /\ Len(inbox) \in Nat
      /\ inbox \in [1 .. Len(inbox) -> Deposits]
    BY SeqFacts DEF Inv, TypeOK
<1>2. [inbox[i] EXCEPT !.refunded = TRUE] \in Deposits
    BY <1>1, Zenon DEF Deposits
<1>3. inbox' \in Seq(Deposits) /\ Len(inbox') = Len(inbox)
    BY <1>1, <1>2, SeqUpdate DEF Refund, Inv, TypeOK
<1>4. inbox[i].asset \in Assets /\ inbox[i].amount \in Nat
    BY <1>1, Zenon DEF Deposits
<1>5. pending[inbox[i].asset] \in 0 .. MAX /\ refunded[inbox[i].asset] \in Nat
    BY <1>4, Zenon DEF Inv, TypeOK
<1>6. /\ pending[inbox[i].asset] - inbox[i].amount \in 0 .. MAX
      /\ refunded[inbox[i].asset] + inbox[i].amount \in Nat
    BY <1>4, <1>5 DEF Refund
<1>7. pending' \in [Assets -> 0 .. MAX] /\ refunded' \in [Assets -> Nat]
    BY <1>4, <1>6, UpdateType, Zenon DEF Refund, Inv, TypeOK
<1> QED
    BY <1>3, <1>7, Zenon DEF Refund, Inv, TypeOK, LeafAssets

\* An L1 claim keeps the invariant.
LEMMA ClaimInv ==
    ASSUME Inv, NEW leaf \in outbox, Claim(leaf) PROVE Inv'
<1>1. leaf.asset \in Assets /\ leaf.amount \in Nat
    BY EscrowAssumption DEF Inv, TypeOK, LeafAssets, Claim
<1>2. claimable[leaf.asset] \in 0 .. MAX /\ paid[leaf.asset] \in Nat
    BY <1>1, Zenon DEF Inv, TypeOK
<1>3. /\ claimable[leaf.asset] - leaf.amount \in 0 .. MAX
      /\ paid[leaf.asset] + leaf.amount \in Nat
    BY <1>1, <1>2, EscrowAssumption DEF Claim
<1>4. claimable' \in [Assets -> 0 .. MAX] /\ paid' \in [Assets -> Nat]
    BY <1>1, <1>3, UpdateType, Zenon DEF Claim, Inv, TypeOK
<1> QED
    BY <1>4, Zenon DEF Claim, Inv, TypeOK, LeafAssets

\* The arithmetic of one asset: what Conserves admits stays in range.
LEMMA MoveWithin ==
    ASSUME NEW p \in 0 .. MAX, NEW q \in 0 .. MAX, NEW r \in 0 .. MAX,
           NEW c \in 0 .. p, NEW w \in 0 .. q + c, q + c <= MAX, r + w <= MAX
    PROVE  p - c \in 0 .. MAX /\ q + c - w \in 0 .. MAX /\ r + w \in 0 .. MAX
BY EscrowAssumption

\* A batch the guest proves keeps the invariant: Conserves checks every sum it
\* forms against the range of U256 before it is assigned.
LEMMA BatchInv ==
    ASSUME Inv, NEW k \in cursor .. Len(inbox), NEW close \in BOOLEAN, NEW fees \in Fees(k),
           NEW effect \in Effects(Credited(k, fees)),
           NEW seen \in Recordings(Credited(k, fees), effect.balance),
           Batch(k, fees, effect, seen, close)
    PROVE  Inv'
<1> USE EscrowAssumption
<1> DEFINE leaves == Leaves(k, effect.queue, effect.balance, seen, close)
<1>1. Credited(k, fees) \in [Assets -> [Accounts -> Nat]]
  <2>1. \A a \in Assets, x \in Accounts : Credited(k, fees)[a][x] \in Nat
    BY SMTT(30) DEF Batch, Provable
  <2> QED
    BY <2>1, Zenon DEF Credited
<1>2. balance' \in [Assets -> [Accounts -> Nat]] /\ recorded' \subseteq Accounts
    BY <1>1, EffectsType, Zenon DEF Batch, Recordings
<1>3. \A a \in Assets : Conserves(a, Consumed(a, k), SumOf(leaves, a), close)
    BY Zenon DEF Batch
<1>4. pending' \in [Assets -> 0 .. MAX] /\ controlled' \in [Assets -> 0 .. MAX]
      /\ claimable' \in [Assets -> 0 .. MAX]
  <2> DEFINE c(a) == Consumed(a, k)
             w(a) == SumOf(leaves, a)
  <2>1. /\ pending' = [a \in Assets |-> pending[a] - c(a)]
        /\ controlled' = [a \in Assets |-> controlled[a] + c(a) - w(a)]
        /\ claimable' = [a \in Assets |-> claimable[a] + w(a)]
    BY Zenon DEF Batch, ControlledAfter
  <2>2. \A a \in Assets : pending[a] \in 0 .. MAX /\ controlled[a] \in 0 .. MAX
                          /\ claimable[a] \in 0 .. MAX
    BY Zenon DEF Inv, TypeOK
  <2>3. \A a \in Assets :
            /\ c(a) \in 0 .. pending[a] /\ controlled[a] + c(a) <= MAX
            /\ w(a) \in 0 .. controlled[a] + c(a) /\ claimable[a] + w(a) <= MAX
    BY <1>3, Zenon DEF Conserves
  <2> HIDE DEF c, w
  <2>4. \A a \in Assets : /\ pending[a] - c(a) \in 0 .. MAX
                           /\ controlled[a] + c(a) - w(a) \in 0 .. MAX
                           /\ claimable[a] + w(a) \in 0 .. MAX
    <3> SUFFICES ASSUME NEW a \in Assets
                 PROVE  /\ pending[a] - c(a) \in 0 .. MAX
                        /\ controlled[a] + c(a) - w(a) \in 0 .. MAX
                        /\ claimable[a] + w(a) \in 0 .. MAX
      BY Zenon
    <3>1. pending[a] \in 0 .. MAX /\ controlled[a] \in 0 .. MAX /\ claimable[a] \in 0 .. MAX
      BY <2>2, Zenon
    <3>2. /\ c(a) \in 0 .. pending[a] /\ controlled[a] + c(a) <= MAX
          /\ w(a) \in 0 .. controlled[a] + c(a) /\ claimable[a] + w(a) <= MAX
      BY <2>3, Zenon
    <3> QED
      BY <3>1, <3>2, MoveWithin, Zenon
  <2>5. pending' \in [Assets -> 0 .. MAX]
    BY <2>1, <2>4, Zenon
  <2>6. controlled' \in [Assets -> 0 .. MAX]
    BY <2>1, <2>4, Zenon
  <2>7. claimable' \in [Assets -> 0 .. MAX]
    BY <2>1, <2>4, Zenon
  <2> QED
    BY <2>5, <2>6, <2>7, Zenon
<1>5. \A leaf \in leaves : leaf.asset \in Assets
    BY LeavesAreBound, Zenon DEF Batch
<1>6. LeafAssets'
    BY <1>5, Zenon DEF Batch, Inv, LeafAssets
<1>7. cursor' \in 0 .. Len(inbox')
    BY SeqFacts DEF Batch, Inv, TypeOK
<1>8. inbox' \in Seq(Deposits) /\ paid' \in [Assets -> Nat]
      /\ deposited' \in [Assets -> Nat] /\ refunded' \in [Assets -> Nat]
    BY Zenon DEF Batch, Inv, TypeOK
<1>9. claimed' \subseteq outbox'
    BY Zenon DEF Batch, Inv, TypeOK
<1>10. batch' \in 0 .. MaxBatches
  <2>1. batch' = batch + 1 /\ batch < MaxBatches
    BY Zenon DEF Batch
  <2>2. batch \in Nat
    BY DEF Inv, TypeOK
  <2> QED
    BY <2>1, <2>2
<1>11. phase' \in {"open", "closed"}
    BY Zenon DEF Batch
<1> QED
    BY <1>2, <1>4, <1>6, <1>7, <1>8, <1>9, <1>10, <1>11, Zenon DEF Inv, TypeOK

\* The invariant is inductive.
LEMMA InvNext == Inv /\ [Next]_vars => Inv'
<1>1. ASSUME Inv, UNCHANGED vars PROVE Inv'
    BY <1>1, Zenon DEF Inv, TypeOK, LeafAssets, vars, liabilities
<1> QED
    BY <1>1, DepositInv, RefundInv, ClaimInv, BatchInv, Zenon DEF Next

\* The totals never leave the range of U256, for any application.
THEOREM EscrowTypes == Spec => []TypeOK
<1>1. Inv => TypeOK
    BY Zenon DEF Inv
<1> QED
    BY <1>1, InvInit, InvNext, PTL DEF Spec

-----------------------------------------------------------------------------
(* Conservation *)

\* What a step does to the totals of one asset: value only changes its class.
Moved(a) ==
    \/ \E v \in Nat : /\ pending'[a] = pending[a] + v /\ deposited'[a] = deposited[a] + v
                      /\ UNCHANGED <<controlled[a], claimable[a], paid[a], refunded[a]>>
    \/ \E v \in Nat : /\ pending'[a] = pending[a] - v /\ refunded'[a] = refunded[a] + v
                      /\ UNCHANGED <<controlled[a], claimable[a], paid[a], deposited[a]>>
    \/ \E v \in Nat : /\ claimable'[a] = claimable[a] - v /\ paid'[a] = paid[a] + v
                      /\ UNCHANGED <<pending[a], controlled[a], refunded[a], deposited[a]>>
    \/ \E c, w \in Nat : /\ pending'[a] = pending[a] - c
                         /\ controlled'[a] = controlled[a] + c - w
                         /\ claimable'[a] = claimable[a] + w
                         /\ UNCHANGED <<paid[a], refunded[a], deposited[a]>>

\* Every step moves value of one asset between two classes, or three in a batch.
LEMMA StepMoves ==
    ASSUME Inv, [Next]_vars, NEW a \in Assets PROVE Moved(a)
<1> USE EscrowAssumption
<1>1. ASSUME NEW b \in Assets, NEW x \in Accounts, NEW m \in Amounts, Deposit(b, x, m)
      PROVE  Moved(a)
  <2>1. m \in Nat /\ pending[a] \in Nat /\ deposited[a] \in Nat
    BY DEF Inv, TypeOK
  <2>2. \E v \in {0, m} : pending'[a] = pending[a] + v /\ deposited'[a] = deposited[a] + v
    <3>1. CASE a = b
      BY <1>1, <3>1, Zenon DEF Deposit, Inv, TypeOK
    <3>2. CASE a # b
      <4>1. pending'[a] = pending[a] /\ deposited'[a] = deposited[a]
        BY <1>1, <3>2, Zenon DEF Deposit, Inv, TypeOK
      <4> QED
        BY SMTT(30), <2>1, <4>1
    <3> QED
      BY <3>1, <3>2, Zenon
  <2> QED
    BY <1>1, <2>1, <2>2, Zenon DEF Deposit, Moved
<1>2. ASSUME NEW i \in DOMAIN inbox, Refund(i) PROVE Moved(a)
  <2>1. inbox[i] \in Deposits
    BY SeqFacts DEF Inv, TypeOK
  <2>2. inbox[i].amount \in Nat /\ inbox[i].asset \in Assets
    BY <2>1, Zenon DEF Deposits
  <2>3. pending[a] \in Nat /\ refunded[a] \in Nat
    BY DEF Inv, TypeOK
  <2>4. \E v \in {0, inbox[i].amount} :
            pending'[a] = pending[a] - v /\ refunded'[a] = refunded[a] + v
    <3>1. CASE a = inbox[i].asset
      BY <1>2, <3>1, Zenon DEF Refund, Inv, TypeOK
    <3>2. CASE a # inbox[i].asset
      <4>1. pending'[a] = pending[a] /\ refunded'[a] = refunded[a]
        BY <1>2, <2>2, <3>2, Zenon DEF Refund, Inv, TypeOK
      <4> QED
        BY <2>3, <4>1
    <3> QED
      BY <3>1, <3>2, Zenon
  <2> QED
    BY <1>2, <2>2, <2>4, Zenon DEF Refund, Moved
<1>3. ASSUME NEW leaf \in outbox, Claim(leaf) PROVE Moved(a)
  <2>1. leaf.amount \in Nat /\ claimable[a] \in Nat /\ paid[a] \in Nat
    BY <1>3 DEF Claim, Inv, TypeOK
  <2>2. \E v \in {0, leaf.amount} :
            claimable'[a] = claimable[a] - v /\ paid'[a] = paid[a] + v
    <3>1. CASE a = leaf.asset
      BY <1>3, <3>1, Zenon DEF Claim, Inv, TypeOK
    <3>2. CASE a # leaf.asset
      <4>1. claimable'[a] = claimable[a] /\ paid'[a] = paid[a]
        BY <1>3, <3>2, Zenon DEF Claim, Inv, TypeOK
      <4> QED
        BY <2>1, <4>1
    <3> QED
      BY <3>1, <3>2, Zenon
  <2> QED
    BY <1>3, <2>1, <2>2, Zenon DEF Claim, Moved
<1>4. ASSUME NEW k, NEW fees, NEW effect, NEW seen, NEW close,
             Batch(k, fees, effect, seen, close)
      PROVE  Moved(a)
  <2> DEFINE c == Consumed(a, k)
             w == SumOf(Leaves(k, effect.queue, effect.balance, seen, close), a)
  <2>1. /\ pending'[a] = pending[a] - c /\ controlled'[a] = controlled[a] + c - w
        /\ claimable'[a] = claimable[a] + w
        /\ UNCHANGED <<paid[a], refunded[a], deposited[a]>>
    BY <1>4, Zenon DEF Batch, ControlledAfter
  <2>2. c \in Nat /\ w \in Nat
    BY SMTT(30), <1>4 DEF Batch, Conserves, Inv, TypeOK
  <2> HIDE DEF c, w
  <2> QED
    BY <2>1, <2>2, Zenon DEF Moved
<1>5. CASE UNCHANGED vars
  <2>1. pending[a] \in Nat /\ deposited[a] \in Nat
    BY DEF Inv, TypeOK
  <2>2. UNCHANGED <<pending, controlled, claimable, paid, refunded, deposited>>
    BY <1>5, Zenon DEF vars, liabilities
  <2>3. /\ pending'[a] = pending[a] /\ deposited'[a] = deposited[a]
        /\ UNCHANGED <<controlled[a], claimable[a], paid[a], refunded[a]>>
    BY <2>2, Zenon
  <2>4. pending[a] = pending[a] + 0 /\ deposited[a] = deposited[a] + 0
    <3> HIDE <1>5
    <3> QED
      BY <2>1, SMT
  <2>5. pending'[a] = pending[a] + 0 /\ deposited'[a] = deposited[a] + 0
    BY <2>3, <2>4, Zenon
  <2>6. 0 \in Nat
    BY Zenon
  <2> QED
    BY <2>3, <2>5, <2>6, Zenon DEF Moved
<1> QED
    BY <1>1, <1>2, <1>3, <1>4, <1>5, Zenon DEF Next

\* A step that only moves value conserves it.
LEMMA ConservationNext == Inv /\ Conservation /\ [Next]_vars => Conservation'
<1> SUFFICES ASSUME Inv, Conservation, [Next]_vars, NEW a \in Assets
             PROVE  deposited'[a] = pending'[a] + controlled'[a] + claimable'[a] + paid'[a]
                                    + refunded'[a]
    BY Zenon DEF Conservation
<1>1. Moved(a)
    BY StepMoves, Zenon
<1>2. /\ pending[a] \in Nat /\ controlled[a] \in Nat /\ claimable[a] \in Nat
      /\ paid[a] \in Nat /\ deposited[a] \in Nat /\ refunded[a] \in Nat
    BY EscrowAssumption DEF Inv, TypeOK
<1>3. deposited[a] = pending[a] + controlled[a] + claimable[a] + paid[a] + refunded[a]
    BY Zenon DEF Conservation
<1> QED
    BY SMTT(30), <1>1, <1>2, <1>3 DEF Moved

\* Every unit deposited is pending, controlled, claimable, paid or refunded,
\* whatever the application, the exit binding and the amounts.
THEOREM ValueConserved == Spec => []Conservation
<1>1. Init => Conservation
    BY DEF Init, Conservation, Nothing
<1> QED
    BY <1>1, InvInit, InvNext, ConservationNext, PTL DEF Spec

-----------------------------------------------------------------------------
(* Closing *)

\* Only a batch touches controlled escrow, and no batch follows the closing one.
LEMMA ClosedNext == Inv /\ ClosedRoomIsEmpty /\ [Next]_vars => ClosedRoomIsEmpty'
<1> SUFFICES ASSUME Inv, ClosedRoomIsEmpty, [Next]_vars PROVE ClosedRoomIsEmpty'
    BY Zenon
<1>1. ASSUME UNCHANGED <<phase, controlled>> PROVE ClosedRoomIsEmpty'
    BY <1>1, Zenon DEF ClosedRoomIsEmpty
<1>2. ASSUME NEW b \in Assets, NEW x \in Accounts, NEW m \in Amounts, Deposit(b, x, m)
      PROVE  ClosedRoomIsEmpty'
    BY <1>1, <1>2, Zenon DEF Deposit
<1>3. ASSUME NEW i \in DOMAIN inbox, Refund(i) PROVE ClosedRoomIsEmpty'
    BY <1>1, <1>3, Zenon DEF Refund
<1>4. ASSUME NEW leaf \in outbox, Claim(leaf) PROVE ClosedRoomIsEmpty'
    BY <1>1, <1>4, Zenon DEF Claim
<1>5. ASSUME NEW k, NEW fees, NEW effect, NEW seen, NEW close,
             Batch(k, fees, effect, seen, close)
      PROVE  ClosedRoomIsEmpty'
  <2> SUFFICES ASSUME phase' = "closed", NEW a \in Assets PROVE controlled'[a] = 0
    BY Zenon DEF ClosedRoomIsEmpty
  <2> DEFINE c == Consumed(a, k)
             w == SumOf(Leaves(k, effect.queue, effect.balance, seen, close), a)
  <2>1. close
    BY <1>5, Zenon DEF Batch
  <2>2. controlled'[a] = controlled[a] + c - w
    BY <1>5, Zenon DEF Batch, ControlledAfter
  <2>3. c \in Nat /\ w = controlled[a] + c
    <3>1. Conserves(a, c, w, close)
      BY <1>5, Zenon DEF Batch
    <3> HIDE DEF c, w
    <3>2. c \in 0 .. pending[a] /\ w = controlled[a] + c
      BY <2>1, <3>1, Zenon DEF Conserves
    <3>3. pending[a] \in Nat
      BY EscrowAssumption DEF Inv, TypeOK
    <3> QED
      BY <3>2, <3>3
  <2>4. controlled[a] \in Nat
    BY EscrowAssumption DEF Inv, TypeOK
  <2> HIDE DEF c, w
  <2> QED
    BY <2>2, <2>3, <2>4
<1>6. CASE UNCHANGED vars
    BY <1>1, <1>6, Zenon DEF vars, liabilities
<1> QED
    BY <1>2, <1>3, <1>4, <1>5, <1>6, Zenon DEF Next

\* A room that closed controls no escrow, and never does again.
THEOREM ClosedIsEmpty == Spec => []ClosedRoomIsEmpty
<1>1. Init => ClosedRoomIsEmpty
    BY Zenon DEF Init, ClosedRoomIsEmpty
<1> QED
    BY <1>1, InvInit, InvNext, ClosedNext, PTL DEF Spec

-----------------------------------------------------------------------------
(* Exit records *)

Records == [recipient : Accounts, asset : Assets, amount : Nat]

\* A leaf of the i-th record exists exactly when there is an i-th record, once.
Minted ==
    /\ queue \in Seq(Records)
    /\ \A i \in 1 .. Len(queue) : \E leaf \in outbox :
         /\ leaf.from = <<"record", i>>
         /\ \A other \in outbox : other.from = <<"record", i>> => other = leaf
    /\ \A leaf \in outbox : \A i : leaf.from = <<"record", i>> => i \in 1 .. Len(queue)

\* Whatever the application does, it leaves a queue of records.
LEMMA EffectsQueue ==
    ASSUME queue \in Seq(Records), NEW before, NEW effect \in Effects(before)
    PROVE  effect.queue \in Seq(Records)
<1>1. ASSUME NEW m \in Moves
      PROVE  Exit(m) \in Records /\ [Exit(m) EXCEPT !.amount = 0] \in Records
    BY EscrowAssumption, Zenon DEF Moves, Exit, Records
<1>2. ASSUME NEW after, NEW queueAfter, effect = Effect(after, queueAfter)
      PROVE  effect.queue = queueAfter
    BY <1>2, Zenon DEF Effect
<1>3. \/ effect.queue = queue
      \/ effect.queue = <<>>
      \/ \E m \in Moves : effect.queue = Append(queue, Exit(m))
      \/ \E m \in Moves : effect.queue = queue \o <<Exit(m), Exit(m)>>
      \/ \E m \in Moves : effect.queue = Append(queue, [Exit(m) EXCEPT !.amount = 0])
  <2>1. CASE effect \in HonestEffects(before)
    BY <1>2, <2>1, Zenon DEF HonestEffects
  <2>2. CASE effect \in OtherEffects(before)
    BY <1>2, <2>2, Zenon DEF OtherEffects
  <2> QED
    BY <2>1, <2>2, Zenon DEF Effects
<1>4. ASSUME NEW r \in Records
      PROVE  Append(queue, r) \in Seq(Records) /\ queue \o <<r, r>> \in Seq(Records)
  <2>1. <<r, r>> \in Seq(Records)
    OBVIOUS
  <2> QED
    BY <2>1, SeqAppend, SeqConcat, Zenon
<1>5. <<>> \in Seq(Records)
    BY SeqEmpty, Zenon
<1> QED
    BY <1>1, <1>3, <1>4, <1>5, Zenon

\* The leaves of a batch that stand for a record are those of the records it appended.
LEMMA LeavesOfRecords ==
    ASSUME NEW k, NEW queueAfter, NEW after, NEW seen, NEW close
    PROVE  \A i : {leaf \in Leaves(k, queueAfter, after, seen, close) : leaf.from = <<"record", i>>}
                  = IF i \in Len(queue) + 1 .. Len(queueAfter)
                    THEN {RecordLeaf(i, queueAfter[i])} ELSE {}
<1>1. ASSUME NEW a, NEW residual, NEW swept, NEW leaf \in Sweep(a, residual, after, swept), NEW i
      PROVE  leaf.from # <<"record", i>>
    BY DEF Sweep, Shares
<1>2. ASSUME NEW i, NEW leaf \in Leaves(k, queueAfter, after, seen, close), leaf.from = <<"record", i>>
      PROVE  leaf \in RecordLeaves(queueAfter)
  <2>1. ASSUME leaf \notin RecordLeaves(queueAfter)
        PROVE  \E a \in Bound :
                 leaf \in Sweep(a, Residual(a, k, queueAfter), after, CodeFree \cap seen)
    BY <1>2, <2>1, Zenon DEF Leaves
  <2> QED
    BY <1>1, <1>2, <2>1, Zenon
<1>3. \A i, j, r : RecordLeaf(j, r).from = <<"record", i>> <=> i = j
    BY Zenon DEF RecordLeaf
<1>4. RecordLeaves(queueAfter) \subseteq Leaves(k, queueAfter, after, seen, close)
    BY Zenon DEF Leaves
<1> DEFINE range == Len(queue) + 1 .. Len(queueAfter)
<1>5. RecordLeaves(queueAfter) = {RecordLeaf(j, queueAfter[j]) : j \in range}
    BY Zenon DEF RecordLeaves
<1> HIDE DEF range
<1> SUFFICES ASSUME NEW i
             PROVE  {leaf \in Leaves(k, queueAfter, after, seen, close) : leaf.from = <<"record", i>>}
                    = IF i \in range THEN {RecordLeaf(i, queueAfter[i])} ELSE {}
    BY Zenon DEF range
<1>6. ASSUME NEW leaf \in Leaves(k, queueAfter, after, seen, close), leaf.from = <<"record", i>>
      PROVE  i \in range /\ leaf = RecordLeaf(i, queueAfter[i])
  <2>1. PICK j \in range : leaf = RecordLeaf(j, queueAfter[j])
    BY <1>2, <1>5, <1>6, Zenon
  <2>2. i = j
    BY <1>3, <1>6, <2>1, Zenon
  <2> QED
    BY <2>1, <2>2, Zenon
<1>7. ASSUME i \in range
      PROVE  /\ RecordLeaf(i, queueAfter[i]) \in Leaves(k, queueAfter, after, seen, close)
             /\ RecordLeaf(i, queueAfter[i]).from = <<"record", i>>
    BY <1>3, <1>4, <1>5, <1>7, Zenon
<1> QED
    BY <1>6, <1>7, Zenon

\* An empty room has no records and no leaves.
LEMMA MintedInit == Init => Minted
BY SeqEmpty DEF Init, Minted

\* A batch mints the records it appended and no other; the other steps none.
LEMMA MintedNext == Minted /\ [Next]_vars => Minted'
<1> SUFFICES ASSUME Minted, [Next]_vars PROVE Minted'
    BY Zenon
<1>1. ASSUME UNCHANGED <<queue, outbox>> PROVE Minted'
    BY <1>1, Zenon DEF Minted
<1>2. ASSUME NEW k, NEW close, NEW fees, NEW effect \in Effects(Credited(k, fees)),
             NEW seen \in Recordings(Credited(k, fees), effect.balance),
             Batch(k, fees, effect, seen, close)
      PROVE  Minted'
  <2> DEFINE leaves == Leaves(k, effect.queue, effect.balance, seen, close)
  <2>1. queue' \in Seq(Records) /\ queue' = effect.queue /\ outbox' = outbox \cup leaves
    BY <1>2, EffectsQueue, Zenon DEF Batch, Minted
  <2>2. Len(queue) \in Nat /\ Len(queue') \in Nat /\ Len(queue') >= Len(queue)
    BY <1>2, <2>1, SeqFacts, Zenon DEF Batch, Provable, ReadableRecords, Minted
  <2>3. \A i : {leaf \in leaves : leaf.from = <<"record", i>>}
              = IF i \in Len(queue) + 1 .. Len(queue') THEN {RecordLeaf(i, queue'[i])} ELSE {}
    <3>1. \A i : {leaf \in leaves : leaf.from = <<"record", i>>}
                = IF i \in Len(queue) + 1 .. Len(effect.queue)
                  THEN {RecordLeaf(i, effect.queue[i])} ELSE {}
      BY LeavesOfRecords, ZenonT(60)
    <3> HIDE DEF leaves
    <3> QED
      BY <2>1, <3>1, Zenon
  <2> HIDE DEF leaves
  <2>4. ASSUME NEW i \in 1 .. Len(queue')
        PROVE  \E leaf \in outbox' :
                 /\ leaf.from = <<"record", i>>
                 /\ \A other \in outbox' : other.from = <<"record", i>> => other = leaf
    <3>1. CASE i \in 1 .. Len(queue)
      <4>1. i \notin Len(queue) + 1 .. Len(queue')
        BY <2>2, <3>1
      <4>2. \A leaf \in leaves : leaf.from # <<"record", i>>
        BY <2>3, <4>1, Zenon
      <4> QED
        BY <2>1, <3>1, <4>2, Zenon DEF Minted
    <3>2. CASE i \notin 1 .. Len(queue)
      <4>1. i \in Len(queue) + 1 .. Len(queue')
        BY <2>2, <2>4, <3>2
      <4>2. {leaf \in leaves : leaf.from = <<"record", i>>} = {RecordLeaf(i, queue'[i])}
        BY <2>3, <4>1, Zenon
      <4>3. \A leaf \in outbox : leaf.from # <<"record", i>>
        BY <3>2, Zenon DEF Minted
      <4> DEFINE minted == RecordLeaf(i, queue'[i])
      <4>4. minted \in leaves /\ minted.from = <<"record", i>>
        BY <4>2, Zenon
      <4>5. \A other \in leaves : other.from = <<"record", i>> => other = minted
        BY <4>2, Zenon
      <4> HIDE DEF minted
      <4>6. minted \in outbox'
        BY <2>1, <4>4, Zenon
      <4>7. \A other \in outbox' : other.from = <<"record", i>> => other = minted
        BY <2>1, <4>3, <4>5, Zenon
      <4> QED
        BY <4>4, <4>6, <4>7, Zenon
    <3> QED
      BY <3>1, <3>2, Zenon
  <2>5. ASSUME NEW leaf \in outbox', NEW i, leaf.from = <<"record", i>>
        PROVE  i \in 1 .. Len(queue')
    <3>1. CASE leaf \in outbox
      <4>1. i \in 1 .. Len(queue)
        BY <2>5, <3>1, Zenon DEF Minted
      <4> QED
        BY <2>2, <4>1
    <3>2. CASE leaf \in leaves
      <4>1. i \in Len(queue) + 1 .. Len(queue')
        BY <2>3, <2>5, <3>2, Zenon
      <4> QED
        BY <2>2, <4>1
    <3> QED
      BY <2>1, <3>1, <3>2, Zenon
  <2> QED
    BY <2>1, <2>4, <2>5, Zenon DEF Minted
<1>3. ASSUME NEW a \in Assets, NEW x \in Accounts, NEW m \in Amounts, Deposit(a, x, m)
      PROVE  Minted'
    BY <1>1, <1>3, Zenon DEF Deposit
<1>4. ASSUME NEW i \in DOMAIN inbox, Refund(i) PROVE Minted'
    BY <1>1, <1>4, Zenon DEF Refund
<1>5. ASSUME NEW leaf \in outbox, Claim(leaf) PROVE Minted'
    BY <1>1, <1>5, Zenon DEF Claim
<1>6. CASE UNCHANGED vars
    BY <1>1, <1>6, Zenon DEF vars
<1> QED
    BY <1>2, <1>3, <1>4, <1>5, <1>6, Zenon DEF Next

-----------------------------------------------------------------------------
(* Facts about finite sets *)

INSTANCE WellFoundedInduction

\* A non-empty set of naturals has a least member.
LEMMA LeastNat ==
    ASSUME NEW T \in SUBSET Nat, T # {}
    PROVE  \E n \in T : \A m \in T : n <= m
<1>1. PICK n \in T : \A m \in T : <<m, n>> \notin OpToRel(<, Nat)
    BY NatLessThanWellFounded, WFMin, Zenon
<1>2. \A m \in T : ~ (m < n)
    BY <1>1, Zenon DEF OpToRel
<1> QED
    BY <1>2

\* A sequence of length n lists the set S.
Lists(S, n) == \E s \in [1 .. n -> S] : \A x \in S : \E i \in 1 .. n : s[i] = x

\* A set is finite when some sequence lists it.
LEMMA FiniteIsListed == ASSUME NEW S PROVE IsFiniteSet(S) <=> \E n \in Nat : Lists(S, n)
<1>1. ASSUME IsFiniteSet(S) PROVE \E n \in Nat : Lists(S, n)
  <2>1. PICK s \in Seq(S) : \A x \in S : \E i \in 1 .. Len(s) : s[i] = x
    BY <1>1, Zenon DEF IsFiniteSet
  <2>2. Len(s) \in Nat /\ s \in [1 .. Len(s) -> S]
    OBVIOUS
  <2> QED
    BY <2>1, <2>2, Zenon DEF Lists
<1>2. ASSUME NEW n \in Nat, Lists(S, n) PROVE IsFiniteSet(S)
  <2>1. PICK s \in [1 .. n -> S] : \A x \in S : \E i \in 1 .. n : s[i] = x
    BY <1>2, Zenon DEF Lists
  <2>2. s \in Seq(S) /\ Len(s) = n
    OBVIOUS
  <2> QED
    BY <2>1, <2>2, Zenon DEF IsFiniteSet
<1> QED
    BY <1>1, <1>2, Zenon

\* A smaller set is listed by a shorter sequence.
LEMMA ListsLess ==
    ASSUME NEW S, NEW n \in Nat, Lists(S, n), NEW U \in SUBSET S, U # S, U # {}
    PROVE  n > 0 /\ Lists(U, n - 1)
<1>1. PICK s \in [1 .. n -> S] : \A x \in S : \E i \in 1 .. n : s[i] = x
    BY Zenon DEF Lists
<1>2. PICK x \in S : x \notin U
    BY Zenon
<1>3. PICK j \in 1 .. n : s[j] = x
    BY <1>1, Zenon
<1>4. PICK u \in U : TRUE
    BY Zenon
<1> DEFINE at(i) == IF i < j THEN i ELSE i + 1
           t == [i \in 1 .. n - 1 |-> IF s[at(i)] \in U THEN s[at(i)] ELSE u]
<1>5. t \in [1 .. n - 1 -> U]
    BY Zenon
<1>6. ASSUME NEW y \in U PROVE \E i \in 1 .. n - 1 : t[i] = y
  <2>1. PICK k \in 1 .. n : s[k] = y
    BY <1>1, Zenon
  <2>2. k # j
    BY <1>2, <1>3, <2>1, Zenon
  <2>3. CASE k < j
    <3>1. k \in 1 .. n - 1 /\ at(k) = k
      BY <2>3
    <3> QED
      BY <2>1, <3>1, Zenon
  <2>4. CASE k > j
    <3>1. k - 1 \in 1 .. n - 1 /\ at(k - 1) = k
      BY <2>4
    <3> QED
      BY <2>1, <3>1, Zenon
  <2> QED
    BY <2>2, <2>3, <2>4
<1> HIDE DEF t
<1>7. Lists(U, n - 1)
    BY <1>5, <1>6, Zenon DEF Lists
<1> QED
    BY <1>3, <1>7

\* A part of a finite set is finite.
LEMMA FiniteSubset ==
    ASSUME NEW S, IsFiniteSet(S), NEW U \in SUBSET S
    PROVE  IsFiniteSet(U)
<1>1. CASE U = {}
  <2>1. Lists(U, 0)
    <3>1. <<>> \in [1 .. 0 -> U]
      OBVIOUS
    <3> QED
      BY <1>1, <3>1, Zenon DEF Lists
  <2> QED
    BY <2>1, FiniteIsListed, Zenon
<1>2. CASE U = S
    BY <1>2, Zenon
<1>3. CASE U # {} /\ U # S
  <2>1. PICK n \in Nat : Lists(S, n)
    BY FiniteIsListed, Zenon
  <2>2. n - 1 \in Nat /\ Lists(U, n - 1)
    BY <1>3, <2>1, ListsLess
  <2> QED
    BY <2>2, FiniteIsListed, Zenon
<1> QED
    BY <1>1, <1>2, <1>3, Zenon

\* A family of parts of a finite set has a minimal member.
LEMMA MinimalSubset ==
    ASSUME NEW S, IsFiniteSet(S), NEW B \in SUBSET (SUBSET S), B # {}
    PROVE  \E T \in B : \A U \in B : U \subseteq T => U = T
<1>1. CASE {} \in B
    BY <1>1, Zenon
<1>2. CASE {} \notin B
  <2> DEFINE N == {n \in Nat : \E T \in B : Lists(T, n)}
  <2>1. N # {}
    <3>1. PICK T \in B : TRUE
      BY Zenon
    <3>2. IsFiniteSet(T)
      BY FiniteSubset, Zenon
    <3> QED
      BY <3>2, FiniteIsListed, Zenon
  <2>2. PICK n \in N : \A m \in N : n <= m
    BY <2>1, LeastNat, Zenon
  <2>3. PICK T \in B : Lists(T, n)
    BY <2>2, Zenon
  <2>4. ASSUME NEW U \in B, U \subseteq T, U # T PROVE FALSE
    <3>1. n > 0 /\ Lists(U, n - 1)
      BY <1>2, <2>2, <2>3, <2>4, ListsLess, Zenon
    <3>2. n - 1 \in N
      BY <3>1
    <3> QED
      BY <2>2, <3>2
  <2> QED
    BY <2>4, Zenon
<1> QED
    BY <1>1, <1>2, Zenon

\* The empty set is finite.
LEMMA FiniteEmpty == IsFiniteSet({})
<1>1. <<>> \in Seq({})
    OBVIOUS
<1> QED
    BY <1>1, Zenon DEF IsFiniteSet

\* A finite set with one more element is finite.
LEMMA FiniteAdd ==
    ASSUME NEW S, IsFiniteSet(S), NEW x
    PROVE  IsFiniteSet(S \cup {x})
<1>1. PICK s \in Seq(S) : \A y \in S : \E i \in 1 .. Len(s) : s[i] = y
    BY Zenon DEF IsFiniteSet
<1>2. Append(s, x) \in Seq(S \cup {x}) /\ Len(Append(s, x)) = Len(s) + 1
    OBVIOUS
<1>3. \A y \in S \cup {x} : \E i \in 1 .. Len(s) + 1 : Append(s, x)[i] = y
  <2>1. Len(s) + 1 \in 1 .. Len(s) + 1 /\ Append(s, x)[Len(s) + 1] = x
    OBVIOUS
  <2>2. \A i \in 1 .. Len(s) : i \in 1 .. Len(s) + 1 /\ Append(s, x)[i] = s[i]
    OBVIOUS
  <2> QED
    BY <1>1, <2>1, <2>2, Zenon
<1> DEFINE t == Append(s, x)
<1>4. t \in Seq(S \cup {x}) /\ \A y \in S \cup {x} : \E i \in 1 .. Len(t) : t[i] = y
    BY <1>2, <1>3, Zenon
<1> HIDE DEF t
<1> QED
    BY <1>4, Zenon DEF IsFiniteSet

\* The union of two finite sets is finite.
LEMMA FiniteUnion ==
    ASSUME NEW S, IsFiniteSet(S), NEW T, IsFiniteSet(T)
    PROVE  IsFiniteSet(S \cup T)
<1> DEFINE Bad == {U \in SUBSET T : ~IsFiniteSet(S \cup U)}
<1> SUFFICES ASSUME Bad # {} PROVE FALSE
    BY Zenon
<1>1. PICK U \in Bad : \A V \in Bad : V \subseteq U => V = U
  <2>1. Bad \in SUBSET (SUBSET T)
    BY Zenon
  <2> HIDE DEF Bad
  <2> QED
    BY <2>1, MinimalSubset
<1>2. PICK x : x \in U
  <2>1. CASE U = {}
    <3>1. S \cup U = S
      BY <2>1, Zenon
    <3> QED
      BY <1>1, <3>1, Zenon
  <2> QED
    BY <2>1, Zenon
<1>3. IsFiniteSet(S \cup (U \ {x}))
    BY <1>1, <1>2, Zenon
<1>4. S \cup U = (S \cup (U \ {x})) \cup {x}
    BY <1>2, Zenon
<1>5. IsFiniteSet((S \cup (U \ {x})) \cup {x})
    BY <1>3, FiniteAdd, Zenon
<1> QED
    BY <1>1, <1>4, <1>5, Zenon

\* The naturals from m to n are finitely many.
LEMMA FiniteInterval ==
    ASSUME NEW m \in Nat \ {0}, NEW n \in Nat
    PROVE  IsFiniteSet(m .. n)
<1>1. Lists(1 .. n, n)
  <2> DEFINE id == [i \in 1 .. n |-> i]
  <2>1. id \in [1 .. n -> 1 .. n] /\ \A x \in 1 .. n : id[x] = x
    BY Zenon
  <2> QED
    BY <2>1, Zenon DEF Lists
<1>2. IsFiniteSet(1 .. n) /\ m .. n \in SUBSET (1 .. n)
    BY <1>1, FiniteIsListed
<1> QED
    BY <1>2, FiniteSubset, Zenon

\* The image of a finite set is finite.
LEMMA FiniteImage ==
    ASSUME NEW S, IsFiniteSet(S), NEW g
    PROVE  IsFiniteSet({g[x] : x \in S})
<1>1. PICK n \in Nat : Lists(S, n)
    BY FiniteIsListed, Zenon
<1>2. PICK s \in [1 .. n -> S] : \A x \in S : \E i \in 1 .. n : s[i] = x
    BY <1>1, Zenon DEF Lists
<1> DEFINE G == {g[x] : x \in S}
           t == [i \in 1 .. n |-> g[s[i]]]
<1>3. t \in [1 .. n -> G]
    BY <1>2, Zenon
<1>4. \A y \in G : \E i \in 1 .. n : t[i] = y
    BY <1>2
<1> HIDE DEF G, t
<1>5. Lists(G, n)
    BY <1>3, <1>4, Zenon DEF Lists
<1> QED
    BY <1>5, FiniteIsListed, Zenon DEF G

\* The union of finitely many finite sets is finite.
LEMMA FiniteFamily ==
    ASSUME NEW F, IsFiniteSet(F), \A S \in F : IsFiniteSet(S)
    PROVE  IsFiniteSet(UNION F)
<1> DEFINE Bad == {G \in SUBSET F : ~IsFiniteSet(UNION G)}
<1> SUFFICES ASSUME Bad # {} PROVE FALSE
    BY Zenon
<1>1. PICK G \in Bad : \A H \in Bad : H \subseteq G => H = G
  <2>1. Bad \in SUBSET (SUBSET F)
    BY Zenon
  <2> HIDE DEF Bad
  <2> QED
    BY <2>1, MinimalSubset
<1>2. PICK S : S \in G
  <2>1. CASE G = {}
    <3>1. UNION G = {}
      BY <2>1, Zenon
    <3> QED
      BY <1>1, <3>1, FiniteEmpty, Zenon
  <2> QED
    BY <2>1, Zenon
<1>3. IsFiniteSet(UNION (G \ {S})) /\ IsFiniteSet(S)
    BY <1>1, <1>2, Zenon
<1> DEFINE all == UNION G
           rest == UNION (G \ {S})
<1>4. ASSUME NEW z \in all, z \notin S PROVE z \in rest
  <2>1. PICK T \in G : z \in T
    BY <1>4, Zenon
  <2>2. T \in G \ {S}
    BY <1>4, <2>1, Zenon
  <2> QED
    BY <2>1, <2>2, Zenon
<1>5. IsFiniteSet(rest) /\ IsFiniteSet(S) /\ ~IsFiniteSet(all)
    BY <1>1, <1>3, Zenon
<1> HIDE DEF all, rest, Bad
<1>6. IsFiniteSet(rest \cup S) /\ all \in SUBSET (rest \cup S)
    BY <1>4, <1>5, FiniteUnion, Zenon
<1> QED
    BY <1>5, <1>6, FiniteSubset, Zenon

\* A set of one element is finite, and has cardinality 1.
LEMMA SingletonSize == ASSUME NEW x PROVE IsFiniteSet({x}) /\ Cardinality({x}) = 1
<1> DEFINE IsCS(g) == g = [T \in SUBSET {x} |-> IF T = {} THEN 0
                                                ELSE 1 + g[T \ {CHOOSE y : y \in T}]]
           size == [T \in SUBSET {x} |-> IF T = {} THEN 0 ELSE 1]
           CS == CHOOSE g : IsCS(g)
<1>1. ASSUME NEW T \in SUBSET {x}, T # {} PROVE T \ {CHOOSE y : y \in T} = {} /\ {} \in SUBSET {x}
  <2>1. (CHOOSE y : y \in T) \in T
    BY <1>1, Zenon
  <2> QED
    BY <2>1, Zenon
<1>2. IsCS(size)
  <2>1. \A T \in SUBSET {x} : T # {} => size[T \ {CHOOSE y : y \in T}] = 0
    BY <1>1, Zenon
  <2> QED
    BY <2>1
<1>3. IsCS(CS)
  <2> HIDE DEF IsCS
  <2> QED
    BY <1>2, Zenon
<1>4. CS[{x}] = 1 + CS[{x} \ {CHOOSE y : y \in {x}}] /\ CS[{}] = 0
  <2> HIDE DEF CS
  <2> QED
    BY <1>3, Zenon
<1>5. CS[{x}] = 1
  <2>1. {x} \ {CHOOSE y : y \in {x}} = {}
    BY <1>1, Zenon
  <2> HIDE DEF CS
  <2>2. CS[{x}] = 1 + CS[{}]
    BY <1>4, <2>1, Zenon
  <2> QED
    BY <1>4, <2>2
<1>6. Cardinality({x}) = CS[{x}]
    BY Zenon DEF Cardinality
<1>7. IsFiniteSet({x})
  <2>1. {} \cup {x} = {x}
    BY Zenon
  <2> QED
    BY <2>1, FiniteEmpty, FiniteAdd, Zenon
<1> HIDE DEF CS
<1> QED
    BY <1>5, <1>6, <1>7, Zenon


\* Every record of the exit queue is one withdrawal leaf, whichever batch wrote it
\* and however the application rewrites its storage afterwards.
THEOREM RecordsMinted == Spec => []RecordsMintedOnce
<1>1. Init => Minted
    BY MintedInit, Zenon
<1>2. Minted => RecordsMintedOnce
  <2> SUFFICES ASSUME Minted, NEW i \in DOMAIN queue
               PROVE  Cardinality({leaf \in outbox : leaf.from = <<"record", i>>}) = 1
    BY Zenon DEF RecordsMintedOnce
  <2>1. i \in 1 .. Len(queue)
    BY SeqFacts, Zenon DEF Minted
  <2>2. PICK leaf \in outbox :
          /\ leaf.from = <<"record", i>>
          /\ \A other \in outbox : other.from = <<"record", i>> => other = leaf
    BY <2>1, Zenon DEF Minted
  <2>3. {l \in outbox : l.from = <<"record", i>>} = {leaf}
    BY <2>2, Zenon
  <2> QED
    BY <2>3, SingletonSize, Zenon
<1> QED
    BY <1>1, <1>2, MintedNext, PTL DEF Spec

-----------------------------------------------------------------------------
(* Sums over finite sets *)

AnyOf(s) == CHOOSE x \in s : TRUE

\* The function by which SumFunctionOnSet adds up: sum[s] for each part s of S.
PartSums(sum, f, S) ==
    sum = [s \in SUBSET S |-> IF s = {} THEN 0 ELSE f[AnyOf(s)] + sum[s \ {AnyOf(s)}]]

\* Two such functions agree where both are defined.
LEMMA PartSumsAgree ==
    ASSUME NEW f, NEW S, NEW T, IsFiniteSet(S), NEW g, NEW h,
           PartSums(g, f, S), PartSums(h, f, T), NEW U \in SUBSET S, U \in SUBSET T
    PROVE  g[U] = h[U]
<1> DEFINE Bad == {V \in SUBSET U : g[V] # h[V]}
<1> SUFFICES ASSUME Bad # {} PROVE FALSE
    BY Zenon
<1>1. IsFiniteSet(U)
    BY FiniteSubset, Zenon
<1>2. PICK V \in Bad : \A W \in Bad : W \subseteq V => W = V
  <2>1. Bad \in SUBSET (SUBSET U)
    BY Zenon
  <2> HIDE DEF Bad
  <2> QED
    BY <1>1, <2>1, MinimalSubset
<1>3. V \in SUBSET S /\ V \in SUBSET T /\ V \in SUBSET U /\ g[V] # h[V]
    BY <1>2, Zenon
<1>4. /\ g[V] = IF V = {} THEN 0 ELSE f[AnyOf(V)] + g[V \ {AnyOf(V)}]
      /\ h[V] = IF V = {} THEN 0 ELSE f[AnyOf(V)] + h[V \ {AnyOf(V)}]
    BY <1>3, Zenon DEF PartSums
<1>5. V # {}
    BY <1>3, <1>4, Zenon
<1>6. AnyOf(V) \in V
    BY <1>5, Zenon DEF AnyOf
<1>7. g[V \ {AnyOf(V)}] = h[V \ {AnyOf(V)}]
    BY <1>2, <1>6
<1> QED
    BY <1>3, <1>4, <1>7, Zenon

\* A finite set has such a function.
LEMMA PartSumsExist ==
    ASSUME NEW f, NEW S, IsFiniteSet(S)
    PROVE  \E sum : PartSums(sum, f, S)
<1> DEFINE Bad == {T \in SUBSET S : ~ \E sum : PartSums(sum, f, T)}
<1> SUFFICES ASSUME Bad # {} PROVE FALSE
    BY Zenon
<1>1. PICK T \in Bad : \A U \in Bad : U \subseteq T => U = T
  <2>1. Bad \in SUBSET (SUBSET S)
    BY Zenon
  <2> HIDE DEF Bad
  <2> QED
    BY <2>1, MinimalSubset
<1> DEFINE Whole(s) == CHOOSE sum : PartSums(sum, f, s)
           all == [s \in SUBSET T |-> IF s = {} THEN 0
                                       ELSE f[AnyOf(s)] + Whole(s \ {AnyOf(s)})[s \ {AnyOf(s)}]]
<1>2. ASSUME NEW s \in SUBSET T, s # T PROVE PartSums(Whole(s), f, s) /\ IsFiniteSet(s)
  <2>1. \E sum : PartSums(sum, f, s)
    BY <1>1, <1>2, Zenon
  <2>2. IsFiniteSet(s)
    BY <1>1, FiniteSubset, Zenon
  <2> QED
    BY <2>1, <2>2, Zenon
<1>3. ASSUME NEW s \in SUBSET T, s # T PROVE all[s] = Whole(s)[s]
  <2>1. Whole(s)[s] = IF s = {} THEN 0 ELSE f[AnyOf(s)] + Whole(s)[s \ {AnyOf(s)}]
    <3>1. PartSums(Whole(s), f, s)
      BY <1>2, <1>3, Zenon
    <3> HIDE DEF Whole
    <3> QED
      BY <3>1, Zenon DEF PartSums
  <2>2. CASE s = {}
    BY <2>1, <2>2, Zenon
  <2>3. CASE s # {}
    <3> DEFINE r == s \ {AnyOf(s)}
    <3>1. AnyOf(s) \in s
      BY <2>3, Zenon DEF AnyOf
    <3>2. r \in SUBSET T /\ r # T /\ r \in SUBSET s /\ r \in SUBSET r
      BY <3>1, Zenon
    <3>3. PartSums(Whole(r), f, r) /\ PartSums(Whole(s), f, s) /\ IsFiniteSet(s)
      BY <1>2, <1>3, <3>2, Zenon
    <3> HIDE DEF r, Whole
    <3>4. Whole(s)[r] = Whole(r)[r]
      BY <3>2, <3>3, PartSumsAgree, SMTT(60)
    <3> QED
      BY <2>1, <2>3, <3>4, Zenon DEF r
  <2> QED
    BY <2>2, <2>3, Zenon
<1>4. ASSUME NEW s \in SUBSET T
      PROVE  all[s] = IF s = {} THEN 0 ELSE f[AnyOf(s)] + all[s \ {AnyOf(s)}]
  <2>1. CASE s = {}
    BY <2>1, Zenon
  <2>2. CASE s # {}
    <3>1. AnyOf(s) \in s
      BY <2>2, Zenon DEF AnyOf
    <3>2. s \ {AnyOf(s)} \in SUBSET T /\ s \ {AnyOf(s)} # T
      BY <3>1, Zenon
    <3>3. all[s \ {AnyOf(s)}] = Whole(s \ {AnyOf(s)})[s \ {AnyOf(s)}]
      BY <1>3, <3>2, Zenon
    <3> QED
      BY <2>2, <3>3
  <2> QED
    BY <2>1, <2>2, Zenon
<1>5. all = [s \in SUBSET T |-> all[s]]
    OBVIOUS
<1> HIDE DEF all
<1>6. PartSums(all, f, T)
    BY <1>4, <1>5, Zenon DEF PartSums
<1> QED
    BY <1>1, <1>6, Zenon

\* A sum is an element's value and the sum of the rest, the element being the
\* one CHOOSE takes.
LEMMA SumUnfold ==
    ASSUME NEW f, NEW S, IsFiniteSet(S)
    PROVE  SumFunctionOnSet(f, S) =
             IF S = {} THEN 0
             ELSE f[AnyOf(S)] + SumFunctionOnSet(f, S \ {AnyOf(S)})
<1>1. ASSUME NEW T, IsFiniteSet(T)
      PROVE  \E sum : PartSums(sum, f, T) /\ SumFunctionOnSet(f, T) = sum[T]
  <2> DEFINE Is(sum) == sum = [s \in SUBSET T |->
                IF s = {} THEN 0
                ELSE LET x == CHOOSE x \in s : TRUE IN f[x] + sum[s \ {x}]]
  <2>1. SumFunctionOnSet(f, T) = (CHOOSE sum : Is(sum))[T]
    BY Zenon DEF SumFunctionOnSet, FoldFunctionOnSet, MapThenFoldSet
  <2>2. ASSUME NEW sum PROVE Is(sum) <=> PartSums(sum, f, T)
    BY Zenon DEF PartSums, AnyOf
  <2> HIDE DEF Is
  <2>3. \E sum : Is(sum)
    BY <1>1, <2>2, PartSumsExist, Zenon
  <2>4. Is(CHOOSE sum : Is(sum))
    BY <2>3, Zenon
  <2> QED
    BY <2>1, <2>2, <2>4, Zenon
<1>2. PICK g : PartSums(g, f, S) /\ SumFunctionOnSet(f, S) = g[S]
    BY <1>1, Zenon
<1>3. g[S] = IF S = {} THEN 0 ELSE f[AnyOf(S)] + g[S \ {AnyOf(S)}]
    BY <1>2, Zenon DEF PartSums
<1>4. IsFiniteSet(S \ {AnyOf(S)})
    BY FiniteSubset, Zenon
<1> DEFINE R == S \ {AnyOf(S)}
<1>5. PICK h : PartSums(h, f, R) /\ SumFunctionOnSet(f, R) = h[R]
    BY <1>1, <1>4, Zenon
<1>6. g[R] = h[R]
  <2>1. R \in SUBSET S /\ R \in SUBSET R
    BY Zenon
  <2> HIDE DEF R
  <2> QED
    BY <1>2, <1>5, <2>1, PartSumsAgree
<1> QED
    BY <1>2, <1>3, <1>5, <1>6, Zenon

\* A sum of integers is an integer.
LEMMA SumInt ==
    ASSUME NEW f, NEW S, IsFiniteSet(S), \A x \in S : f[x] \in Int
    PROVE  SumFunctionOnSet(f, S) \in Int
<1> DEFINE Bad == {T \in SUBSET S : SumFunctionOnSet(f, T) \notin Int}
<1> SUFFICES ASSUME Bad # {} PROVE FALSE
    BY Zenon
<1>1. PICK T \in Bad : \A U \in Bad : U \subseteq T => U = T
  <2>1. Bad \in SUBSET (SUBSET S)
    BY Zenon
  <2> HIDE DEF Bad
  <2> QED
    BY <2>1, MinimalSubset
<1>2. IsFiniteSet(T) /\ T \subseteq S /\ SumFunctionOnSet(f, T) \notin Int
    BY <1>1, FiniteSubset, Zenon
<1>3. SumFunctionOnSet(f, T) = IF T = {} THEN 0
                               ELSE f[AnyOf(T)] + SumFunctionOnSet(f, T \ {AnyOf(T)})
    BY <1>2, SumUnfold, Zenon
<1>4. T # {} => AnyOf(T) \in T
    BY Zenon DEF AnyOf
<1>5. T # {} => SumFunctionOnSet(f, T \ {AnyOf(T)}) \in Int
    BY <1>1, <1>4
<1> QED
    BY <1>2, <1>3, <1>4, <1>5

\* The order of the additions does not matter: any element may come first.
LEMMA SumRemove ==
    ASSUME NEW f, NEW S, IsFiniteSet(S), \A x \in S : f[x] \in Int, NEW y \in S
    PROVE  SumFunctionOnSet(f, S) = f[y] + SumFunctionOnSet(f, S \ {y})
<1> DEFINE Sum(T) == SumFunctionOnSet(f, T)
           Bad == {T \in SUBSET S : \E z \in T : Sum(T) # f[z] + Sum(T \ {z})}
<1> SUFFICES ASSUME Bad # {} PROVE FALSE
    BY Zenon
<1>1. PICK T \in Bad : \A U \in Bad : U \subseteq T => U = T
  <2>1. Bad \in SUBSET (SUBSET S)
    BY Zenon
  <2> HIDE DEF Bad
  <2> QED
    BY <2>1, MinimalSubset
<1>2. T \in SUBSET S
    BY <1>1, Zenon
<1>3. PICK z \in T : Sum(T) # f[z] + Sum(T \ {z})
    BY <1>1, Zenon
<1> DEFINE x == AnyOf(T)
<1>4. x \in T
    BY <1>3, Zenon DEF AnyOf
<1>5. \A U \in SUBSET T : IsFiniteSet(U)
    BY <1>2, FiniteSubset, Zenon
<1>6. Sum(T) = f[x] + Sum(T \ {x})
    BY <1>3, <1>5, SumUnfold, Zenon
<1>7. ASSUME NEW U \in SUBSET T, U # T, NEW u \in U PROVE Sum(U) = f[u] + Sum(U \ {u})
  <2>1. U \notin Bad /\ U \in SUBSET S
    BY <1>1, <1>2, <1>7, Zenon
  <2> HIDE DEF Sum
  <2> QED
    BY <2>1, Zenon
<1>8. \A U \in SUBSET T : Sum(U) \in Int
    BY <1>2, <1>5, SumInt, Zenon
<1> HIDE DEF Sum, x, Bad
<1>9. x # z
    BY <1>3, <1>6, Zenon
<1>10. z \in T \ {x} /\ x \in T \ {z}
    BY <1>4, <1>9, Zenon
<1>11. Sum(T \ {x}) = f[z] + Sum((T \ {x}) \ {z})
    BY <1>4, <1>7, <1>10, Zenon
<1>12. Sum(T \ {z}) = f[x] + Sum((T \ {z}) \ {x})
    BY <1>7, <1>10, Zenon
<1>13. Sum((T \ {x}) \ {z}) = Sum((T \ {z}) \ {x})
  <2>1. (T \ {x}) \ {z} = (T \ {z}) \ {x}
    BY Zenon
  <2> QED
    BY <2>1, Zenon
<1>14. f[x] \in Int /\ f[z] \in Int /\ Sum((T \ {z}) \ {x}) \in Int
    BY <1>2, <1>4, <1>8, Zenon
<1> QED
    BY <1>3, <1>6, <1>11, <1>12, <1>13, <1>14

\* Nothing adds up to zero.
LEMMA SumEmpty ==
    ASSUME NEW f PROVE SumFunctionOnSet(f, {}) = 0
BY SumUnfold, FiniteEmpty, Zenon

\* Adding an element.
LEMMA SumInsert ==
    ASSUME NEW f, NEW S, IsFiniteSet(S), NEW y, y \notin S, \A x \in S \cup {y} : f[x] \in Int
    PROVE  SumFunctionOnSet(f, S \cup {y}) = SumFunctionOnSet(f, S) + f[y]
<1>1. IsFiniteSet(S \cup {y}) /\ (S \cup {y}) \ {y} = S
    BY FiniteAdd, Zenon
<1>2. SumFunctionOnSet(f, S \cup {y}) = f[y] + SumFunctionOnSet(f, S)
    BY <1>1, SumRemove
<1>3. SumFunctionOnSet(f, S) \in Int /\ f[y] \in Int
    BY SumInt, Zenon
<1> QED
    BY <1>2, <1>3

\* A sum of naturals is a natural, and sums compare as their terms do.
LEMMA SumMonotone ==
    ASSUME NEW f, NEW g, NEW S, IsFiniteSet(S),
           \A x \in S : f[x] \in Int /\ g[x] \in Int /\ f[x] <= g[x]
    PROVE  SumFunctionOnSet(f, S) <= SumFunctionOnSet(g, S)
<1> DEFINE Bad == {T \in SUBSET S : ~ (SumFunctionOnSet(f, T) <= SumFunctionOnSet(g, T))}
<1> SUFFICES ASSUME Bad # {} PROVE FALSE
    BY Zenon
<1>1. PICK T \in Bad : \A U \in Bad : U \subseteq T => U = T
  <2>1. Bad \in SUBSET (SUBSET S)
    BY Zenon
  <2> HIDE DEF Bad
  <2> QED
    BY <2>1, MinimalSubset
<1>2. IsFiniteSet(T) /\ T \subseteq S /\ ~ (SumFunctionOnSet(f, T) <= SumFunctionOnSet(g, T))
    BY <1>1, FiniteSubset, Zenon
<1>3. T # {}
    BY <1>2, SumEmpty
<1>4. PICK y : y \in T
    BY <1>3, Zenon
<1>5. /\ SumFunctionOnSet(f, T) = f[y] + SumFunctionOnSet(f, T \ {y})
      /\ SumFunctionOnSet(g, T) = g[y] + SumFunctionOnSet(g, T \ {y})
    BY <1>2, <1>4, SumRemove
<1>6. SumFunctionOnSet(f, T \ {y}) <= SumFunctionOnSet(g, T \ {y})
    BY <1>1, <1>4
<1>7. IsFiniteSet(T \ {y})
    BY <1>2, FiniteSubset, Zenon
<1>8. SumFunctionOnSet(f, T \ {y}) \in Int /\ SumFunctionOnSet(g, T \ {y}) \in Int
    BY <1>2, <1>7, SumInt, Zenon
<1> QED
    BY <1>2, <1>4, <1>5, <1>6, <1>8

\* A sum depends on the values it adds, and on nothing else.
LEMMA SumSame ==
    ASSUME NEW f, NEW g, NEW S, IsFiniteSet(S), \A x \in S : f[x] \in Int /\ f[x] = g[x]
    PROVE  SumFunctionOnSet(f, S) = SumFunctionOnSet(g, S)
<1>1. \A x \in S : g[x] \in Int /\ f[x] <= g[x] /\ g[x] <= f[x]
    OBVIOUS
<1>2. /\ SumFunctionOnSet(f, S) <= SumFunctionOnSet(g, S)
      /\ SumFunctionOnSet(g, S) <= SumFunctionOnSet(f, S)
    BY <1>1, SumMonotone, Zenon
<1>3. SumFunctionOnSet(f, S) \in Int /\ SumFunctionOnSet(g, S) \in Int
    BY <1>1, SumInt, Zenon
<1> QED
    BY <1>2, <1>3

\* A sum of naturals is a natural.
LEMMA SumNat ==
    ASSUME NEW f, NEW S, IsFiniteSet(S), \A x \in S : f[x] \in Nat
    PROVE  SumFunctionOnSet(f, S) \in Nat
<1> DEFINE Bad == {T \in SUBSET S : SumFunctionOnSet(f, T) \notin Nat}
<1> SUFFICES ASSUME Bad # {} PROVE FALSE
    BY Zenon
<1>1. PICK T \in Bad : \A U \in Bad : U \subseteq T => U = T
  <2>1. Bad \in SUBSET (SUBSET S)
    BY Zenon
  <2> HIDE DEF Bad
  <2> QED
    BY <2>1, MinimalSubset
<1>2. IsFiniteSet(T) /\ T \subseteq S /\ SumFunctionOnSet(f, T) \notin Nat
    BY <1>1, FiniteSubset, Zenon
<1>3. T # {}
    BY <1>2, SumEmpty
<1>4. PICK y : y \in T
    BY <1>3, Zenon
<1>5. SumFunctionOnSet(f, T) = f[y] + SumFunctionOnSet(f, T \ {y})
    BY <1>2, <1>4, SumRemove
<1>6. SumFunctionOnSet(f, T \ {y}) \in Nat
    BY <1>1, <1>4
<1> QED
    BY <1>2, <1>4, <1>5, <1>6

\* The sum over two disjoint sets.
LEMMA SumUnion ==
    ASSUME NEW f, NEW S, NEW T, IsFiniteSet(S), IsFiniteSet(T), S \cap T = {},
           \A x \in S \cup T : f[x] \in Int
    PROVE  SumFunctionOnSet(f, S \cup T) = SumFunctionOnSet(f, S) + SumFunctionOnSet(f, T)
<1> DEFINE Sum(U) == SumFunctionOnSet(f, U)
           Bad == {U \in SUBSET T : Sum(S \cup U) # Sum(S) + Sum(U)}
<1> SUFFICES ASSUME Bad # {} PROVE FALSE
    BY Zenon
<1>1. PICK U \in Bad : \A V \in Bad : V \subseteq U => V = U
  <2>1. Bad \in SUBSET (SUBSET T)
    BY Zenon
  <2> HIDE DEF Bad
  <2> QED
    BY <2>1, MinimalSubset
<1>2. U \in SUBSET T /\ Sum(S \cup U) # Sum(S) + Sum(U)
    BY <1>1, Zenon
<1>3. IsFiniteSet(U) /\ IsFiniteSet(S \cup U)
    BY <1>2, FiniteSubset, FiniteUnion, Zenon
<1>4. Sum(S) \in Int /\ Sum({}) = 0
    BY SumInt, SumEmpty, Zenon
<1>5. U # {}
  <2> HIDE DEF Sum
  <2> SUFFICES ASSUME U = {} PROVE FALSE
    BY Zenon
  <2>1. S \cup U = S
    BY Zenon
  <2>2. Sum(S \cup U) = Sum(S) /\ Sum(U) = 0
    BY <1>4, <2>1, Zenon
  <2> QED
    BY <1>2, <1>4, <2>2
<1>6. PICK y : y \in U
    BY <1>5, Zenon
<1>7. Sum(U) = f[y] + Sum(U \ {y}) /\ Sum(S \cup U) = f[y] + Sum((S \cup U) \ {y})
    BY <1>2, <1>3, <1>6, SumRemove
<1>8. Sum((S \cup U) \ {y}) = Sum(S \cup (U \ {y}))
  <2>1. (S \cup U) \ {y} = S \cup (U \ {y})
    BY <1>2, <1>6, Zenon
  <2> QED
    BY <2>1, Zenon
<1>9. Sum(S \cup (U \ {y})) = Sum(S) + Sum(U \ {y})
  <2>1. U \ {y} \in SUBSET T /\ U \ {y} \notin Bad
    BY <1>1, <1>2, <1>6, Zenon
  <2> HIDE DEF Sum
  <2> QED
    BY <2>1, Zenon
<1>10. Sum(U \ {y}) \in Int /\ f[y] \in Int
  <2>1. IsFiniteSet(U \ {y})
    BY <1>3, FiniteSubset, Zenon
  <2> QED
    BY <1>2, <1>6, <2>1, SumInt, Zenon
<1> HIDE DEF Sum
<1> QED
    BY <1>2, <1>4, <1>7, <1>8, <1>9, <1>10

\* A part of a sum of naturals is no larger than the sum.
LEMMA SumPart ==
    ASSUME NEW f, NEW S, IsFiniteSet(S), NEW T \in SUBSET S, \A x \in S : f[x] \in Nat
    PROVE  SumFunctionOnSet(f, T) <= SumFunctionOnSet(f, S)
<1>1. IsFiniteSet(T) /\ IsFiniteSet(S \ T)
    BY FiniteSubset, Zenon
<1>2. T \cup (S \ T) = S /\ T \cap (S \ T) = {}
    BY Zenon
<1>3. SumFunctionOnSet(f, T \cup (S \ T)) =
        SumFunctionOnSet(f, T) + SumFunctionOnSet(f, S \ T)
    BY <1>1, <1>2, SumUnion
<1>4. SumFunctionOnSet(f, T) \in Nat /\ SumFunctionOnSet(f, S \ T) \in Nat
    BY <1>1, SumNat, Zenon
<1>5. SumFunctionOnSet(f, S) = SumFunctionOnSet(f, T) + SumFunctionOnSet(f, S \ T)
    BY <1>2, <1>3, Zenon
<1> QED
    BY <1>4, <1>5

\* Changing one term by d changes the sum by d.
LEMMA SumChange ==
    ASSUME NEW f, NEW g, NEW S, IsFiniteSet(S), NEW y \in S, NEW d \in Int,
           \A x \in S : f[x] \in Int, g[y] = f[y] + d,
           \A x \in S \ {y} : g[x] = f[x]
    PROVE  SumFunctionOnSet(g, S) = SumFunctionOnSet(f, S) + d
<1>1. IsFiniteSet(S \ {y})
    BY FiniteSubset, Zenon
<1>2. \A x \in S : g[x] \in Int
    OBVIOUS
<1>3. SumFunctionOnSet(g, S \ {y}) = SumFunctionOnSet(f, S \ {y})
    BY <1>1, SumSame
<1>4. /\ SumFunctionOnSet(f, S) = f[y] + SumFunctionOnSet(f, S \ {y})
      /\ SumFunctionOnSet(g, S) = g[y] + SumFunctionOnSet(g, S \ {y})
    BY <1>2, SumRemove
<1>5. SumFunctionOnSet(f, S \ {y}) \in Int
    BY <1>1, SumInt, Zenon
<1> QED
    BY <1>3, <1>4, <1>5

\* Sums by group add up to the sum: the groups are the classes of D under b.
LEMMA SumGroups ==
    ASSUME NEW w, NEW D, IsFiniteSet(D), \A i \in D : w[i] \in Int,
           NEW X, IsFiniteSet(X), NEW b, \A i \in D : b[i] \in X,
           NEW base \in [X -> Int],
           NEW g, \A x \in X : g[x] = base[x] + SumFunctionOnSet(w, {i \in D : b[i] = x})
    PROVE  SumFunctionOnSet(g, X) = SumFunctionOnSet(base, X) + SumFunctionOnSet(w, D)
<1> DEFINE By(E) == [x \in X |-> base[x] + SumFunctionOnSet(w, {i \in E : b[i] = x})]
           Good(E) == SumFunctionOnSet(By(E), X)
                        = SumFunctionOnSet(base, X) + SumFunctionOnSet(w, E)
           Bad == {E \in SUBSET D : ~Good(E)}
<1> SUFFICES ASSUME Bad # {} PROVE FALSE
  <2>1. Good(D)
    BY Zenon
  <2>2. ASSUME NEW x \in X PROVE By(D)[x] \in Int /\ By(D)[x] = g[x]
    <3>1. IsFiniteSet({i \in D : b[i] = x})
      BY FiniteSubset, Zenon
    <3>2. SumFunctionOnSet(w, {i \in D : b[i] = x}) \in Int
      BY <3>1, SumInt, Zenon
    <3> QED
      BY <3>2
  <2> HIDE DEF By
  <2>3. SumFunctionOnSet(By(D), X) = SumFunctionOnSet(g, X)
    BY <2>2, SumSame
  <2> QED
    BY <2>1, <2>3, Zenon
<1>1. PICK E \in Bad : \A F \in Bad : F \subseteq E => F = E
  <2>1. Bad \in SUBSET (SUBSET D)
    BY Zenon
  <2> HIDE DEF Bad
  <2> QED
    BY <2>1, MinimalSubset
<1>2. E \in SUBSET D /\ ~Good(E)
    BY <1>1, Zenon
<1>3. SumFunctionOnSet(base, X) \in Int
    BY SumInt, Zenon
<1>4. ASSUME NEW F \in SUBSET D PROVE IsFiniteSet(F) /\ \A x : IsFiniteSet({i \in F : b[i] = x})
    BY FiniteSubset, Zenon
<1>5. E # {}
  <2> SUFFICES ASSUME E = {} PROVE Good(E)
    BY <1>2, Zenon
  <2>1. \A x \in X : By(E)[x] = base[x]
    <3>1. \A x : {i \in E : b[i] = x} = {}
      BY Zenon
    <3> QED
      BY <3>1, SumEmpty
  <2>2. SumFunctionOnSet(base, X) = SumFunctionOnSet(By(E), X)
    <3> HIDE DEF By
    <3> QED
      BY <2>1, SumSame
  <2> HIDE DEF By
  <2> QED
    BY <1>3, <2>2, SumEmpty
<1>6. PICK y : y \in E
    BY <1>5, Zenon
<1> DEFINE F == E \ {y}
<1>7. F \in SUBSET D /\ y \in D /\ y \notin F /\ E = F \cup {y}
    BY <1>2, <1>6, Zenon
<1>8. Good(F)
  <2>1. F \notin Bad
    BY <1>1, <1>6, Zenon
  <2> HIDE DEF Good, F
  <2> QED
    BY <1>7, <2>1, Zenon
<1> HIDE DEF F
<1>9. SumFunctionOnSet(w, E) = SumFunctionOnSet(w, F) + w[y]
    BY <1>4, <1>7, SumInsert, Zenon
<1>10. SumFunctionOnSet(By(E), X) = SumFunctionOnSet(By(F), X) + w[y]
  <2>1. \A x \in X : By(F)[x] \in Int
    <3>1. \A x \in X : SumFunctionOnSet(w, {i \in F : b[i] = x}) \in Int
      BY <1>4, <1>7, SumInt, Zenon
    <3> QED
      BY <3>1, SMTT(60)
  <2>2. By(E)[b[y]] = By(F)[b[y]] + w[y]
    <3>1. b[y] \in X /\ w[y] \in Int
      BY <1>7, Zenon
    <3> DEFINE G == {i \in F : b[i] = b[y]}
    <3>2. {i \in E : b[i] = b[y]} = G \cup {y} /\ y \notin G
      BY <1>7, Zenon
    <3>3. IsFiniteSet(G) /\ \A i \in G \cup {y} : w[i] \in Int
      BY <1>4, <1>7, Zenon
    <3>4. By(E)[b[y]] = base[b[y]] + SumFunctionOnSet(w, G \cup {y})
      BY <3>1, <3>2, Zenon
    <3>5. By(F)[b[y]] = base[b[y]] + SumFunctionOnSet(w, G)
      BY <3>1, Zenon
    <3> HIDE DEF G, By
    <3>6. SumFunctionOnSet(w, G \cup {y}) = SumFunctionOnSet(w, G) + w[y]
      BY <3>2, <3>3, SumInsert, SMTT(60)
    <3>7. SumFunctionOnSet(w, G) \in Int /\ base[b[y]] \in Int
      BY <3>1, <3>3, SumInt, Zenon
    <3> QED
      BY <3>1, <3>4, <3>5, <3>6, <3>7
  <2>3. ASSUME NEW x \in X \ {b[y]} PROVE By(E)[x] = By(F)[x]
    <3>1. {i \in E : b[i] = x} = {i \in F : b[i] = x}
      BY <1>7, <2>3, Zenon
    <3> QED
      BY <3>1, Zenon
  <2>4. w[y] \in Int /\ b[y] \in X
    BY <1>7, Zenon
  <2> HIDE DEF By
  <2> QED
    BY <2>1, <2>2, <2>3, <2>4, SumChange, SMTT(60)
<1>11. SumFunctionOnSet(w, F) \in Int /\ w[y] \in Int
    BY <1>4, <1>7, SumInt, Zenon
<1>12. SumFunctionOnSet(By(F), X) = SumFunctionOnSet(base, X) + SumFunctionOnSet(w, F)
    BY <1>8, Zenon
<1> HIDE DEF By
<1> QED
    BY <1>2, <1>3, <1>9, <1>10, <1>11, <1>12

-----------------------------------------------------------------------------

\* What the assumptions say, one by one.
LEMMA AmountsNat == \A m \in Amounts : m \in Nat
BY EscrowAssumption, Zenon

\* Bound assets are assets.
LEMMA BoundAssets == \A a \in Bound : a \in Assets
BY EscrowAssumption, Zenon

\* The totals are naturals.
LEMMA TotalsNat ==
    ASSUME Inv, NEW a \in Assets
    PROVE  pending[a] \in Nat /\ controlled[a] \in Nat /\ claimable[a] \in Nat
BY EscrowAssumption DEF Inv, TypeOK

\* Dividing what is at least t times b by t gives at least b.
LEMMA FloorShare ==
    ASSUME NEW r \in Nat, NEW b \in Nat, NEW t \in Nat \ {0}
    PROVE  (r * b) \div t \in Nat /\ (r >= t => (r * b) \div t >= b)
<1>1. r * b \in Nat
    OBVIOUS
<1>2. ASSUME NEW n \in Nat PROVE n \div t \in Nat
    OBVIOUS
<1>3. r >= t => (r * b) \div t >= b
    OBVIOUS
<1> QED
    BY <1>1, <1>2, <1>3, Zenon

-----------------------------------------------------------------------------
(* Sums over deposits and leaves *)

\* What a batch consumes of an asset is a natural.
LEMMA ConsumedNat ==
    ASSUME Inv, NEW k \in cursor .. Len(inbox), NEW a
    PROVE  /\ IsFiniteSet(Crossed(k)) /\ Crossed(k) \subseteq DOMAIN inbox
           /\ \A i \in Crossed(k) : inbox[i] \in Deposits /\ inbox[i].amount \in Nat
           /\ Consumed(a, k) \in Nat
<1>1. Len(inbox) \in Nat /\ cursor \in Nat /\ DOMAIN inbox = 1 .. Len(inbox)
    BY SeqFacts DEF Inv, TypeOK
<1>2. cursor + 1 .. k \subseteq 1 .. Len(inbox) /\ IsFiniteSet(cursor + 1 .. k)
  <2>1. cursor + 1 \in Nat \ {0} /\ k \in Nat
    BY <1>1
  <2>2. IsFiniteSet(cursor + 1 .. k)
    BY <2>1, FiniteInterval, Zenon
  <2> QED
    BY <1>1, <2>2
<1>3. IsFiniteSet(Crossed(k)) /\ Crossed(k) \subseteq DOMAIN inbox
    BY <1>1, <1>2, FiniteSubset, Zenon DEF Crossed
<1>4. \A i \in Crossed(k) : inbox[i] \in Deposits
    BY <1>1, <1>3, SeqFacts, Zenon DEF Inv, TypeOK
<1>5. \A i \in Crossed(k) : inbox[i].amount \in Nat
    BY <1>4, AmountsNat, Zenon DEF Deposits
<1> DEFINE S == {i \in Crossed(k) : inbox[i].asset = a}
           f == [i \in Crossed(k) |-> inbox[i].amount]
<1>6. IsFiniteSet(S) /\ \A i \in S : f[i] \in Nat
    BY <1>3, <1>5, FiniteSubset, Zenon
<1>7. Consumed(a, k) = SumFunctionOnSet(f, S)
    BY Zenon DEF Consumed
<1> HIDE DEF S, f
<1>8. Consumed(a, k) \in Nat
    BY <1>6, <1>7, SumNat, Zenon
<1> QED
    BY <1>3, <1>4, <1>5, <1>8, Zenon

\* The sum of the leaves of one asset is a natural.
LEMMA SumOfNat ==
    ASSUME NEW leaves, IsFiniteSet(leaves), \A leaf \in leaves : leaf.amount \in Nat, NEW a
    PROVE  SumOf(leaves, a) \in Nat
<1> DEFINE S == {leaf \in leaves : leaf.asset = a}
           f == [leaf \in leaves |-> leaf.amount]
<1>1. IsFiniteSet(S) /\ \A i \in S : f[i] \in Nat
    BY FiniteSubset, Zenon
<1>2. SumOf(leaves, a) = SumFunctionOnSet(f, S)
    BY Zenon DEF SumOf
<1> HIDE DEF S, f
<1> QED
    BY <1>1, <1>2, SumNat, Zenon

\* The leaves of the records a batch appended.
LEMMA RecordLeavesFacts ==
    ASSUME queue \in Seq(Records), NEW queueAfter \in Seq(Records)
    PROVE  /\ IsFiniteSet(RecordLeaves(queueAfter))
           /\ \A leaf \in RecordLeaves(queueAfter) :
                leaf.amount \in Nat /\ leaf.batch = batch + 1
<1> DEFINE range == Len(queue) + 1 .. Len(queueAfter)
           g == [i \in range |-> RecordLeaf(i, queueAfter[i])]
<1>1. Len(queue) \in Nat /\ Len(queueAfter) \in Nat
    BY SeqFacts, Zenon
<1>2. IsFiniteSet(range) /\ DOMAIN g = range
  <2>1. Len(queue) + 1 \in Nat \ {0}
    BY <1>1
  <2> QED
    BY <1>1, <2>1, FiniteInterval, Zenon
<1>3. RecordLeaves(queueAfter) = {g[i] : i \in range}
    BY Zenon DEF RecordLeaves
<1>4. IsFiniteSet({g[i] : i \in range})
  <2> HIDE DEF range, g
  <2> QED
    BY <1>2, FiniteImage, Zenon
<1>5. ASSUME NEW i \in range
      PROVE  /\ RecordLeaf(i, queueAfter[i]).amount \in Nat
             /\ RecordLeaf(i, queueAfter[i]).batch = batch + 1
  <2>1. queueAfter[i] \in Records
    BY <1>1, <1>5, SeqFacts
  <2> QED
    BY <2>1, Zenon DEF RecordLeaf, Records
<1>6. \A leaf \in RecordLeaves(queueAfter) : leaf.amount \in Nat /\ leaf.batch = batch + 1
    BY <1>5, Zenon DEF RecordLeaves
<1> QED
    BY <1>3, <1>4, <1>6, Zenon

\* The swept accounts are accounts of the room.
LEMMA SweptAccounts == ASSUME NEW seen PROVE CodeFree \cap seen \in SUBSET Accounts
BY EscrowAssumption, Zenon

\* The swept balances of an asset: their total, and one of them.
LEMMA TotalFacts ==
    ASSUME NEW a \in Assets, NEW after \in [Assets -> [Accounts -> Nat]],
           NEW swept \in SUBSET Accounts
    PROVE  /\ Total(a, after, swept) \in Nat
           /\ \A x \in swept : after[a][x] \in Nat /\ after[a][x] <= Total(a, after, swept)
           /\ Total(a, after, swept) <= SumFunctionOnSet(after[a], Accounts)
<1>1. IsFiniteSet(swept) /\ swept \subseteq Accounts /\ IsFiniteSet(Accounts)
    BY EscrowAssumption, FiniteAssumption, FiniteSubset, Zenon
<1>2. \A x \in Accounts : after[a][x] \in Nat
    BY Zenon
<1>3. Total(a, after, swept) \in Nat
    BY <1>1, <1>2, SumNat, Zenon DEF Total
<1>4. ASSUME NEW x \in swept PROVE after[a][x] <= Total(a, after, swept)
  <2>1. SumFunctionOnSet(after[a], swept) =
          after[a][x] + SumFunctionOnSet(after[a], swept \ {x})
    BY <1>1, <1>2, SumRemove
  <2>2. IsFiniteSet(swept \ {x})
    BY <1>1, FiniteSubset, Zenon
  <2>3. SumFunctionOnSet(after[a], swept \ {x}) \in Nat
    BY <1>1, <1>2, <2>2, SumNat, Zenon
  <2> QED
    BY <1>1, <1>2, <2>1, <2>3 DEF Total
<1>5. Total(a, after, swept) <= SumFunctionOnSet(after[a], Accounts)
    BY <1>1, <1>2, SumPart, Zenon DEF Total
<1> QED
    BY <1>1, <1>2, <1>3, <1>4, <1>5, Zenon

\* The shares of an asset.
LEMMA SharesFacts ==
    ASSUME NEW a \in Assets, NEW after \in [Assets -> [Accounts -> Nat]],
           NEW swept \in SUBSET Accounts, NEW residual \in Nat
    PROVE  /\ IsFiniteSet(Shares(a, residual, after, swept))
           /\ \A leaf \in Shares(a, residual, after, swept) :
                leaf.amount \in Nat /\ leaf.batch = batch + 1
<1> DEFINE holders == {y \in swept : after[a][y] > 0}
           share(x) == [batch |-> batch + 1, from |-> <<"share", x>>, recipient |-> x,
                        asset |-> a, amount |-> (residual * after[a][x]) \div Total(a, after, swept)]
           g == [x \in holders |-> share(x)]
<1>1. IsFiniteSet(holders)
    BY EscrowAssumption, FiniteAssumption, FiniteSubset, Zenon
<1>2. IsFiniteSet({g[x] : x \in holders})
  <2>1. DOMAIN g = holders
    BY Zenon
  <2> HIDE DEF g, holders
  <2> QED
    BY <1>1, <2>1, FiniteImage, ZenonT(60)
<1>3. Shares(a, residual, after, swept) \subseteq {g[x] : x \in holders}
    BY Zenon DEF Shares
<1>4. IsFiniteSet(Shares(a, residual, after, swept))
    BY <1>2, <1>3, FiniteSubset, Zenon
<1>5. ASSUME NEW x \in holders PROVE share(x).amount \in Nat /\ share(x).batch = batch + 1
  <2>1. /\ after[a][x] \in Nat /\ after[a][x] > 0 /\ Total(a, after, swept) \in Nat
        /\ after[a][x] <= Total(a, after, swept)
    BY TotalFacts, Zenon
  <2>2. Total(a, after, swept) \in Nat \ {0}
    BY <2>1
  <2>3. (residual * after[a][x]) \div Total(a, after, swept) \in Nat
    BY <2>1, <2>2, FloorShare, Zenon
  <2> QED
    BY <2>3, Zenon
<1>6. ASSUME NEW leaf \in Shares(a, residual, after, swept)
      PROVE  leaf.amount \in Nat /\ leaf.batch = batch + 1
  <2>1. PICK x \in holders : leaf = share(x)
    BY Zenon DEF Shares
  <2> HIDE DEF share, holders
  <2> QED
    BY <1>5, <2>1, Zenon
<1> QED
    BY <1>4, <1>6, Zenon

\* The leaves a batch derives are finitely many, new, and promise naturals.
LEMMA LeavesFacts ==
    ASSUME Inv, queue \in Seq(Records), NEW k \in cursor .. Len(inbox), NEW close \in BOOLEAN,
           NEW fees, NEW effect, NEW seen, effect.queue \in Seq(Records),
           effect.balance \in [Assets -> [Accounts -> Nat]],
           Provable(k, fees, effect, seen, close)
    PROVE  LET leaves == Leaves(k, effect.queue, effect.balance, seen, close)
           IN  /\ IsFiniteSet(leaves)
               /\ \A leaf \in leaves : leaf.amount \in Nat /\ leaf.batch = batch + 1
<1> DEFINE leaves == Leaves(k, effect.queue, effect.balance, seen, close)
           records == RecordLeaves(effect.queue)
           sweep(a) == Sweep(a, Residual(a, k, effect.queue), effect.balance,
                                     CodeFree \cap seen)
           Fine(s) == IsFiniteSet(s) /\ \A leaf \in s : leaf.amount \in Nat /\ leaf.batch = batch + 1
<1>1. Fine(records)
    BY RecordLeavesFacts, Zenon
<1>2. CASE ~close
  <2>1. leaves = records
    BY <1>2, Zenon DEF Leaves
  <2> QED
    BY <1>1, <2>1, Zenon
<1>3. CASE close
  <2>1. ASSUME NEW a \in Bound PROVE Fine(sweep(a))
    <3> DEFINE residual == Residual(a, k, effect.queue)
               shares == Shares(a, residual, effect.balance, CodeFree \cap seen)
               dust == [batch |-> batch + 1, from |-> <<"dust">>, recipient |-> Fallback,
                        asset |-> a, amount |-> residual - SumOf(shares, a)]
    <3>1. a \in Assets
      BY BoundAssets, Zenon
    <3>2. residual >= 0 /\ SumOf(shares, a) <= residual
      BY <1>3, <3>1, Zenon DEF Provable, Sweepable
    <3>3. residual \in Nat
      <4>1. controlled[a] \in Nat
        BY <3>1, TotalsNat, Zenon
      <4>2. SumOf(records, a) \in Nat
        <5> HIDE DEF records
        <5> QED
          BY <1>1, SumOfNat, Zenon
      <4>3. Consumed(a, k) \in Nat
        BY ConsumedNat, Zenon
      <4> QED
        BY <3>2, <4>1, <4>2, <4>3 DEF Residual
    <3> HIDE DEF residual
    <3>4. Fine(shares)
      BY <3>1, <3>3, SharesFacts, SweptAccounts, Zenon
    <3> HIDE DEF shares
    <3>5. SumOf(shares, a) \in Nat
      BY <3>4, SumOfNat, Zenon
    <3>6. dust.amount \in Nat /\ dust.batch = batch + 1
      BY <3>2, <3>3, <3>5, SMTT(60)
    <3>7. sweep(a) \subseteq shares \cup {dust}
      BY Zenon DEF Sweep, residual, shares
    <3> HIDE DEF dust, sweep
    <3>8. IsFiniteSet(shares \cup {dust})
      BY <3>4, FiniteAdd, Zenon
    <3>9. IsFiniteSet(sweep(a))
      BY <3>7, <3>8, FiniteSubset, Zenon
    <3> QED
      BY <3>4, <3>6, <3>7, <3>9, Zenon
  <2> DEFINE sweeps == [a \in Bound |-> sweep(a)]
             all == {sweeps[a] : a \in Bound}
  <2>2. IsFiniteSet(all)
    <3>1. DOMAIN sweeps = Bound
      BY Zenon
    <3> HIDE DEF sweeps
    <3> QED
      BY <3>1, FiniteAssumption, FiniteImage, SMTT(60)
  <2>3. \A s \in all : Fine(s)
    BY <2>1, Zenon
  <2>4. leaves = records \cup UNION all
    BY <1>3, Zenon DEF Leaves
  <2> HIDE DEF all, leaves, records
  <2>5. IsFiniteSet(UNION all)
    BY <2>2, <2>3, FiniteFamily, Zenon
  <2>6. IsFiniteSet(leaves)
    BY <1>1, <2>4, <2>5, FiniteUnion, Zenon
  <2>7. \A leaf \in leaves : leaf.amount \in Nat /\ leaf.batch = batch + 1
    BY <1>1, <2>3, <2>4, Zenon
  <2> QED
    BY <2>6, <2>7, Zenon DEF leaves
<1> QED
    BY <1>2, <1>3, Zenon

-----------------------------------------------------------------------------
(* The totals are the queues *)

\* The leaves of the outbox are finitely many, of accepted batches, and promise
\* naturals; with that, the totals stay what the queues hold.
Ledger ==
    /\ IsFiniteSet(outbox)
    /\ \A leaf \in outbox : leaf.amount \in Nat /\ leaf.batch \in 1 .. batch
    /\ TotalsAreQueues

\* The deposits beyond position c of inbox q that are still to be consumed.
Waiting(q, c, a) == {i \in c + 1 .. Len(q) : q[i].asset = a /\ ~q[i].refunded}

WaitingSum(q, c, a) == SumFunctionOnSet([i \in DOMAIN q |-> q[i].amount], Waiting(q, c, a))

Unclaimed(leaves, done, a) == {leaf \in leaves \ done : leaf.asset = a}

UnclaimedSum(leaves, done, a) ==
    SumFunctionOnSet([leaf \in leaves |-> leaf.amount], Unclaimed(leaves, done, a))

\* TotalsAreQueues in these terms.
LEMMA TotalsUnfold ==
    /\ TotalsAreQueues <=>
         \A a \in Assets : /\ pending[a] = WaitingSum(inbox, cursor, a)
                           /\ claimable[a] = UnclaimedSum(outbox, claimed, a)
    /\ TotalsAreQueues' <=>
         \A a \in Assets : /\ pending'[a] = WaitingSum(inbox', cursor', a)
                           /\ claimable'[a] = UnclaimedSum(outbox', claimed', a)
BY Zenon DEF TotalsAreQueues, WaitingSum, Waiting, UnclaimedSum, Unclaimed

\* The waiting deposits of an inbox.
LEMMA WaitingFacts ==
    ASSUME NEW q \in Seq(Deposits), NEW c \in 0 .. Len(q), NEW a
    PROVE  /\ IsFiniteSet(Waiting(q, c, a)) /\ Waiting(q, c, a) \subseteq DOMAIN q
           /\ \A i \in DOMAIN q : q[i] \in Deposits /\ q[i].amount \in Nat
           /\ DOMAIN q = 1 .. Len(q) /\ Len(q) \in Nat
<1>1. Len(q) \in Nat /\ DOMAIN q = 1 .. Len(q)
    BY SeqFacts, Zenon
<1>2. c + 1 \in Nat \ {0} /\ c + 1 .. Len(q) \subseteq 1 .. Len(q)
    BY <1>1
<1>3. IsFiniteSet(c + 1 .. Len(q))
    BY <1>1, <1>2, FiniteInterval, Zenon
<1>4. IsFiniteSet(Waiting(q, c, a)) /\ Waiting(q, c, a) \subseteq DOMAIN q
    BY <1>1, <1>2, <1>3, FiniteSubset, Zenon DEF Waiting
<1>5. \A i \in DOMAIN q : q[i] \in Deposits
    BY <1>1, SeqFacts, Zenon
<1>6. \A i \in DOMAIN q : q[i].amount \in Nat
    BY <1>5, AmountsNat, Zenon DEF Deposits
<1> QED
    BY <1>1, <1>4, <1>5, <1>6, Zenon

\* A deposit waits in the queue of its asset.
LEMMA WaitingAppend ==
    ASSUME NEW q \in Seq(Deposits), NEW c \in 0 .. Len(q), NEW d \in Deposits, ~d.refunded,
           NEW a
    PROVE  WaitingSum(Append(q, d), c, a) =
             WaitingSum(q, c, a) + (IF d.asset = a THEN d.amount ELSE 0)
<1> DEFINE p == Append(q, d)
           n == Len(q) + 1
           f == [i \in DOMAIN q |-> q[i].amount]
           g == [i \in DOMAIN p |-> p[i].amount]
           W == Waiting(q, c, a)
           X == Waiting(p, c, a)
<1>1. /\ p \in Seq(Deposits) /\ Len(p) = n /\ p[n] = d /\ \A i \in 1 .. Len(q) : p[i] = q[i]
    BY SeqAppend
<1>2. /\ IsFiniteSet(W) /\ W \subseteq DOMAIN q /\ \A i \in DOMAIN q : q[i].amount \in Nat
      /\ DOMAIN q = 1 .. Len(q) /\ Len(q) \in Nat
    BY WaitingFacts, Zenon
<1> HIDE DEF p
<1>3. c \in 0 .. Len(p)
    BY <1>1, <1>2, SMTT(60)
<1>4. /\ IsFiniteSet(X) /\ X \subseteq DOMAIN p /\ \A i \in DOMAIN p : p[i].amount \in Nat
      /\ DOMAIN p = 1 .. Len(p) /\ Len(p) \in Nat
    BY <1>1, <1>3, WaitingFacts, Zenon
<1>5. \A i \in W : f[i] \in Int /\ f[i] = g[i]
    BY <1>1, <1>2, <1>4
<1>6. SumFunctionOnSet(f, W) = SumFunctionOnSet(g, W)
  <2> HIDE DEF f, g, W
  <2> QED
    BY <1>2, <1>5, SumSame, Zenon
<1>7. SumFunctionOnSet(g, W) \in Int
  <2>1. \A i \in W : g[i] \in Int
    BY <1>5, Zenon
  <2> HIDE DEF f, g, W
  <2> QED
    BY <1>2, <2>1, SumInt, Zenon
<1>8. WaitingSum(p, c, a) = SumFunctionOnSet(g, X) /\ WaitingSum(q, c, a) = SumFunctionOnSet(f, W)
    BY Zenon DEF WaitingSum
<1>9. CASE d.asset = a
  <2>1. X = W \cup {n} /\ n \notin W
    <3>1. /\ c + 1 .. n = (c + 1 .. Len(q)) \cup {n} /\ n \notin c + 1 .. Len(q)
          /\ c + 1 .. Len(q) \subseteq 1 .. Len(q)
      BY <1>2, IntervalGrows, Zenon
    <3>2. n \notin W
      BY <3>1, Zenon DEF Waiting
    <3>3. \A i \in c + 1 .. Len(q) : p[i] = q[i]
      BY <1>1, <3>1, Zenon
    <3>4. X = {i \in (c + 1 .. Len(q)) \cup {n} : p[i].asset = a /\ ~p[i].refunded}
      BY <1>1, <3>1, Zenon DEF Waiting
    <3>5. ASSUME NEW i PROVE i \in X <=> i \in W \cup {n}
      BY <1>1, <1>9, <3>1, <3>3, <3>4, Zenon DEF Waiting
    <3> QED
      BY <3>2, <3>5, Zenon
  <2>2. \A i \in W \cup {n} : g[i] \in Int
    BY <1>4, <2>1
  <2>3. g[n] = d.amount
    BY <1>1, <1>4
  <2> HIDE DEF f, g, W, X, n
  <2>4. SumFunctionOnSet(g, W \cup {n}) = SumFunctionOnSet(g, W) + g[n]
    BY <1>2, <2>1, <2>2, SumInsert, Zenon
  <2>5. SumFunctionOnSet(g, X) = SumFunctionOnSet(g, W) + g[n]
    BY <2>1, <2>4, Zenon
  <2> QED
    BY <1>6, <1>8, <1>9, <2>3, <2>5, Zenon DEF p
<1>10. CASE d.asset # a
  <2>1. X = W
    BY <1>1, <1>2, <1>10 DEF Waiting
  <2> HIDE DEF f, g, W, X, n
  <2>2. SumFunctionOnSet(g, X) = SumFunctionOnSet(g, W)
    BY <2>1, Zenon
  <2> QED
    BY <1>6, <1>7, <1>8, <1>10, <2>2, SMTT(60) DEF p
<1> QED
    BY <1>9, <1>10, Zenon

\* A refunded deposit waits no longer.
LEMMA WaitingRefund ==
    ASSUME NEW q \in Seq(Deposits), NEW c \in 0 .. Len(q), NEW i \in 1 .. Len(q), i > c,
           ~q[i].refunded, NEW a
    PROVE  WaitingSum([q EXCEPT ![i].refunded = TRUE], c, a) =
             WaitingSum(q, c, a) - (IF q[i].asset = a THEN q[i].amount ELSE 0)
<1> DEFINE p == [q EXCEPT ![i].refunded = TRUE]
           f == [j \in DOMAIN q |-> q[j].amount]
           g == [j \in DOMAIN p |-> p[j].amount]
           W == Waiting(q, c, a)
           X == Waiting(p, c, a)
<1>1. /\ IsFiniteSet(W) /\ W \subseteq DOMAIN q /\ DOMAIN q = 1 .. Len(q) /\ Len(q) \in Nat
      /\ \A j \in DOMAIN q : q[j] \in Deposits /\ q[j].amount \in Nat
    BY WaitingFacts, Zenon
<1>2. [q[i] EXCEPT !.refunded = TRUE] \in Deposits
    BY <1>1, Zenon DEF Deposits
<1>3. p \in Seq(Deposits) /\ Len(p) = Len(q) /\ DOMAIN p = DOMAIN q
    BY <1>1, <1>2, SeqUpdate
<1>4. /\ p[i].refunded /\ p[i].amount = q[i].amount /\ p[i].asset = q[i].asset
      /\ \A j \in DOMAIN q \ {i} : p[j] = q[j]
    BY <1>1, Zenon DEF Deposits
<1> HIDE DEF p
<1>5. \A j \in DOMAIN q : p[j].amount = q[j].amount
    BY <1>4, Zenon
<1>6. f = g
    BY <1>3, <1>5, Zenon
<1>7. X = W \ {i}
    BY <1>1, <1>3, <1>4 DEF Waiting
<1>8. WaitingSum(p, c, a) = SumFunctionOnSet(f, W \ {i}) /\ WaitingSum(q, c, a) = SumFunctionOnSet(f, W)
    BY <1>6, <1>7, Zenon DEF WaitingSum
<1>9. \A j \in W : f[j] \in Nat
    BY <1>1, Zenon
<1>10. CASE q[i].asset = a
  <2>1. i \in W /\ f[i] = q[i].amount
    BY <1>1, <1>10 DEF Waiting
  <2>2. IsFiniteSet(W \ {i})
    BY <1>1, FiniteSubset, Zenon
  <2> HIDE DEF f, W
  <2>3. SumFunctionOnSet(f, W) = f[i] + SumFunctionOnSet(f, W \ {i})
    BY <1>1, <1>9, <2>1, SumRemove
  <2>4. SumFunctionOnSet(f, W \ {i}) \in Nat /\ f[i] \in Nat
    BY <1>9, <2>1, <2>2, SumNat, Zenon
  <2>5. WaitingSum(p, c, a) = WaitingSum(q, c, a) - q[i].amount
    BY <1>8, <2>1, <2>3, <2>4
  <2> QED
    BY <1>10, <2>5, Zenon DEF p
<1>11. CASE q[i].asset # a
  <2>1. W \ {i} = W
    BY <1>11, Zenon DEF Waiting
  <2>2. WaitingSum(p, c, a) = WaitingSum(q, c, a)
    BY <1>8, <2>1, Zenon
  <2>3. WaitingSum(q, c, a) \in Nat
    <3> HIDE DEF f, W
    <3> QED
      BY <1>1, <1>8, <1>9, SumNat, Zenon
  <2>4. WaitingSum(q, c, a) - 0 = WaitingSum(q, c, a)
    BY <2>3
  <2> QED
    BY <1>11, <2>2, <2>4, Zenon DEF p
<1> QED
    BY <1>10, <1>11, Zenon

\* A batch consumes the deposits it crosses and no other.
LEMMA WaitingCross ==
    ASSUME Inv, NEW k \in cursor .. Len(inbox), NEW a
    PROVE  WaitingSum(inbox, cursor, a) = Consumed(a, k) + WaitingSum(inbox, k, a)
<1> DEFINE f == [i \in DOMAIN inbox |-> inbox[i].amount]
           g == [i \in Crossed(k) |-> inbox[i].amount]
           C == {i \in Crossed(k) : inbox[i].asset = a}
           W == Waiting(inbox, k, a)
<1>1. inbox \in Seq(Deposits) /\ cursor \in 0 .. Len(inbox) /\ Len(inbox) \in Nat
    BY SeqFacts, Zenon DEF Inv, TypeOK
<1>2. k \in 0 .. Len(inbox)
    BY <1>1
<1>3. /\ IsFiniteSet(W) /\ W \subseteq DOMAIN inbox
      /\ \A i \in DOMAIN inbox : inbox[i].amount \in Nat
    BY <1>1, <1>2, WaitingFacts, Zenon
<1>4. IsFiniteSet(Crossed(k)) /\ Crossed(k) \subseteq DOMAIN inbox
    BY ConsumedNat, Zenon
<1>5. IsFiniteSet(C) /\ \A i \in C : g[i] \in Int /\ g[i] = f[i]
    BY <1>3, <1>4, FiniteSubset
<1>6. \A i \in C \cup W : f[i] \in Int
    BY <1>3, <1>4
<1>7. Waiting(inbox, cursor, a) = C \cup W /\ C \cap W = {}
    BY <1>1, <1>2 DEF Waiting, Crossed
<1>8. /\ WaitingSum(inbox, cursor, a) = SumFunctionOnSet(f, C \cup W)
      /\ WaitingSum(inbox, k, a) = SumFunctionOnSet(f, W)
      /\ Consumed(a, k) = SumFunctionOnSet(g, C)
    BY <1>7, Zenon DEF WaitingSum, Consumed
<1> HIDE DEF f, g, C, W
<1>9. SumFunctionOnSet(f, C \cup W) = SumFunctionOnSet(f, C) + SumFunctionOnSet(f, W)
    BY <1>3, <1>5, <1>6, <1>7, SumUnion, Zenon
<1>10. SumFunctionOnSet(g, C) = SumFunctionOnSet(f, C)
    BY <1>5, SumSame, Zenon
<1> QED
    BY <1>8, <1>9, <1>10, Zenon

\* New leaves join the unclaimed ones.
LEMMA UnclaimedMint ==
    ASSUME NEW old, NEW done \in SUBSET old, NEW new, IsFiniteSet(old), IsFiniteSet(new),
           \A leaf \in old \cup new : leaf.amount \in Nat, old \cap new = {}, NEW a
    PROVE  UnclaimedSum(old \cup new, done, a) = UnclaimedSum(old, done, a) + SumOf(new, a)
<1> DEFINE U == Unclaimed(old, done, a)
           N == {leaf \in new : leaf.asset = a}
           f == [leaf \in old \cup new |-> leaf.amount]
           g == [leaf \in old |-> leaf.amount]
           h == [leaf \in new |-> leaf.amount]
<1>1. IsFiniteSet(U) /\ IsFiniteSet(N)
    BY FiniteSubset, Zenon DEF Unclaimed
<1>2. Unclaimed(old \cup new, done, a) = U \cup N /\ U \cap N = {}
    BY Zenon DEF Unclaimed
<1>3. /\ \A leaf \in U \cup N : f[leaf] \in Int
      /\ \A leaf \in U : g[leaf] \in Int /\ g[leaf] = f[leaf]
      /\ \A leaf \in N : h[leaf] \in Int /\ h[leaf] = f[leaf]
    BY DEF Unclaimed
<1>4. /\ UnclaimedSum(old \cup new, done, a) = SumFunctionOnSet(f, U \cup N)
      /\ UnclaimedSum(old, done, a) = SumFunctionOnSet(g, U)
      /\ SumOf(new, a) = SumFunctionOnSet(h, N)
    BY <1>2, Zenon DEF UnclaimedSum, SumOf
<1> HIDE DEF U, N, f, g, h
<1>5. SumFunctionOnSet(f, U \cup N) = SumFunctionOnSet(f, U) + SumFunctionOnSet(f, N)
    BY <1>1, <1>2, <1>3, SumUnion, Zenon
<1>6. SumFunctionOnSet(g, U) = SumFunctionOnSet(f, U) /\ SumFunctionOnSet(h, N) = SumFunctionOnSet(f, N)
    BY <1>1, <1>3, SumSame, Zenon
<1> QED
    BY <1>4, <1>5, <1>6, Zenon

\* A claimed leaf leaves them.
LEMMA UnclaimedClaim ==
    ASSUME NEW leaves, NEW done, IsFiniteSet(leaves),
           \A leaf \in leaves : leaf.amount \in Nat, NEW leaf \in leaves \ done, NEW a
    PROVE  UnclaimedSum(leaves, done \cup {leaf}, a) =
             UnclaimedSum(leaves, done, a) - (IF leaf.asset = a THEN leaf.amount ELSE 0)
<1> DEFINE U == Unclaimed(leaves, done, a)
           f == [l \in leaves |-> l.amount]
<1>1. IsFiniteSet(U) /\ IsFiniteSet(U \ {leaf}) /\ \A l \in U : f[l] \in Nat
    BY FiniteSubset, Zenon DEF Unclaimed
<1>2. Unclaimed(leaves, done \cup {leaf}, a) = U \ {leaf}
    BY Zenon DEF Unclaimed
<1>3. /\ UnclaimedSum(leaves, done, a) = SumFunctionOnSet(f, U)
      /\ UnclaimedSum(leaves, done \cup {leaf}, a) = SumFunctionOnSet(f, U \ {leaf})
    BY <1>2, Zenon DEF UnclaimedSum
<1>4. SumFunctionOnSet(f, U) \in Nat /\ SumFunctionOnSet(f, U \ {leaf}) \in Nat
  <2>1. \A l \in U \ {leaf} : f[l] \in Nat
    BY <1>1, Zenon
  <2> HIDE DEF f, U
  <2> QED
    BY <1>1, <2>1, SumNat, Zenon
<1>5. CASE leaf.asset = a
  <2>1. leaf \in U /\ f[leaf] = leaf.amount /\ leaf.amount \in Nat
    BY <1>5, Zenon DEF Unclaimed
  <2> HIDE DEF f, U
  <2>2. SumFunctionOnSet(f, U) = f[leaf] + SumFunctionOnSet(f, U \ {leaf})
    BY <1>1, <2>1, SumRemove
  <2> QED
    BY <1>3, <1>4, <1>5, <2>1, <2>2
<1>6. CASE leaf.asset # a
  <2>1. U \ {leaf} = U
    BY <1>6, Zenon DEF Unclaimed
  <2>2. SumFunctionOnSet(f, U \ {leaf}) = SumFunctionOnSet(f, U)
    BY <2>1, Zenon
  <2> HIDE DEF f, U
  <2> QED
    BY <1>3, <1>4, <1>6, <2>2
<1> QED
    BY <1>5, <1>6, Zenon

\* Adding to, or taking from, the total of one asset.
LEMMA TotalChange ==
    ASSUME NEW f \in [Assets -> 0 .. MAX], NEW b \in Assets, NEW a \in Assets, NEW v \in Nat
    PROVE  /\ [f EXCEPT ![b] = @ + v][a] = f[a] + (IF b = a THEN v ELSE 0)
           /\ [f EXCEPT ![b] = @ - v][a] = f[a] - (IF b = a THEN v ELSE 0)
<1>1. f[a] \in Nat
    OBVIOUS
<1> QED
    BY <1>1

\* Every step keeps the totals equal to what the queues hold.
LEMMA LedgerNext == Inv /\ Minted /\ Ledger /\ [Next]_vars => Ledger'
<1> SUFFICES ASSUME Inv, Minted, Ledger, [Next]_vars PROVE Ledger'
    BY Zenon
<1>0. /\ inbox \in Seq(Deposits) /\ cursor \in 0 .. Len(inbox) /\ Len(inbox) \in Nat
      /\ DOMAIN inbox = 1 .. Len(inbox)
      /\ pending \in [Assets -> 0 .. MAX] /\ claimable \in [Assets -> 0 .. MAX]
      /\ batch \in Nat /\ claimed \subseteq outbox
    BY SeqFacts, SMTT(60) DEF Inv, TypeOK
<1>1. \A a \in Assets : /\ pending[a] = WaitingSum(inbox, cursor, a)
                        /\ claimable[a] = UnclaimedSum(outbox, claimed, a)
    BY TotalsUnfold, Zenon DEF Ledger
<1>2. ASSUME UNCHANGED <<outbox, batch>>,
             \A a \in Assets : /\ pending'[a] = WaitingSum(inbox', cursor', a)
                               /\ claimable'[a] = UnclaimedSum(outbox', claimed', a)
      PROVE  Ledger'
    BY <1>2, TotalsUnfold, Zenon DEF Ledger
<1>3. ASSUME NEW b \in Assets, NEW x \in Accounts, NEW m \in Amounts, Deposit(b, x, m)
      PROVE  Ledger'
  <2> DEFINE d == [asset |-> b, beneficiary |-> x, amount |-> m, refunded |-> FALSE]
  <2>1. d \in Deposits /\ ~d.refunded
    BY Zenon DEF Deposits
  <2>2. /\ inbox' = Append(inbox, d) /\ pending' = [pending EXCEPT ![b] = @ + m]
        /\ UNCHANGED <<cursor, claimable, outbox, claimed, batch>>
    BY <1>3, Zenon DEF Deposit
  <2>3. ASSUME NEW a \in Assets PROVE pending'[a] = WaitingSum(inbox', cursor', a)
    <3>1. WaitingSum(Append(inbox, d), cursor, a) =
            WaitingSum(inbox, cursor, a) + (IF b = a THEN m ELSE 0)
      <4>1. d.asset = b /\ d.amount = m
        BY Zenon
      <4> HIDE DEF d
      <4>2. WaitingSum(Append(inbox, d), cursor, a) =
              WaitingSum(inbox, cursor, a) + (IF d.asset = a THEN d.amount ELSE 0)
        BY <1>0, <2>1, WaitingAppend, Zenon
      <4> QED
        BY <4>1, <4>2, Zenon
    <3>2. pending'[a] = pending[a] + (IF b = a THEN m ELSE 0)
      <4>1. m \in Nat
        BY AmountsNat, Zenon
      <4>2. [pending EXCEPT ![b] = @ + m][a] = pending[a] + (IF b = a THEN m ELSE 0)
        BY <1>0, <4>1, TotalChange, Zenon
      <4> QED
        BY <2>2, <4>2, Zenon
    <3>3. WaitingSum(inbox', cursor', a) = WaitingSum(Append(inbox, d), cursor, a)
      BY <2>2, Zenon
    <3> QED
      BY <1>1, <3>1, <3>2, <3>3, Zenon
  <2> QED
    BY <1>1, <1>2, <2>2, <2>3, Zenon
<1>4. ASSUME NEW i \in DOMAIN inbox, Refund(i) PROVE Ledger'
  <2>1. /\ i > cursor /\ ~inbox[i].refunded /\ inbox' = [inbox EXCEPT ![i].refunded = TRUE]
        /\ pending' = [pending EXCEPT ![inbox[i].asset] = @ - inbox[i].amount]
        /\ UNCHANGED <<cursor, claimable, outbox, claimed, batch>>
    BY <1>4, Zenon DEF Refund
  <2>2. inbox[i] \in Deposits
    BY <1>0, SeqFacts, Zenon
  <2>3. ASSUME NEW a \in Assets PROVE pending'[a] = WaitingSum(inbox', cursor', a)
    <3>1. WaitingSum([inbox EXCEPT ![i].refunded = TRUE], cursor, a) =
            WaitingSum(inbox, cursor, a) - (IF inbox[i].asset = a THEN inbox[i].amount ELSE 0)
      <4>1. /\ i \in 1 .. Len(inbox) /\ inbox \in Seq(Deposits) /\ cursor \in 0 .. Len(inbox)
            /\ i > cursor /\ ~inbox[i].refunded
        BY <1>0, <2>1, Zenon
      <4> QED
        BY <4>1, WaitingRefund, ZenonT(60)
    <3>2. pending'[a] = pending[a] - (IF inbox[i].asset = a THEN inbox[i].amount ELSE 0)
      <4> DEFINE v == inbox[i].amount
                 b == inbox[i].asset
      <4>1. v \in Nat /\ b \in Assets
        <5>1. v \in Amounts /\ b \in Assets
          BY <2>2, Zenon DEF Deposits
        <5> QED
          BY <5>1, AmountsNat, Zenon
      <4>2. pending' = [pending EXCEPT ![b] = @ - v]
        BY <2>1, Zenon
      <4> HIDE DEF v, b
      <4>3. [pending EXCEPT ![b] = @ - v][a] = pending[a] - (IF b = a THEN v ELSE 0)
        BY <1>0, <4>1, TotalChange, Zenon
      <4>4. pending'[a] = pending[a] - (IF b = a THEN v ELSE 0)
        BY <4>2, <4>3, Zenon
      <4> QED
        BY <4>4, Zenon DEF v, b
    <3>3. WaitingSum(inbox', cursor', a) =
            WaitingSum([inbox EXCEPT ![i].refunded = TRUE], cursor, a)
      BY <2>1, Zenon
    <3> QED
      BY <1>1, <3>1, <3>2, <3>3, Zenon
  <2> QED
    BY <1>1, <1>2, <2>1, <2>3, Zenon
<1>5. ASSUME NEW leaf \in outbox, Claim(leaf) PROVE Ledger'
  <2>1. /\ leaf \in outbox \ claimed /\ claimed' = claimed \cup {leaf}
        /\ claimable' = [claimable EXCEPT ![leaf.asset] = @ - leaf.amount]
        /\ UNCHANGED <<inbox, cursor, pending, outbox, batch>>
    BY <1>5, Zenon DEF Claim
  <2>2. ASSUME NEW a \in Assets PROVE claimable'[a] = UnclaimedSum(outbox', claimed', a)
    <3>1. UnclaimedSum(outbox, claimed \cup {leaf}, a) =
            UnclaimedSum(outbox, claimed, a) - (IF leaf.asset = a THEN leaf.amount ELSE 0)
      <4>1. /\ IsFiniteSet(outbox) /\ \A l \in outbox : l.amount \in Nat
            /\ leaf \in outbox \ claimed
        BY <2>1, Zenon DEF Ledger
      <4> QED
        BY <4>1, UnclaimedClaim, ZenonT(60)
    <3>2. claimable'[a] = claimable[a] - (IF leaf.asset = a THEN leaf.amount ELSE 0)
      <4> DEFINE v == leaf.amount
                 b == leaf.asset
      <4>1. v \in Nat /\ b \in Assets
        BY Zenon DEF Ledger, Inv, LeafAssets
      <4>2. claimable' = [claimable EXCEPT ![b] = @ - v]
        BY <2>1, Zenon
      <4> HIDE DEF v, b
      <4>3. [claimable EXCEPT ![b] = @ - v][a] = claimable[a] - (IF b = a THEN v ELSE 0)
        BY <1>0, <4>1, TotalChange, Zenon
      <4>4. claimable'[a] = claimable[a] - (IF b = a THEN v ELSE 0)
        BY <4>2, <4>3, Zenon
      <4> QED
        BY <4>4, Zenon DEF v, b
    <3>3. UnclaimedSum(outbox', claimed', a) = UnclaimedSum(outbox, claimed \cup {leaf}, a)
      BY <2>1, Zenon
    <3> QED
      BY <1>1, <3>1, <3>2, <3>3, Zenon
  <2>3. \A a \in Assets : pending'[a] = WaitingSum(inbox', cursor', a)
    BY <1>1, <2>1, Zenon
  <2> QED
    BY <1>2, <2>1, <2>2, <2>3, Zenon
<1>6. ASSUME NEW k \in cursor .. Len(inbox), NEW close \in BOOLEAN, NEW fees \in Fees(k),
             NEW effect \in Effects(Credited(k, fees)),
             NEW seen \in Recordings(Credited(k, fees), effect.balance),
             Batch(k, fees, effect, seen, close)
      PROVE  Ledger'
  <2> DEFINE leaves == Leaves(k, effect.queue, effect.balance, seen, close)
  <2>1. /\ cursor' = k /\ inbox' = inbox /\ claimed' = claimed
        /\ outbox' = outbox \cup leaves /\ batch' = batch + 1
        /\ pending' = [a \in Assets |-> pending[a] - Consumed(a, k)]
        /\ claimable' = [a \in Assets |-> claimable[a] + SumOf(leaves, a)]
        /\ Provable(k, fees, effect, seen, close) /\ effect.balance = balance' /\ effect.queue = queue'
    BY <1>6, Zenon DEF Batch
  <2>2. queue \in Seq(Records) /\ effect.queue \in Seq(Records)
    BY EffectsQueue, Zenon DEF Minted
  <2>3. effect.balance \in [Assets -> [Accounts -> Nat]]
    <3>1. Inv'
      BY <1>6, BatchInv, Zenon
    <3> QED
      BY <2>1, <3>1, Zenon DEF Inv, TypeOK
  <2>4. IsFiniteSet(leaves) /\ \A leaf \in leaves : leaf.amount \in Nat /\ leaf.batch = batch + 1
    BY <2>1, <2>2, <2>3, LeavesFacts, Zenon
  <2> HIDE DEF leaves
  <2>5. /\ IsFiniteSet(outbox')
        /\ \A leaf \in outbox' : leaf.amount \in Nat /\ leaf.batch \in 1 .. batch'
    <3>1. IsFiniteSet(outbox \cup leaves)
      BY <2>4, FiniteUnion, Zenon DEF Ledger
    <3>2. ASSUME NEW leaf \in outbox \cup leaves
          PROVE  leaf.amount \in Nat /\ leaf.batch \in 1 .. batch + 1
      <4>1. CASE leaf \in outbox
        BY <1>0, <4>1 DEF Ledger
      <4>2. CASE leaf \in leaves
        BY <1>0, <2>4, <4>2, SMTT(60)
      <4> QED
        BY <4>1, <4>2, Zenon
    <3> QED
      BY <2>1, <3>1, <3>2, Zenon
  <2>6. ASSUME NEW a \in Assets PROVE pending'[a] = WaitingSum(inbox', cursor', a)
    <3>1. WaitingSum(inbox, cursor, a) = Consumed(a, k) + WaitingSum(inbox, k, a)
      BY WaitingCross, Zenon
    <3>2. Consumed(a, k) \in Nat
      BY ConsumedNat, Zenon
    <3>3. WaitingSum(inbox, k, a) \in Nat
      <4> DEFINE f == [i \in DOMAIN inbox |-> inbox[i].amount]
                 W == Waiting(inbox, k, a)
      <4>1. k \in 0 .. Len(inbox)
        BY <1>0, SMTT(60)
      <4>2. IsFiniteSet(W) /\ \A i \in W : f[i] \in Nat
        BY <1>0, <4>1, WaitingFacts, Zenon
      <4>3. WaitingSum(inbox, k, a) = SumFunctionOnSet(f, W)
        BY Zenon DEF WaitingSum
      <4> HIDE DEF f, W
      <4> QED
        BY <4>2, <4>3, SumNat, Zenon
    <3>4. pending'[a] = pending[a] - Consumed(a, k)
      BY <2>1, Zenon
    <3>5. WaitingSum(inbox', cursor', a) = WaitingSum(inbox, k, a)
      BY <2>1, ZenonT(60)
    <3>6. pending[a] = WaitingSum(inbox, cursor, a)
      BY <1>1, Zenon
    <3>7. (Consumed(a, k) + WaitingSum(inbox, k, a)) - Consumed(a, k) = WaitingSum(inbox, k, a)
      BY <3>2, <3>3, Rest, Zenon
    <3> QED
      BY <3>1, <3>4, <3>5, <3>6, <3>7, Zenon
  <2>7. ASSUME NEW a \in Assets PROVE claimable'[a] = UnclaimedSum(outbox', claimed', a)
    <3>1. outbox \cap leaves = {}
      BY <1>0, <2>4 DEF Ledger
    <3>2. IsFiniteSet(outbox) /\ \A leaf \in outbox \cup leaves : leaf.amount \in Nat
      BY <2>4, Zenon DEF Ledger
    <3>3. UnclaimedSum(outbox \cup leaves, claimed, a) =
            UnclaimedSum(outbox, claimed, a) + SumOf(leaves, a)
      BY <1>0, <2>4, <3>1, <3>2, UnclaimedMint, SMTT(60)
    <3>4. claimable'[a] = claimable[a] + SumOf(leaves, a)
      BY <2>1, Zenon
    <3>5. UnclaimedSum(outbox', claimed', a) = UnclaimedSum(outbox \cup leaves, claimed, a)
      BY <2>1, Zenon
    <3> QED
      BY <1>1, <3>3, <3>4, <3>5, Zenon
  <2> QED
    BY <2>5, <2>6, <2>7, TotalsUnfold, Zenon DEF Ledger
<1>7. CASE UNCHANGED vars
  <2>1. UNCHANGED <<outbox, batch, inbox, cursor, pending, claimable, claimed>>
    BY <1>7, Zenon DEF vars, liabilities
  <2> QED
    BY <1>1, <1>2, <2>1, Zenon
<1> QED
    BY <1>3, <1>4, <1>5, <1>6, <1>7, Zenon DEF Next

\* The totals of every asset are what the inbox and the outbox hold, for every
\* application and any number of deposits, batches and claims.
THEOREM TotalsHold == Spec => []TotalsAreQueues
<1>1. Init => Ledger
  <2> SUFFICES ASSUME Init PROVE Ledger
    BY Zenon
  <2>1. inbox = <<>> /\ outbox = {} /\ cursor = 0 /\ claimed = {}
        /\ \A a \in Assets : pending[a] = 0 /\ claimable[a] = 0
    BY Zenon DEF Init, Nothing
  <2>2. \A a \in Assets : Waiting(inbox, cursor, a) = {} /\ Unclaimed(outbox, claimed, a) = {}
    BY <2>1 DEF Waiting, Unclaimed
  <2>3. \A a \in Assets : WaitingSum(inbox, cursor, a) = 0 /\ UnclaimedSum(outbox, claimed, a) = 0
    BY <2>2, SumEmpty, Zenon DEF WaitingSum, UnclaimedSum
  <2>4. IsFiniteSet(outbox)
    BY <2>1, FiniteEmpty, Zenon
  <2> QED
    BY <2>1, <2>3, <2>4, TotalsUnfold, Zenon DEF Ledger
<1>2. Ledger => TotalsAreQueues
    BY Zenon DEF Ledger
<1> QED
    BY <1>1, <1>2, InvInit, InvNext, MintedInit, MintedNext, LedgerNext, PTL DEF Spec

-----------------------------------------------------------------------------
(* An honest application *)

\* What a move takes of asset a.
LEMMA MoveNat ==
    ASSUME NEW m \in Moves, NEW a
    PROVE  (IF m.asset = a THEN m.amount ELSE 0) \in Nat
<1>1. m.amount \in Amounts
    BY Zenon DEF Moves
<1> QED
    BY <1>1, AmountsNat, Zenon

\* Burning and minting, on the sum of the balances of an asset.
LEMMA BurnMintSum ==
    ASSUME NEW before \in [Assets -> [Accounts -> Nat]], NEW m \in Moves, NEW a \in Assets
    PROVE  LET sum(b) == SumFunctionOnSet(b[a], Accounts)
               moved == IF m.asset = a THEN m.amount ELSE 0
           IN  /\ before[m.asset][m.from] >= m.amount =>
                    sum(Burn(before, m)) = sum(before) - moved
               /\ sum(Mint(before, m)) = sum(before) + moved
<1>1. /\ m.asset \in Assets /\ m.from \in Accounts /\ m.to \in Accounts /\ m.amount \in Nat
      /\ IsFiniteSet(Accounts)
  <2>1. m.asset \in Assets /\ m.from \in Accounts /\ m.to \in Accounts /\ m.amount \in Amounts
    BY Zenon DEF Moves
  <2> QED
    BY <2>1, AmountsNat, FiniteAssumption, Zenon
<1>2. \A b \in Assets : before[b] \in [Accounts -> Nat]
    BY Zenon
<1>3. \A x \in Accounts : before[a][x] \in Int
    BY <1>2
<1>4. SumFunctionOnSet(before[a], Accounts) \in Int
    BY <1>1, <1>3, SumInt, Zenon
<1>5. CASE m.asset # a
  <2>1. Burn(before, m)[a] = before[a] /\ Mint(before, m)[a] = before[a]
    BY <1>1, <1>5, Zenon DEF Burn, Mint
  <2> QED
    BY <1>4, <1>5, <2>1, SMTT(60)
<1>6. CASE m.asset = a
  <2>1. /\ Burn(before, m)[a] = [before[a] EXCEPT ![m.from] = @ - m.amount]
        /\ Mint(before, m)[a] = [before[a] EXCEPT ![m.to] = @ + m.amount]
    BY <1>1, <1>6, Zenon DEF Burn, Mint
  <2> DEFINE f == before[a]
             g == [f EXCEPT ![m.from] = @ - m.amount]
             h == [f EXCEPT ![m.to] = @ + m.amount]
  <2>2. f \in [Accounts -> Nat]
    BY <1>2, Zenon
  <2>3. /\ g[m.from] = f[m.from] + (0 - m.amount) /\ \A x \in Accounts \ {m.from} : g[x] = f[x]
        /\ h[m.to] = f[m.to] + m.amount /\ \A x \in Accounts \ {m.to} : h[x] = f[x]
        /\ 0 - m.amount \in Int
    BY <1>1, <2>2
  <2> HIDE DEF f, g, h
  <2>4. /\ SumFunctionOnSet(g, Accounts) = SumFunctionOnSet(f, Accounts) + (0 - m.amount)
        /\ SumFunctionOnSet(h, Accounts) = SumFunctionOnSet(f, Accounts) + m.amount
    <3>1. \A x \in Accounts : f[x] \in Int
      BY <2>2, SMTT(60)
    <3>2. SumFunctionOnSet(g, Accounts) = SumFunctionOnSet(f, Accounts) + (0 - m.amount)
      BY <1>1, <2>3, <3>1, SumChange, SMTT(60)
    <3>3. SumFunctionOnSet(h, Accounts) = SumFunctionOnSet(f, Accounts) + m.amount
      BY <1>1, <2>3, <3>1, SumChange, SMTT(60)
    <3> QED
      BY <3>2, <3>3, Zenon
  <2>5. f = before[a] /\ g = Burn(before, m)[a] /\ h = Mint(before, m)[a]
    BY <2>1, Zenon DEF f, g, h
  <2> QED
    BY <1>1, <1>4, <1>6, <2>4, <2>5, SMTT(60)
<1> QED
    BY <1>5, <1>6, Zenon

\* Crediting the crossed deposits adds at most what the batch consumes.
LEMMA CreditedSum ==
    ASSUME Inv, NEW k \in cursor .. Len(inbox), NEW fees \in Fees(k), NEW a \in Assets,
           \A i \in Crossed(k) : Creditable(i, fees[i])
    PROVE  SumFunctionOnSet(Credited(k, fees)[a], Accounts)
             <= SumFunctionOnSet(balance[a], Accounts) + Consumed(a, k)
<1> DEFINE w == [i \in Crossed(k) |-> inbox[i].amount - fees[i]]
           v == [i \in Crossed(k) |-> inbox[i].amount]
           D == {i \in Crossed(k) : inbox[i].asset = a}
           b == [i \in Crossed(k) |-> inbox[i].beneficiary]
           base == balance[a]
           credited == [x \in Accounts |-> base[x] + SumFunctionOnSet(w, {i \in D : b[i] = x})]
<1>1. /\ IsFiniteSet(Crossed(k)) /\ Crossed(k) \subseteq DOMAIN inbox
      /\ \A i \in Crossed(k) : inbox[i] \in Deposits /\ inbox[i].amount \in Nat
    BY ConsumedNat, Zenon
<1>2. ASSUME NEW i \in Crossed(k)
      PROVE  /\ w[i] \in Int /\ v[i] \in Int /\ w[i] <= v[i] /\ b[i] \in Accounts
  <2>1. fees[i] \in Nat
    <3>1. fees[i] \in Amounts \cup {0}
      BY Zenon DEF Fees
    <3> QED
      BY <3>1, AmountsNat
  <2>2. inbox[i].beneficiary \in Accounts /\ inbox[i].amount \in Nat
    BY <1>1, Zenon DEF Deposits
  <2> QED
    BY <2>1, <2>2
<1>3. D \subseteq Crossed(k) /\ IsFiniteSet(D)
    BY <1>1, FiniteSubset, Zenon
<1>4. base \in [Accounts -> Int] /\ IsFiniteSet(Accounts)
    BY FiniteAssumption DEF Inv, TypeOK
<1>5. Credited(k, fees)[a] = credited
  <2>1. \A x \in Accounts :
          {i \in Crossed(k) : inbox[i].asset = a /\ inbox[i].beneficiary = x} = {i \in D : b[i] = x}
    BY Zenon
  <2>2. Credited(k, fees)[a] = [x \in Accounts |-> balance[a][x] + SumFunctionOnSet(w,
            {i \in Crossed(k) : inbox[i].asset = a /\ inbox[i].beneficiary = x})]
    BY Zenon DEF Credited
  <2> HIDE DEF w, D, b
  <2> QED
    BY <2>1, <2>2, Zenon
<1>6. Consumed(a, k) = SumFunctionOnSet(v, D)
    BY Zenon DEF Consumed
<1> HIDE DEF w, v, D, b, base
<1>7. SumFunctionOnSet(credited, Accounts) = SumFunctionOnSet(base, Accounts) + SumFunctionOnSet(w, D)
  <2>1. (\A i \in D : w[i] \in Int) /\ (\A i \in D : b[i] \in Accounts)
    BY <1>2, <1>3, Zenon
  <2>2. \A x \in Accounts : credited[x] = base[x] + SumFunctionOnSet(w, {i \in D : b[i] = x})
    BY Zenon
  <2> HIDE DEF credited
  <2> QED
    BY <1>3, <1>4, <2>1, <2>2, SumGroups, SMTT(60)
<1>8. SumFunctionOnSet(w, D) <= SumFunctionOnSet(v, D)
    BY <1>2, <1>3, SumMonotone, Zenon
<1>9. /\ SumFunctionOnSet(w, D) \in Int /\ SumFunctionOnSet(v, D) \in Int
      /\ SumFunctionOnSet(base, Accounts) \in Int
    BY <1>2, <1>3, <1>4, SumInt, Zenon
<1> HIDE DEF credited
<1> QED
    BY <1>5, <1>6, <1>7, <1>8, <1>9, SMTT(60) DEF base

\* What an honest application leaves to the accounts and lets exit is no more
\* than what the room controls, once the deposits are credited.
LEMMA HonestBacked ==
    ASSUME Inv, queue \in Seq(Records), HonestApp, BalancesBacked, phase = "open",
           NEW k \in cursor .. Len(inbox), NEW fees \in Fees(k), NEW a \in Assets,
           \A i \in Crossed(k) : Creditable(i, fees[i]),
           Credited(k, fees) \in [Assets -> [Accounts -> Nat]],
           NEW effect \in Effects(Credited(k, fees))
    PROVE  SumFunctionOnSet(effect.balance[a], Accounts) <= Residual(a, k, effect.queue)
<1> DEFINE before == Credited(k, fees)
           Sum(b) == SumFunctionOnSet(b[a], Accounts)
           limit == controlled[a] + Consumed(a, k)
<1>1. controlled[a] \in Nat /\ Consumed(a, k) \in Nat /\ limit \in Nat
  <2>1. controlled[a] \in Nat
    BY TotalsNat, Zenon
  <2>2. Consumed(a, k) \in Nat
    BY ConsumedNat, Zenon
  <2> QED
    BY <2>1, <2>2
<1>2. IsFiniteSet(Accounts)
    BY FiniteAssumption, Zenon
<1>3. \A b \in [Assets -> [Accounts -> Nat]] : Sum(b) \in Nat
  <2> SUFFICES ASSUME NEW b \in [Assets -> [Accounts -> Nat]] PROVE Sum(b) \in Nat
    BY Zenon
  <2>1. \A x \in Accounts : b[a][x] \in Nat
    BY Zenon
  <2> QED
    BY <1>2, <2>1, SumNat, Zenon
<1>4. Sum(before) <= limit
  <2>1. Sum(before) <= SumFunctionOnSet(balance[a], Accounts) + Consumed(a, k)
    BY CreditedSum, Zenon
  <2>2. SumFunctionOnSet(balance[a], Accounts) <= controlled[a]
    BY Zenon DEF BalancesBacked
  <2>3. Sum(balance) \in Nat /\ Sum(before) \in Nat
    BY <1>3, Zenon DEF Inv, TypeOK
  <2> HIDE DEF before
  <2> QED
    BY <1>1, <2>1, <2>2, <2>3, BoundBound, Zenon
<1>5. Len(queue) \in Nat
    BY SeqFacts, Zenon
<1>6. ASSUME NEW q, Len(q) = Len(queue)
      PROVE  SumOf(RecordLeaves(q), a) = 0
  <2>1. Len(queue) + 1 .. Len(q) = {}
    BY <1>5, <1>6
  <2>2. RecordLeaves(q) = {}
    BY <2>1, Zenon DEF RecordLeaves
  <2>3. {leaf \in RecordLeaves(q) : leaf.asset = a} = {}
    BY <2>2, Zenon
  <2> QED
    BY <2>3, SumEmpty, Zenon DEF SumOf
<1>7. ASSUME NEW m \in Moves
      PROVE  SumOf(RecordLeaves(Append(queue, Exit(m))), a) = IF m.asset = a THEN m.amount ELSE 0
  <2> DEFINE q == Append(queue, Exit(m))
             n == Len(queue) + 1
             leaf == RecordLeaf(n, q[n])
             f == [l \in RecordLeaves(q) |-> l.amount]
  <2>0. m.asset \in Assets /\ m.amount \in Nat
    <3>1. m.asset \in Assets /\ m.amount \in Amounts
      BY Zenon DEF Moves
    <3> QED
      BY <3>1, AmountsNat, Zenon
  <2>1. Exit(m) \in Records /\ Exit(m).asset = m.asset /\ Exit(m).amount = m.amount
    BY <2>0, Zenon DEF Exit, Records, Moves
  <2>2. Len(q) = n /\ q[n] = Exit(m)
    <3> DEFINE x == Exit(m)
    <3>1. x \in Records
      BY <2>1, Zenon
    <3> HIDE DEF x
    <3>2. Len(Append(queue, x)) = Len(queue) + 1 /\ Append(queue, x)[Len(queue) + 1] = x
      BY <3>1, SeqAppendLast, Zenon
    <3> QED
      BY <3>2, Zenon DEF x
  <2>3. leaf.asset = m.asset /\ leaf.amount = m.amount
    BY <2>1, <2>2, Zenon DEF RecordLeaf
  <2>4. n .. Len(q) = {n}
    BY <1>5, <2>2
  <2>5. RecordLeaves(q) = {leaf}
    BY <2>4, Zenon DEF RecordLeaves
  <2>6. SumOf(RecordLeaves(q), a) = SumFunctionOnSet(f, {l \in RecordLeaves(q) : l.asset = a})
    BY Zenon DEF SumOf
  <2>7. f[leaf] = m.amount
    BY <2>3, <2>5, Zenon
  <2> HIDE DEF q, leaf, f
  <2>8. CASE m.asset = a
    <3>1. {l \in RecordLeaves(q) : l.asset = a} = {leaf}
      BY <2>3, <2>5, <2>8, Zenon
    <3>2. SumFunctionOnSet(f, {leaf}) = f[leaf] + SumFunctionOnSet(f, {leaf} \ {leaf})
      <4>1. IsFiniteSet({leaf})
        BY SingletonSize, Zenon
      <4>2. leaf \in {leaf} /\ \A l \in {leaf} : f[l] \in Int
        BY <2>0, <2>7
      <4> QED
        BY <4>1, <4>2, SumRemove, Zenon
    <3>3. {leaf} \ {leaf} = {}
      BY Zenon
    <3>4. SumFunctionOnSet(f, {leaf} \ {leaf}) = 0
      BY <3>3, SumEmpty, Zenon
    <3>5. SumOf(RecordLeaves(q), a) = SumFunctionOnSet(f, {leaf})
      BY <2>6, <3>1, Zenon
    <3>6. SumOf(RecordLeaves(q), a) = m.amount
      BY <2>0, <2>7, <3>2, <3>4, <3>5
    <3> QED
      BY <2>8, <3>6, Zenon DEF q
  <2>9. CASE m.asset # a
    <3>1. {l \in RecordLeaves(q) : l.asset = a} = {}
      BY <2>3, <2>5, <2>9, Zenon
    <3>2. SumOf(RecordLeaves(q), a) = 0
      BY <2>6, <3>1, SumEmpty, Zenon
    <3> QED
      BY <2>9, <3>2, ZenonT(60) DEF q
  <2> QED
    BY <2>8, <2>9, Zenon
<1>8. \/ effect.balance = before /\ effect.queue = queue
      \/ \E m \in Moves : /\ before[m.asset][m.from] >= m.amount
                          /\ \/ /\ effect.balance = Mint(Burn(before, m), m)
                                /\ effect.queue = queue
                             \/ /\ effect.balance = Burn(before, m)
                                /\ effect.queue = Append(queue, Exit(m))
  <2> HIDE DEF before
  <2>1. ASSUME NEW after, NEW q, effect = Effect(after, q)
        PROVE  effect.balance = after /\ effect.queue = q
    BY <2>1, Zenon DEF Effect
  <2>2. effect \in HonestEffects(before)
    BY Zenon DEF Effects, before
  <2> QED
    BY <2>1, <2>2, Zenon DEF HonestEffects
<1>9. \A n \in Nat : SumOf(RecordLeaves(effect.queue), a) = n =>
                     Residual(a, k, effect.queue) = limit - n
    BY <1>1 DEF Residual
<1>10. before \in [Assets -> [Accounts -> Nat]] /\ Sum(before) \in Nat
    BY <1>3, Zenon
<1> HIDE DEF before, limit, Sum
<1>11. ASSUME effect.balance = before, effect.queue = queue
       PROVE  Sum(effect.balance) <= Residual(a, k, effect.queue)
    BY <1>1, <1>4, <1>6, <1>9, <1>10, <1>11, SMTT(60)
<1>12. ASSUME NEW m \in Moves, before[m.asset][m.from] >= m.amount,
              effect.balance = Mint(Burn(before, m), m), effect.queue = queue
       PROVE  Sum(effect.balance) <= Residual(a, k, effect.queue)
  <2> DEFINE moved == IF m.asset = a THEN m.amount ELSE 0
  <2>1. moved \in Nat
    BY MoveNat, ZenonT(60)
  <2>2. Burn(before, m) \in [Assets -> [Accounts -> Nat]]
    BY <1>10, <1>12, BurnMintType, ZenonT(60)
  <2>3. Sum(Burn(before, m)) = Sum(before) - moved
    BY <1>10, <1>12, BurnMintSum, ZenonT(60) DEF Sum
  <2>4. Sum(effect.balance) = Sum(Burn(before, m)) + moved
    BY <1>12, <2>2, BurnMintSum, ZenonT(60) DEF Sum
  <2>5. SumOf(RecordLeaves(effect.queue), a) = 0
    BY <1>6, <1>12, Zenon
  <2> HIDE DEF moved
  <2> QED
    <3>1. (Sum(before) - moved) + moved <= limit - 0
      BY <1>1, <1>4, <1>10, <2>1, MoveBound, Zenon
    <3>2. Residual(a, k, effect.queue) = limit - 0
      BY <1>9, <2>5, ZeroNat, Zenon
    <3> QED
      BY <2>3, <2>4, <3>1, <3>2, Zenon
<1>13. ASSUME NEW m \in Moves, before[m.asset][m.from] >= m.amount,
              effect.balance = Burn(before, m), effect.queue = Append(queue, Exit(m))
       PROVE  Sum(effect.balance) <= Residual(a, k, effect.queue)
  <2> DEFINE moved == IF m.asset = a THEN m.amount ELSE 0
  <2>1. moved \in Nat
    BY MoveNat, ZenonT(60)
  <2>2. Sum(effect.balance) = Sum(before) - moved
    BY <1>10, <1>13, BurnMintSum, ZenonT(60) DEF Sum
  <2>3. SumOf(RecordLeaves(effect.queue), a) = moved
    BY <1>7, <1>13, Zenon
  <2> HIDE DEF moved
  <2> QED
    <3>1. Sum(before) - moved <= limit - moved
      BY <1>1, <1>4, <1>10, <2>1, TakeBound, Zenon
    <3>2. Residual(a, k, effect.queue) = limit - moved
      BY <1>9, <2>1, <2>3, Zenon
    <3> QED
      BY <2>2, <3>1, <3>2, Zenon
<1>14. Sum(effect.balance) <= Residual(a, k, effect.queue)
    BY <1>8, <1>11, <1>12, <1>13, ZenonT(60)
<1> QED
    BY <1>14, Zenon DEF Sum

\* A positive balance makes the total positive, and the bound on the sum bounds it.
LEMMA SweptTotal ==
    ASSUME NEW total \in Nat, NEW held \in Nat, NEW sum \in Nat, NEW residual \in Nat,
           held > 0, held <= total, total <= sum, sum <= residual
    PROVE  total \in Nat \ {0} /\ residual >= total
OBVIOUS

\* A step that closes the room hands out at least every balance it sweeps.
LEMMA ClosingShares ==
    ASSUME NEW a \in Bound, NEW seen, NEW x \in CodeFree \cap seen, NEW k, NEW effect,
           effect.balance \in [Assets -> [Accounts -> Nat]], effect.balance[a][x] > 0,
           SumFunctionOnSet(effect.balance[a], Accounts) <= Residual(a, k, effect.queue),
           Residual(a, k, effect.queue) \in Nat
    PROVE  \E leaf \in Leaves(k, effect.queue, effect.balance, seen, TRUE) :
             /\ leaf.from = <<"share", x>> /\ leaf.asset = a
             /\ leaf.recipient = x /\ leaf.amount >= effect.balance[a][x]
<1> DEFINE after == effect.balance
           residual == Residual(a, k, effect.queue)
           total == Total(a, after, CodeFree \cap seen)
           leaf == [batch |-> batch + 1, from |-> <<"share", x>>, recipient |-> x, asset |-> a,
                    amount |-> (residual * after[a][x]) \div total]
<1>1. a \in Assets
    BY BoundAssets, Zenon
<1>2. /\ total \in Nat /\ after[a][x] \in Nat /\ after[a][x] <= total
      /\ total <= SumFunctionOnSet(after[a], Accounts)
    BY <1>1, TotalFacts, SweptAccounts, Zenon
<1>3. SumFunctionOnSet(after[a], Accounts) \in Nat
  <2>1. \A y \in Accounts : after[a][y] \in Nat
    BY <1>1, Zenon
  <2> QED
    BY <2>1, FiniteAssumption, SumNat, ZenonT(60)
<1>4. total \in Nat \ {0} /\ residual >= total /\ residual \in Nat
  <2>1. after[a][x] > 0 /\ residual \in Nat /\ SumFunctionOnSet(after[a], Accounts) <= residual
    BY Zenon
  <2> HIDE DEF residual, total, after, leaf
  <2> QED
    BY <1>2, <1>3, <2>1, SweptTotal, Zenon
<1>5. leaf.amount \in Nat /\ leaf.amount >= after[a][x] /\ leaf.amount > 0
  <2> DEFINE amount == (residual * after[a][x]) \div total
  <2>1. amount \in Nat /\ amount >= after[a][x]
    <3> HIDE DEF residual, total, after
    <3> QED
      BY <1>2, <1>4, FloorShare, ZenonT(60)
  <2>2. leaf.amount = amount
    BY Zenon
  <2> HIDE DEF amount, leaf, total, residual
  <2> QED
    BY <1>2, <2>1, <2>2, SMTT(60)
<1>6. leaf \in Shares(a, residual, after, CodeFree \cap seen)
    BY <1>5, ZenonT(60) DEF Shares
<1>7. leaf \in Sweep(a, residual, after, CodeFree \cap seen)
  <2>1. residual # 0
    BY <1>4, SMTT(60)
  <2> QED
    BY <1>6, <2>1, Zenon DEF Sweep
<1>8. leaf \in Leaves(k, effect.queue, effect.balance, seen, TRUE)
    BY <1>7, Zenon DEF Leaves
<1> QED
    BY <1>5, <1>8, Zenon

\* A step of an honest application keeps both.
LEMMA HonestNext ==
    Inv /\ Minted /\ BalancesBacked /\ CloseMakesWhole /\ [Next]_vars
      => BalancesBacked' /\ CloseMakesWhole'
<1> SUFFICES ASSUME Inv, Minted, BalancesBacked, CloseMakesWhole, [Next]_vars, HonestApp
             PROVE  BalancesBacked' /\ CloseMakesWhole'
    BY Zenon DEF BalancesBacked, CloseMakesWhole
<1>1. ASSUME UNCHANGED <<phase, controlled, balance, recorded, outbox>>
      PROVE  BalancesBacked' /\ CloseMakesWhole'
    BY <1>1, Zenon DEF BalancesBacked, CloseMakesWhole
<1>2. ASSUME NEW b \in Assets, NEW x \in Accounts, NEW m \in Amounts, Deposit(b, x, m)
      PROVE  BalancesBacked' /\ CloseMakesWhole'
    BY <1>1, <1>2, Zenon DEF Deposit
<1>3. ASSUME NEW i \in DOMAIN inbox, Refund(i) PROVE BalancesBacked' /\ CloseMakesWhole'
    BY <1>1, <1>3, Zenon DEF Refund
<1>4. ASSUME NEW leaf \in outbox, Claim(leaf) PROVE BalancesBacked' /\ CloseMakesWhole'
    BY <1>1, <1>4, Zenon DEF Claim
<1>5. ASSUME NEW k \in cursor .. Len(inbox), NEW close \in BOOLEAN, NEW fees \in Fees(k),
             \A i \in Crossed(k) : Creditable(i, fees[i]),
             NEW effect \in Effects(Credited(k, fees)),
             NEW seen \in Recordings(Credited(k, fees), effect.balance),
             Batch(k, fees, effect, seen, close)
      PROVE  BalancesBacked' /\ CloseMakesWhole'
  <2> DEFINE leaves == Leaves(k, effect.queue, effect.balance, seen, close)
  <2>1. /\ balance' = effect.balance /\ recorded' = seen /\ outbox' = outbox \cup leaves
        /\ phase = "open"
        /\ phase' = (IF close THEN "closed" ELSE "open")
        /\ controlled' = [a \in Assets |-> controlled[a] + Consumed(a, k) - SumOf(leaves, a)]
        /\ Provable(k, fees, effect, seen, close)
    BY <1>5, ZenonT(60) DEF Batch, ControlledAfter
  <2>2. queue \in Seq(Records) /\ effect.queue \in Seq(Records)
    BY EffectsQueue, Zenon DEF Minted
  <2>3. Credited(k, fees) \in [Assets -> [Accounts -> Nat]]
    <3>1. \A a \in Assets, x \in Accounts : Credited(k, fees)[a][x] \in Nat
      BY <2>1, IntervalNat, Zenon DEF Provable
    <3> QED
      BY <3>1, ZenonT(60) DEF Credited
  <2>4. effect.balance \in [Assets -> [Accounts -> Nat]]
    BY <2>3, EffectsType, Zenon
  <2>5. \A a \in Assets : SumFunctionOnSet(effect.balance[a], Accounts) <= Residual(a, k, effect.queue)
    BY <1>5, <2>1, <2>2, <2>3, HonestBacked, Zenon
  <2>6. CASE close
    <3>1. phase' = "closed" /\ close = TRUE
      BY <2>1, <2>6, Zenon
    <3>2. BalancesBacked'
      BY <3>1, Zenon DEF BalancesBacked
    <3>3. ASSUME NEW a \in Bound, NEW x \in CodeFree, balance'[a][x] > 0,
                 a = Native \/ x \in recorded'
          PROVE  \E leaf \in outbox' :
                   /\ leaf.from = <<"share", x>> /\ leaf.asset = a
                   /\ leaf.recipient = x /\ leaf.amount >= balance'[a][x]
      <4>1. a \in Assets
        BY BoundAssets, Zenon
      <4>2. Residual(a, k, effect.queue) \in Nat
        <5>1. Residual(a, k, effect.queue) >= 0
          BY <2>1, <2>6, <4>1, Zenon DEF Provable
        <5>2. controlled[a] \in Nat
          BY <4>1, TotalsNat, ZenonT(60)
        <5>3. Consumed(a, k) \in Nat
          BY ConsumedNat, Zenon
        <5>4. SumOf(RecordLeaves(effect.queue), a) \in Nat
          BY <2>2, RecordLeavesFacts, SumOfNat, Zenon
        <5> QED
          BY <5>1, <5>2, <5>3, <5>4, SMTT(60) DEF Residual
      <4>3. x \in CodeFree \cap seen
        <5>1. CASE a = Native
          <6>1. x \in Holders(effect.balance)
            BY <2>1, <3>3, <5>1, EscrowAssumption, Zenon DEF Holders
          <6> QED
            BY <1>5, <6>1, Zenon DEF Recordings
        <5>2. CASE x \in recorded'
          BY <2>1, <5>2, Zenon
        <5> QED
          BY <3>3, <5>1, <5>2, Zenon
      <4>4. \E leaf \in Leaves(k, effect.queue, effect.balance, seen, TRUE) :
              /\ leaf.from = <<"share", x>> /\ leaf.asset = a
              /\ leaf.recipient = x /\ leaf.amount >= effect.balance[a][x]
        BY <2>1, <2>4, <2>5, <3>3, <4>1, <4>2, <4>3, ClosingShares, Zenon
      <4> QED
        BY <2>1, <3>1, <4>4, Zenon
    <3>4. CloseMakesWhole'
      BY <3>3, Zenon DEF CloseMakesWhole
    <3> QED
      BY <3>2, <3>4, Zenon
  <2>7. CASE ~close
    <3>1. phase' = "open" /\ leaves = RecordLeaves(effect.queue)
      BY <2>1, <2>7, Zenon DEF Leaves
    <3>2. CloseMakesWhole'
      BY <3>1, Zenon DEF CloseMakesWhole
    <3>3. ASSUME NEW a \in Assets PROVE controlled'[a] = Residual(a, k, effect.queue)
      BY <2>1, <3>1, Zenon DEF Residual
    <3>4. BalancesBacked'
      BY <2>1, <2>5, <3>3, Zenon DEF BalancesBacked
    <3> QED
      BY <3>2, <3>4, Zenon
  <2> QED
    BY <2>6, <2>7, Zenon
<1>6. CASE UNCHANGED vars
    BY <1>1, <1>6, Zenon DEF vars, liabilities
<1> QED
    BY <1>2, <1>3, <1>4, <1>5, <1>6, Zenon DEF Next

\* Balances start at nothing, in an open room.
LEMMA HonestInit == Init => BalancesBacked /\ CloseMakesWhole
<1> SUFFICES ASSUME Init PROVE BalancesBacked /\ CloseMakesWhole
    BY Zenon
<1>1. ASSUME NEW a \in Assets
      PROVE  SumFunctionOnSet(balance[a], Accounts) <= controlled[a]
  <2> DEFINE f == balance[a]
             Bad == {T \in SUBSET Accounts : SumFunctionOnSet(f, T) # 0}
  <2>1. \A x \in Accounts : f[x] = 0
    BY Zenon DEF Init
  <2>2. IsFiniteSet(Accounts)
    BY FiniteAssumption, ZenonT(60)
  <2>3. Bad = {}
    <3> SUFFICES ASSUME Bad # {} PROVE FALSE
      BY Zenon
    <3>1. PICK T \in Bad : \A U \in Bad : U \subseteq T => U = T
      <4>1. Bad \in SUBSET (SUBSET Accounts)
        BY Zenon
      <4> HIDE DEF Bad
      <4> QED
        BY <2>2, <4>1, MinimalSubset
    <3>2. T \subseteq Accounts /\ SumFunctionOnSet(f, T) # 0 /\ IsFiniteSet(T)
      BY <2>2, <3>1, FiniteSubset, Zenon
    <3>3. PICK y : y \in T
      BY <3>2, SumEmpty, Zenon
    <3>4. SumFunctionOnSet(f, T) = f[y] + SumFunctionOnSet(f, T \ {y})
      BY <2>1, <3>2, <3>3, SumRemove, SMTT(60)
    <3>5. SumFunctionOnSet(f, T \ {y}) = 0
      BY <3>1, <3>3, SMTT(60)
    <3> QED
      BY <2>1, <3>2, <3>3, <3>4, <3>5
  <2>4. SumFunctionOnSet(f, Accounts) = 0
    BY <2>3, Zenon
  <2>5. controlled[a] = 0
    BY Zenon DEF Init, Nothing
  <2> QED
    BY <2>4, <2>5
<1>2. phase = "open"
    BY Zenon DEF Init
<1> QED
    BY <1>1, <1>2, Zenon DEF BalancesBacked, CloseMakesWhole

\* With an application that mints nothing, what the accounts hold is backed by
\* the escrow, whatever is deposited, withheld, moved and withdrawn.
THEOREM HoldingsBacked == Spec => []BalancesBacked
BY HonestInit, HonestNext, InvInit, InvNext, MintedInit, MintedNext, PTL DEF Spec

\* ... so that the close sweep pays every code-free account it reaches (all that
\* hold native value, and the holders of a token that the state has a record of)
\* at least what it held, although shares are rounded down and contracts hold
\* balances too.
THEOREM ClosingIsWhole == Spec => []CloseMakesWhole
BY HonestInit, HonestNext, InvInit, InvNext, MintedInit, MintedNext, PTL DEF Spec
=============================================================================

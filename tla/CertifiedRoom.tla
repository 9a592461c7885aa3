--------------------------- MODULE CertifiedRoom ---------------------------
(***************************************************************************)
(* A certified v5 room from the registration of its template through the   *)
(* batches it accepts (room_v5/mod.rs, room_v5/import.rs, block.rs), on    *)
(* top of RoomState, CertifiedPolicy and RoomRoster.                       *)
(*                                                                         *)
(* A batch is a job that takes the guest's steps in the guest's order; a   *)
(* check that fails is a step that is not enabled, and then the job can    *)
(* only be refused.  L1 keeps roots, so a job gets the values behind them  *)
(* from its prover: ghosts (truth, roster) say what those values are.      *)
(* The value a batch moves is RoomEscrow's subject and the transactions it *)
(* answers are RoomAdmissions'; here a deposit is a credit to one slot.    *)
(***************************************************************************)
EXTENDS CertifiedPolicy, RoomRoster

CONSTANTS
    Policies,      \* policies a template may be registered with
    Genesis,       \* initial accounts of the template
    FirstRoster,   \* roster of a unanimous room at its creation
    Modes,         \* authorization modes of rooms with a policy
    Bodies,        \* bodies of their batches: sequences of blocks [time, txs]
    Envelopes,     \* accounts, with slots, that a witness may declare beside the ones in use
    GoodCapacity,  \* participant capacities: powers of two in 128..32768
    CreditAt,      \* the contract and slot that a deposit credits
    Requests,      \* roster changes: [action, index, member, joined]
    MaxQueue,      \* bound: roster changes queued on L1
    MaxBatches,    \* bound: accepted batches
    MaxMirror      \* bound: values of the L1 slot that imports mirror

\* A record with one value per slot.
RecordOK(r) ==
    r = [live |-> r.live, code |-> r.code, storage |-> [s \in Slot |-> r.storage[s]]]

\* StateMap: records by address, none of them empty.
AccountsOK(accounts) ==
    /\ accounts = [a \in DOMAIN accounts |-> accounts[a]] /\ DOMAIN accounts \subseteq Addr
    /\ \A a \in DOMAIN accounts : RecordOK(accounts[a]) /\ ~IsEmpty(accounts[a])

\* Addresses and slots are words.  A deposit credits a slot of a mapping, which
\* is a hash; the slots of the registry are numbered.
ASSUME StateAssumption ==
    /\ IsFiniteSet(Addr) /\ IsFiniteSet(Slot) /\ RegistrySlots \subseteq Slot
    /\ MaxAccounts \in Nat /\ MaxSlots \in Nat
    /\ AccountsOK(Genesis)
    /\ CreditAt \in Addr \X (Slot \ RegistrySlots)
    /\ \A p \in Policies : p.imports \subseteq [contract : Addr, slot : Slot]
    /\ \A e \in Envelopes : DOMAIN e \subseteq Addr /\ \A a \in DOMAIN e : e[a] \subseteq Slot

\* A body is a list of blocks, each with a list of transactions.  Their senders have
\* no code (EIP-3607), and a policy pins contracts.
ASSUME BodyAssumption ==
    \A p \in Policies : \A body \in Bodies[p] :
      /\ DOMAIN body = 1..Len(body) /\ Len(body) \in Nat
      /\ \A b \in DOMAIN body :
           /\ DOMAIN body[b].txs = 1..Len(body[b].txs) /\ Len(body[b].txs) \in Nat
           /\ \A t \in Range(body[b].txs) : t.from \notin DOMAIN p.code \cup {Member}

\* The first roster fills the first positions with distinct accounts, all of them
\* joined in the first epoch; positions and epochs are numbers.
ASSUME RosterAssumption ==
    /\ DOMAIN FirstRoster = 1..Len(FirstRoster) /\ Len(FirstRoster) \in Nat
    /\ \A k \in DOMAIN FirstRoster :
         FirstRoster[k] = [index |-> k - 1, member |-> FirstRoster[k].member, joined |-> 1]
    /\ \A j, k \in DOMAIN FirstRoster :
         FirstRoster[j].member = FirstRoster[k].member => j = k
    /\ \A r \in Requests : r.index \in Nat /\ r.joined \in Nat

VARIABLES
    policy,   \* policy of the template
    room,     \* what RoomManager stores about the room, Nothing before
    truth,    \* ghost: the accounts behind the room's state root
    roster,   \* ghost: the roster behind its roster root
    queue,    \* roster changes requested on L1
    outbox,   \* ghost: leaves of all withdrawal trees accepted so far
    mirror,   \* value of the L1 slot that the policy's imports read
    job       \* the batch that is being proved, or Nothing

vars == <<policy, room, truth, roster, queue, outbox, mirror, job>>

(***************************************************************************)
(* The participant registry, four slots of a pinned contract.              *)
(***************************************************************************)

ParticipantsAt(accounts) ==
    [s \in RegistrySlots |-> SlotAt(accounts, policy.registry, s)]

\* participant_state_v5 accepts the registry.
ParticipantsOk(accounts) ==
    LET p == ParticipantsAt(accounts)
    IN /\ policy.registry \in DOMAIN accounts
       /\ p["root"] # 0 /\ p["epoch"] # 0
       /\ p["capacity"] \in GoodCapacity /\ p["count"] <= p["capacity"]

(***************************************************************************)
(* Template and room.                                                      *)
(***************************************************************************)

Init ==
    /\ policy \in Policies
    /\ truth = Genesis
    /\ room = Nothing
    /\ roster = <<>> /\ queue = <<>> /\ outbox = {}
    /\ mirror = 0
    /\ job = Nothing

\* Witnesses a prover can build: accounts and slots beside the existing ones
\* may be declared.  The last two variants hide an account that exists without
\* being there, and a value that is not the room's.
Witnesses(accounts) ==
    LET absent == Addr \ DOMAIN accounts
        honest(more) ==
          [a \in DOMAIN accounts \cup DOMAIN more |->
             Entry(RecordAt(accounts, a),
                   IF a \in DOMAIN more \ absent THEN more[a] ELSE {})]
    IN {honest(more) : more \in Envelopes}
       \cup {[x \in DOMAIN accounts \cup {a} |->
                IF x = a THEN [Entry(NoRecord, {}) EXCEPT !.exists = TRUE]
                ELSE honest(<<>>)[x]] : a \in absent}
       \cup {[honest(<<>>) EXCEPT ![c.contract].slots =
                [s \in DOMAIN @ \cup {c.slot} |-> IF s = c.slot THEN 2 ELSE @[s]]] :
               c \in policy.imports}

\* initial_state_root of the template, which its id commits to.
InitialRoot ==
    RoomStateRoot([accounts |-> Genesis, prepared |-> <<>>], policy.commitment)

\* execute_cold_template_v5 with its synthetic roster, followed by the creation
\* of a room in either authorization mode.
Register ==
    /\ room = Nothing
    /\ \E w \in Witnesses(Genesis) :
         /\ CompactOk(w)
         /\ RoomStateRoot(FromCompact(w), policy.commitment) = InitialRoot
         /\ FromV5(policy, policy, {Nothing}, FromCompact(w).accounts)
    /\ \E mode \in Modes[policy], capacity \in Capacities :
         /\ capacity > Len(FirstRoster)
         /\ roster' = IF mode = 0 THEN RosterMap(FirstRoster) ELSE <<>>
         /\ room' = [mode |-> mode, batch |-> 0, closed |-> FALSE,
                     root |-> InitialRoot,
                     participants |-> ParticipantsAt(Genesis),
                     rosterRoot |-> IF mode = 0 THEN RosterRoot(FirstRoster, capacity)
                                    ELSE <<>>,
                     epoch |-> 1, cursor |-> 0, imports |-> 0]
    /\ truth' = Genesis
    /\ UNCHANGED <<policy, queue, outbox, mirror, job>>

\* L1 queues a request; what it holds is up to the contract and its users.
QueueChange ==
    /\ room # Nothing /\ room.mode = 0 /\ Len(queue) < MaxQueue
    /\ \E r \in Requests :
         queue' = Append(queue,
           [id |-> Len(queue) + 1, action |-> r.action, index |-> r.index,
            member |-> r.member, joined |-> r.joined,
            commitment |-> IF r.action = "add" THEN <<>>
              ELSE WithdrawalLeaf(room.batch + 1,
                     [index |-> r.index, epoch |-> room.epoch + 1,
                      recipient |-> r.member, asset |-> 1, amount |-> 1])])
    /\ UNCHANGED <<policy, room, truth, roster, outbox, mirror, job>>

MirrorChanges ==
    /\ policy.imports # {} /\ mirror < MaxMirror
    /\ mirror' = mirror + 1
    /\ UNCHANGED <<policy, room, truth, roster, queue, outbox, job>>

(***************************************************************************)
(* One batch.                                                              *)
(***************************************************************************)

\* The preimage of a roster, in the order of its positions.
RosterList(r) ==
    LET at(k) == CHOOSE i \in DOMAIN r : Cardinality({j \in DOMAIN r : j < i}) = k - 1
    IN [k \in 1..Cardinality(DOMAIN r) |->
          [index |-> at(k), member |-> r[at(k)].member, joined |-> r[at(k)].joined]]

\* Preimages that a prover can present: the room's and altered ones.
RosterLists ==
    LET honest == RosterList(roster)
    IN {honest} \cup {[honest EXCEPT ![k].joined = @ + 1] : k \in DOMAIN honest}
         \cup {[honest EXCEPT ![k].member = m] : k \in DOMAIN honest, m \in Accounts}

\* Mutant: the batch may carry any requests of its queue.
Contiguous_any(changes) == TRUE

\* The requests are the ones behind the cursor, in the order of their ids.  Their
\* deadlines only narrow the batches that can carry them, and are left out.
Contiguous(changes) ==
    \A k \in DOMAIN changes : changes[k].id = room.cursor + k

\* Withdrawals of a unanimous batch, one per position: what the approvers sign.
Allocations(changes) ==
    LET leaving == {q \in Requests : q.action = "remove"}
        positions == IF \E k \in DOMAIN changes : changes[k].action = "remove"
                     THEN {q.index : q \in leaving} ELSE {}
    IN UNION {{{[index |-> i, epoch |-> room.epoch + 1, recipient |-> to[i], asset |-> 1,
                 amount |-> 1] : i \in paid} : to \in [paid -> {q.member : q \in leaving}]} :
              paid \in SUBSET positions}

\* The callers validate_roster_transition_v5 returns: the opening roster.
Callers(list, changes) == {list[k].member : k \in DOMAIN list}

\* The callers of a validity-only batch: the signers of its transactions.
Signers(body) == {t.from : t \in UNION {Range(body[b].txs) : b \in DOMAIN body}}

\* The head of execute_batch_v5_with_report: counts, the roster preimage and
\* the range of requests.  A validity-only room has no roster; its callers
\* are the signers of its body, all of which it decodes first.
StartBatch ==
    /\ room # Nothing /\ job = Nothing /\ ~room.closed /\ room.batch < MaxBatches
    /\ \E body \in Bodies[policy], close \in BOOLEAN :
         /\ Len(body) \in 1..policy.maxBlocks
         /\ Len(body) = 1 => close
         /\ LET started(callers, expected, changes, paid, capacity) ==
                  [pc |-> "roster", body |-> body, close |-> close,
                   callers |-> callers, opening |-> expected, expected |-> expected,
                   changes |-> changes, applied |-> 0, paid |-> paid,
                   capacity |-> capacity]
            IN \/ /\ room.mode = 1 /\ Signers(body) # {}
                  /\ job' = started(Signers(body), <<>>, <<>>, {}, 0)
               \/ /\ room.mode = 0
                  /\ \E list \in RosterLists, capacity \in Capacities,
                        changes \in UNION {[1..n -> Range(queue)] : n \in 0..Len(queue)} :
                       /\ ActiveRosterOk(list, capacity, room.rosterRoot)
                       /\ Contiguous(changes)
                       /\ \E paid \in Allocations(changes) :
                            job' = started(Callers(list, changes), RosterMap(list),
                                           changes, paid, capacity)
    /\ UNCHANGED <<policy, room, truth, roster, queue, outbox, mirror>>

\* The epoch moves once in a batch with changes.
PostEpoch == room.epoch + (IF job.changes = <<>> THEN 0 ELSE 1)

\* One round of the loop over roster_changes.
ApplyChange ==
    /\ job # Nothing /\ job.pc = "roster" /\ job.applied < Len(job.changes)
    /\ LET change == job.changes[job.applied + 1]
       IN /\ ChangeOk(job.expected, change, PostEpoch, room.batch + 1, job.paid)
          /\ job' = [job EXCEPT !.expected = Changed(@, change), !.applied = @ + 1]
    /\ UNCHANGED <<policy, room, truth, roster, queue, outbox, mirror>>

\* verify_and_apply_import_v5 mirrors the authenticated value into every slot
\* the certified adapter map names; the slots must be declared.
ImportOk(state) == \A b \in policy.imports : Readable(state, b.contract, b.slot)

Imported(state) ==
    LET mirrored(a) == [s \in Slot |-> IF [contract |-> a, slot |-> s] \in policy.imports
                                       THEN mirror ELSE state.accounts[a].storage[s]]
    IN [state EXCEPT !.accounts =
          [a \in DOMAIN @ |-> [@[a] EXCEPT !.storage = mirrored(a)]]]

\* apply_deposit_credits_v5 for one deposit of a bound token.
CreditOk(state) == Readable(state, CreditAt[1], CreditAt[2])

Credited(state) ==
    [state EXCEPT !.accounts[CreditAt[1]].storage[CreditAt[2]] = @ + 1]

\* From verify_compact_state_v4 to the snapshot of the storage that the blocks
\* start on.
OpenState ==
    /\ job # Nothing /\ job.pc = "roster" /\ job.applied = Len(job.changes)
    /\ \E w \in Witnesses(truth), import \in BOOLEAN, deposit \in BOOLEAN :
         LET opened == FromCompact(w)
             imported == IF import THEN Imported(opened) ELSE opened
             credited == IF deposit THEN Credited(imported) ELSE imported
         IN /\ CompactOk(w)
            /\ RoomStateRoot(opened, policy.commitment) = room.root
            /\ ParticipantsOk(opened.accounts)
            /\ ParticipantsAt(opened.accounts) = room.participants
            /\ import => policy.imports # {} /\ ImportOk(opened)
            /\ deposit => CreditOk(imported)
            /\ FromV5(policy, policy, job.callers, credited.accounts)
            /\ CanPrepare(credited, policy.code)
            /\ job' = [pc |-> "blocks", body |-> job.body, close |-> job.close,
                       callers |-> job.callers, opening |-> job.opening,
                       expected |-> job.expected, changes |-> job.changes,
                       paid |-> job.paid, capacity |-> job.capacity,
                       import |-> import,
                       opened |-> opened.accounts, snapshot |-> credited.accounts,
                       state |-> [credited EXCEPT !.prepared = policy.code],
                       block |-> 0, tx |-> 0, gas |-> 0, ran |-> {}]
    /\ UNCHANGED <<policy, room, truth, roster, queue, outbox, mirror>>

InBlock == job # Nothing /\ job.pc = "blocks" /\ job.block > 0

CurrentTxs == job.body[job.block].txs

\* The head of the loop over blocks: timestamps do not go back within a batch,
\* and the block has the certified environment.  Gas is counted per block.
EnterBlock ==
    /\ job # Nothing /\ job.pc = "blocks" /\ job.block < Len(job.body)
    /\ job.block > 0 => job.tx = Len(CurrentTxs)
    /\ LET next == job.body[job.block + 1]
       IN /\ job.block > 0 => next.time >= job.body[job.block].time
          /\ Len(next.txs) <= policy.maxTxs
    /\ job' = [job EXCEPT !.block = @ + 1, !.tx = 0, !.gas = 0]
    /\ UNCHANGED <<policy, room, truth, roster, queue, outbox, mirror>>

\* The accounts that the EVM loads to run a transaction.
Loads(tx) ==
    ({tx.from, tx.to} \ {Nothing}) \cup {c.target : c \in tx.calls} \cup tx.creates

\* The change set that the EVM hands to commit (external: revm).  The sender's
\* nonce moves even when the call reverts.  Only a contract that the same
\* transaction created can be destroyed (EIP-6780).
Changes(state, tx) ==
    LET done == IF tx.reverts THEN {} ELSE DOMAIN tx.writes \cup tx.creates
        touched == {tx.from} \cup done \cup ({tx.to} \ {Nothing})
    IN [a \in touched |->
          [created |-> a \in done \cap tx.creates,
           destroyed |-> a \in done \cap tx.creates \cap tx.destroys,
           live |-> RecordAt(state.accounts, a).live \/ a = tx.from
                      \/ a \in done \cap tx.creates,
           code |-> IF a \in done \cap tx.creates THEN tx.runtime
                    ELSE RecordAt(state.accounts, a).code,
           writes |-> IF a \in done \cap DOMAIN tx.writes THEN tx.writes[a] ELSE <<>>]]

\* One round of the loop of execute_block_on_state.
ExecuteTx ==
    /\ InBlock /\ job.tx < Len(CurrentTxs)
    /\ LET tx == CurrentTxs[job.tx + 1]
           changes == Changes(job.state, tx)
       IN /\ EntryAllowed(policy, job.callers, tx)
          /\ Loads(tx) \subseteq DOMAIN job.state.declared
          /\ \A r \in tx.reads : Readable(job.state, r[1], r[2])
          /\ InspectorSilent(policy, job.callers, tx)
          /\ CommitAllowed(job.state, changes)
          /\ job.gas + tx.gas <= policy.maxGas
          /\ job' = [job EXCEPT !.state = Commit(@, changes), !.tx = @ + 1,
                                !.gas = @ + tx.gas, !.ran = @ \cup {tx}]
    /\ UNCHANGED <<policy, room, truth, roster, queue, outbox, mirror>>

\* The closing participants equal the journal's, with the opening capacity.
RegistryKept(accounts) ==
    /\ ParticipantsOk(accounts)
    /\ ParticipantsAt(accounts)["capacity"] = room.participants["capacity"]

\* The end of execute_batch_v5_with_report, and RoomManager storing the
\* journal (external).
AcceptBatch ==
    /\ InBlock /\ job.block = Len(job.body) /\ job.tx = Len(CurrentTxs)
    /\ ValidatePostState(policy, job.snapshot, job.state.accounts)
    /\ RegistryKept(job.state.accounts)
    /\ room.mode = 0 => RosterPreimage(RosterList(job.expected), job.capacity)
    /\ room' = [room EXCEPT
         !.batch = @ + 1, !.closed = job.close,
         !.root = RoomStateRoot(job.state, policy.commitment),
         !.participants = ParticipantsAt(job.state.accounts),
         !.rosterRoot = IF room.mode = 0
                        THEN RosterRoot(RosterList(job.expected), job.capacity) ELSE @,
         !.epoch = PostEpoch, !.cursor = @ + Len(job.changes),
         !.imports = IF job.import THEN @ + 1 ELSE @]
    /\ truth' = job.state.accounts
    /\ roster' = job.expected
    /\ outbox' = outbox \cup {WithdrawalLeaf(room.batch + 1, w) : w \in job.paid}
    /\ job' = Nothing
    /\ UNCHANGED <<policy, queue, mirror>>

\* A check fails, or the prover goes away: nothing of the batch is left.
Refuse ==
    /\ job # Nothing
    /\ job' = Nothing
    /\ UNCHANGED <<policy, room, truth, roster, queue, outbox, mirror>>

Next ==
    \/ Register \/ QueueChange \/ MirrorChanges
    \/ StartBatch \/ ApplyChange \/ OpenState
    \/ EnterBlock \/ ExecuteTx \/ AcceptBatch \/ Refuse

Spec == Init /\ [][Next]_vars

(***************************************************************************)
(* Properties.                                                             *)
(***************************************************************************)

\* The roots bind.  Whatever preimages a prover presents, the guest executes on
\* the accounts the last accepted batch left, and lets exactly the room's
\* approvers act: a root opens to one state (verify_compact_state_v4's rule for
\* empty accounts) and to one roster (roster_root_v5).
GuestSeesTruth ==
    job # Nothing =>
      /\ job.pc = "blocks" => job.opened = truth
      /\ room.mode = 0 => job.opening = roster
      /\ job.pc = "blocks" /\ room.mode = 0 =>
           \A tx \in job.ran : tx.from \in MembersOf(roster)

\* A room that accepted a batch can be opened again for every caller it may have,
\* unless its last approver left.  The terminal checks of a batch
\* (validate_post_state, the inspector, the envelope of commit, the closing
\* registry) leave nothing that the opening checks of the next batch
\* (verify_compact_state_v4, participant_state_v5, from_v5) refuse, with one
\* exception: a batch may remove the last approver of a unanimous room, whose
\* root still opens, and from_v5 refuses every batch of a room without callers.
Reopens ==
    room # Nothing /\ room.batch > 0 /\ ~room.closed =>
      LET w == [a \in DOMAIN truth |-> Entry(truth[a], {})]
          opened == FromCompact(w)
          admits(callers) == FromV5(policy, policy, callers, opened.accounts)
      IN /\ CompactOk(w)
         /\ RoomStateRoot(opened, policy.commitment) = room.root
         /\ ParticipantsOk(opened.accounts)
         /\ ParticipantsAt(opened.accounts) = room.participants
         /\ room.mode = 1 =>
              \A body \in Bodies[policy] : Signers(body) # {} => admits(Signers(body))
         /\ room.mode = 0 =>
              /\ \E capacity \in Capacities :
                   ActiveRosterOk(RosterList(roster), capacity, room.rosterRoot)
              /\ admits(MembersOf(roster)) <=> DOMAIN roster # {}

\* Beside deposits, nothing that happens to a room changes a slot outside its
\* writable namespaces or the runtime of a pinned contract, whether by a
\* transaction or by an import (from_v5 on imports, validate_post_state), and
\* only transactions change the participant registry, whose values reach the
\* first block of a batch through the import.
ReadOnlyKept ==
    /\ \A a \in DOMAIN Genesis :
         /\ a \in DOMAIN policy.code => a \in DOMAIN truth /\ truth[a].code = Genesis[a].code
         /\ \A s \in Slot :
              Writable(policy, a, s) \/ <<a, s>> = CreditAt
                \/ SlotAt(truth, a, s) = Genesis[a].storage[s]
    /\ job # Nothing /\ job.pc = "blocks" =>
         ParticipantsAt(job.snapshot) = room.participants
    /\ room # Nothing => room.participants["capacity"] = ParticipantsAt(Genesis)["capacity"]

\* The roster that the first n requests of the queue lead to.
Replay(n) ==
    LET after[k \in 0..n] ==
          IF k = 0 THEN RosterMap(FirstRoster) ELSE Changed(after[k - 1], queue[k])
    IN after[n]

\* Every request behind the cursor took effect once and in the order of the
\* queue, whichever batches carried them: no account holds two positions,
\* nobody joined in a later epoch than the room's, and an approver left only
\* in a batch that also paid the allocation the removal request committed to.
RosterIsReplay ==
    room # Nothing /\ room.mode = 0 =>
      /\ roster = Replay(room.cursor)
      /\ Unique(roster)
      /\ \A i \in DOMAIN roster : roster[i].joined <= room.epoch
      /\ \A k \in 1..room.cursor :
           queue[k].action = "remove" => queue[k].commitment \in outbox

=============================================================================
